------------------------- MODULE FastExtractProofs -------------------------
(***************************************************************************)
(* Proofs about FastExtract, for every e-graph: whatever the search selects *)
(* and takes back, what it hands to the conversion can be converted, and   *)
(* the lines come out in an order in which operands are computed first.    *)
(***************************************************************************)
EXTENDS FastExtract, EGraphsProofs

-----------------------------------------------------------------------------
(* The inductive invariant.                                                *)

\* What annotate_constants leaves of a valid e-graph.
Typed(g) ==
  /\ IsFiniteSet(Classes(g))
  /\ g.root \in Classes(g) /\ g.inputs \subseteq Classes(g)
  /\ \A c \in Classes(g) : g.nodes[c] \in Seq(ENodeSet(g))
  /\ \A c \in Classes(g) : \A i \in DOMAIN g.nodes[c] :
       LET en == g.nodes[c][i] IN
       /\ en.bufs # <<>> => Len(en.bufs) = 1 + Len(en.kids)
       /\ en.bufs # <<>> /\ en.bufs[1] # ANY => en.bufs \in Seq(Buffers)
       /\ en.bufs # <<>> /\ en.bufs[1] = ANY => en.kids # <<>>
       /\ en.kind = "detected" \/ c \in g.inputs => en.kids = <<>> /\ en.bufs = <<HBM>>

Elements(s) == {s[i] : i \in DOMAIN s}

\* The e-nodes in sel deliver w, a class and the buffer it is in.
Has(g, sel, w) == w \in Available(g, Elements(sel))

\* The class c has an e-node in sel.
HasNode(sel, c) == \E i \in DOMAIN sel : sel[i][1] = c

\* Every e-node in sel was inserted once, after one of each of its operands,
\* and one with a buffer of its own delivers its class there.
Sound(g, sel) ==
  /\ \A i, j \in DOMAIN sel : sel[i] = sel[j] => i = j
  /\ \A j \in DOMAIN sel : \A c \in KidSet(At(g, sel[j])) :
       \E i \in 1 .. j - 1 : sel[i][1] = c
  /\ \A j \in DOMAIN sel :
       LET en == At(g, sel[j]) IN
       en.bufs # <<>> /\ (en.bufs[1] # ANY => Has(g, sel, <<sel[j][1], en.bufs[1]>>))

\* The e-node of frame f, and its k-th operand with the buffer it is read from.
EN(g, f) == At(g, <<f.class, f.node>>)

Operand(g, f, k) == <<EN(g, f).kids[k], ReadsFrom(EN(g, f), k, f.target)>>

\* The operands that f has found are there.
FoundIn(g, f, sel) == \A k \in 1 .. f.kid - 1 : Has(g, sel, Operand(g, f, k))

\* A call that has accepted an e-node is at one of its operands or past them.
FrameOK(g, f) ==
  /\ f.node \in Nat \ {0}
  /\ f.kid > 0 =>
       /\ f.node \in DOMAIN g.nodes[f.class]
       /\ Supports(EN(g, f), f.target)
       /\ f.kid <= 1 + Len(EN(g, f).kids)

\* It waits for the call it made for an operand.
Waiting(g, f) == f.kid > 0 /\ f.kid <= Len(EN(g, f).kids)

\* What the d-th call asks for; the root is asked for by nobody.
Asked(g, s, d) == IF d = 0 THEN <<g.root, HBM>> ELSE Operand(g, s[d], s[d].kid)

\* Each call on the stack was made for the operand at which the one below is.
Calls(g, s, next) ==
  /\ \A d \in 1 .. Len(s) : FrameOK(g, s[d])
  /\ \A d \in 1 .. Len(s) - 1 : Waiting(g, s[d])
  /\ \A d \in 1 .. Len(s) : <<s[d].class, s[d].target>> = Asked(g, s, d - 1)
  /\ s # <<>> =>
       /\ next \in {"call", "try"} => s[Len(s)].kid = 0
       /\ next = "kids" => s[Len(s)].kid > 0
       /\ next \in {"yes", "no"} => Waiting(g, s[Len(s)])

\* What the calls have found is selected, and stays selected when a call
\* above goes back to its snapshot.
Selections(g, s, next, sel) ==
  /\ Sound(g, sel)
  /\ \A d \in 1 .. Len(s) : Sound(g, s[d].snapshot)
  /\ \A d \in 1 .. Len(s) : FoundIn(g, s[d], sel)
  /\ \A d \in 1 .. Len(s) : \A e \in d + 1 .. Len(s) :
       FoundIn(g, s[d], s[e].snapshot)
  /\ next = "yes" => Has(g, sel, Asked(g, s, Len(s)))

SearchOK == Calls(graph, stack, control) /\ Selections(graph, stack, control, selected)

\* Nothing has happened before the search.
Idle ==
  phase \in {"detect", "annotate"} =>
    stack = <<>> /\ selected = <<>> /\ path = {} /\ control = "call"

\* eclass_map leads to lines of the class, and knows every line's class.
MapOK ==
  /\ \A c \in Classes(graph) :
       eclass_map[c] # 0 =>
         eclass_map[c] \in DOMAIN pii /\ pii[eclass_map[c]].node[1] = c
  /\ \A t \in DOMAIN pii : eclass_map[pii[t].node[1]] # 0
  /\ phase \in {"detect", "annotate", "search"} => pii = <<>>

IInv ==
  /\ Typed(graph) /\ TypeOK /\ Idle /\ SearchOK /\ MapOK
  /\ LinesInOrder /\ NeverStuck

-----------------------------------------------------------------------------
(* E-graphs.                                                               *)

LEMMA HBMIsABuffer == HBM \in Buffers /\ ANY \notin Buffers
<1>1. ANY \notin OnChip
  BY GraphAssumption
<1> QED
  BY <1>1 DEF Buffers, HBM, ANY

\* A valid e-graph is typed, before anything is detected.
LEMMA ValidIsTyped ==
  ASSUME NEW g \in Graphs
  PROVE  Typed(g)
<1>1. ValidGraph(g)
  BY GraphAssumption
<1>2. ENodesOK(g)
  BY <1>1 DEF ValidGraph
<1>3. ASSUME NEW c \in Classes(g), NEW i \in DOMAIN g.nodes[c]
      PROVE  LET en == g.nodes[c][i] IN
             /\ en.bufs # <<>> => Len(en.bufs) = 1 + Len(en.kids)
             /\ en.bufs # <<>> /\ en.bufs[1] # ANY => en.bufs \in Seq(Buffers)
             /\ en.bufs # <<>> /\ en.bufs[1] = ANY => en.kids # <<>>
             /\ en.kind = "detected" \/ c \in g.inputs => en.kids = <<>> /\ en.bufs = <<HBM>>
  <2> DEFINE en == g.nodes[c][i]
  <2>1. <<c, i>> \in ENodes(g) /\ At(g, <<c, i>>) = en
    BY DEF ENodes, At
  <2>2. /\ en.kind # "detected"
        /\ en.kind = "op"  => en.bufs = <<>>
        /\ en.kind = "var" => en.bufs = <<HBM>> /\ en.kids = <<>>
        /\ en.kind = "isa" => en.bufs \in Seq(Buffers) /\ Len(en.bufs) = 1 + Len(en.kids)
        /\ en.kind = "any" => /\ en.kids # <<>>
                              /\ en.bufs = [k \in 1 .. 1 + Len(en.kids) |-> ANY]
    BY <1>2, <2>1 DEF ENodesOK
  <2>3. en \in ENodeSet(g)
    <3>1. g.nodes[c] \in Seq(ENodeSet(g))
      BY ValidClasses
    <3> QED
      BY <3>1
  <2>4. Len(en.kids) \in Nat
    BY <2>3 DEF ENodeSet
  <2>5. ASSUME en.kind = "var"
       PROVE  /\ en.bufs # <<>> => Len(en.bufs) = 1 + Len(en.kids)
              /\ en.bufs # <<>> /\ en.bufs[1] # ANY => en.bufs \in Seq(Buffers)
              /\ en.bufs # <<>> /\ en.bufs[1] = ANY => en.kids # <<>>
    <3>1. en.bufs = <<HBM>> /\ en.kids = <<>>
      BY <2>2, <2>5
    <3>2. Len(en.bufs) = 1 + Len(en.kids)
      BY <3>1
    <3>3. HBM \in Buffers
      BY DEF Buffers
    <3>4. en.bufs \in Seq(Buffers)
      BY <3>1, <3>3
    <3>5. en.bufs[1] # ANY
      BY <3>1, HBMIsABuffer
    <3> QED
      BY <3>2, <3>4, <3>5
  <2>6. ASSUME en.kind = "any"
       PROVE  /\ en.bufs # <<>> => Len(en.bufs) = 1 + Len(en.kids)
              /\ en.bufs # <<>> /\ en.bufs[1] # ANY => en.bufs \in Seq(Buffers)
              /\ en.bufs # <<>> /\ en.bufs[1] = ANY => en.kids # <<>>
    <3>1. DOMAIN en.bufs = 1 .. 1 + Len(en.kids) /\ en.bufs[1] = ANY
      BY <2>2, <2>4, <2>6
    <3>2. en.bufs \in Seq(Buffers \cup {ANY})
      BY <2>3 DEF ENodeSet
    <3>3. Len(en.bufs) = 1 + Len(en.kids)
      BY <3>1, <3>2, <2>4
    <3>4. en.kids # <<>>
      BY <2>2, <2>6
    <3> QED
      BY <3>1, <3>3, <3>4
  <2>7. en.kind \in Kinds
    BY <2>3 DEF ENodeSet
  <2>8. ASSUME c \in g.inputs PROVE en.kids = <<>> /\ en.bufs = <<HBM>>
    <3>1. PICK j \in DOMAIN g.nodes[c] : g.nodes[c][j].kind = "var"
      BY <1>1, <2>8 DEF ValidGraph
    <3>2. g.nodes[c] \in Seq(ENodeSet(g)) /\ Len(g.nodes[c]) = 1
      BY <1>1, <2>8, ValidClasses DEF ValidGraph
    <3>3. i = j
      BY <3>2
    <3> QED
      BY <2>2, <3>1, <3>3
  <2>9. /\ en.bufs # <<>> => Len(en.bufs) = 1 + Len(en.kids)
        /\ en.bufs # <<>> /\ en.bufs[1] # ANY => en.bufs \in Seq(Buffers)
        /\ en.bufs # <<>> /\ en.bufs[1] = ANY => en.kids # <<>>
    <3>1. CASE en.kind = "isa"
      <4>1. en.bufs \in Seq(Buffers) /\ Len(en.bufs) = 1 + Len(en.kids)
        BY <2>2, <3>1
      <4>2. en.bufs[1] \in Buffers
        BY <2>4, <4>1
      <4> QED
        BY <4>1, <4>2, HBMIsABuffer
    <3>2. CASE en.kind = "op"
      BY <2>2, <3>2
    <3> QED
      BY <2>2, <2>5, <2>6, <2>7, <3>1, <3>2 DEF Kinds
  <2> QED
    BY <2>2, <2>8, <2>9
<1> QED
  BY <1>1, <1>3, ValidClasses DEF Typed, ValidGraph

\* What an e-node of a typed e-graph looks like.
LEMMA ENodeFacts ==
  ASSUME NEW g, Typed(g), NEW c \in Classes(g), NEW i \in DOMAIN g.nodes[c]
  PROVE  /\ <<c, i>> \in ENodes(g)
         /\ At(g, <<c, i>>).kids \in Seq(Classes(g))
         /\ At(g, <<c, i>>).bufs \in Seq(Buffers \cup {ANY})
         /\ At(g, <<c, i>>).bufs # <<>> =>
              Len(At(g, <<c, i>>).bufs) = 1 + Len(At(g, <<c, i>>).kids)
         /\ At(g, <<c, i>>).bufs # <<>> /\ At(g, <<c, i>>).bufs[1] # ANY =>
              At(g, <<c, i>>).bufs \in Seq(Buffers)
<1>1. <<c, i>> \in ENodes(g) /\ At(g, <<c, i>>) = g.nodes[c][i]
  BY DEF ENodes, At
<1>2. g.nodes[c][i] \in ENodeSet(g)
  BY DEF Typed
<1>3. LET en == g.nodes[c][i] IN
      /\ en.bufs # <<>> => Len(en.bufs) = 1 + Len(en.kids)
      /\ en.bufs # <<>> /\ en.bufs[1] # ANY => en.bufs \in Seq(Buffers)
  BY DEF Typed
<1> QED
  BY <1>1, <1>2, <1>3 DEF ENodeSet

\* An e-node is a pair of a class and a place in it.
LEMMA ENodePairs ==
  ASSUME NEW g, Typed(g), NEW n \in ENodes(g)
  PROVE  /\ n = <<n[1], n[2]>>
         /\ n[1] \in Classes(g) /\ n[2] \in DOMAIN g.nodes[n[1]]
         /\ At(g, n).kids \in Seq(Classes(g))
         /\ KidSet(At(g, n)) \subseteq Classes(g)
<1>1. PICK c \in Classes(g) : \E i \in DOMAIN g.nodes[c] : n = <<c, i>>
  BY DEF ENodes
<1>2. At(g, n).kids \in Seq(Classes(g))
  BY <1>1, ENodeFacts
<1>3. KidSet(At(g, n)) \subseteq Classes(g)
  BY <1>2 DEF KidSet
<1> QED
  BY <1>1, <1>2, <1>3

\* The buffer from which an accepted e-node reads is one.
LEMMA ReadsFromBuffer ==
  ASSUME NEW g, Typed(g), NEW c \in Classes(g), NEW i \in DOMAIN g.nodes[c],
         NEW b \in Buffers, At(g, <<c, i>>).bufs # <<>>,
         NEW k \in 1 .. Len(At(g, <<c, i>>).kids)
  PROVE  ReadsFrom(At(g, <<c, i>>), k, b) \in Buffers
<1> DEFINE en == At(g, <<c, i>>)
<1>1. /\ en.kids \in Seq(Classes(g)) /\ Len(en.bufs) = 1 + Len(en.kids)
      /\ en.bufs[1] # ANY => en.bufs \in Seq(Buffers)
  BY ENodeFacts
<1>2. 1 + k \in 1 .. 1 + Len(en.kids)
  BY <1>1
<1>3. CASE en.bufs[1] # ANY
  BY <1>1, <1>2, <1>3 DEF ReadsFrom
<1>4. CASE en.bufs[1] = ANY
  BY <1>4 DEF ReadsFrom
<1> QED
  BY <1>3, <1>4

-----------------------------------------------------------------------------
(* Available.                                                              *)

Pairs(g) == Classes(g) \X Buffers

\* An e-node of from delivers w from operands in X.
Delivers(g, from, w, X) ==
  \E n \in from :
    LET en == At(g, n) IN
    /\ n[1] = w[1] /\ Supports(en, w[2])
    /\ \A j \in DOMAIN en.kids : <<en.kids[j], ReadsFrom(en, j, w[2])>> \in X

\* One round of Available.
Deliver(g, from) ==
  [H \in SUBSET Pairs(g) |-> H \cup {w \in Pairs(g) : Delivers(g, from, w, H)}]

AvailClosed(g, from, X) == \A w \in Pairs(g) : Delivers(g, from, w, X) => w \in X

LEMMA DeliversMore ==
  ASSUME NEW g, NEW from, NEW more, from \subseteq more, NEW w, NEW X, NEW Y, X \subseteq Y,
         Delivers(g, from, w, X)
  PROVE  Delivers(g, more, w, Y)
BY DEF Delivers

LEMMA AvailableInRounds ==
  ASSUME NEW g, IsFiniteSet(Classes(g)), NEW from
  PROVE  \E r \in [0 .. Cardinality(Pairs(g)) -> SUBSET Pairs(g)] :
           /\ IsRounds(r, Cardinality(Pairs(g)), {}, Deliver(g, from))
           /\ Available(g, from) = r[Cardinality(Pairs(g))]
<1> DEFINE N == Cardinality(Pairs(g))
           P == Pairs(g)
           Body(r) == [k \in 0 .. N |->
                         IF k = 0 THEN {}
                         ELSE LET have == r[k - 1] IN
                              have \cup {w \in P : \E n \in from :
                                 LET en == At(g, n) IN
                                 /\ n[1] = w[1] /\ Supports(en, w[2])
                                 /\ \A j \in DOMAIN en.kids :
                                      <<en.kids[j], ReadsFrom(en, j, w[2])>> \in have}]
           r == CHOOSE r : r = Body(r)
<1>1. N \in Nat
  BY FS_CardinalityType, FS_Product, FiniteBuffers DEF Pairs
<1>2. Deliver(g, from) \in [SUBSET P -> SUBSET P]
  BY DEF Deliver
<1>3. Available(g, from) = r[N]
  BY DEF Available, Pairs
<1>4. ASSUME NEW H \in SUBSET P
      PROVE  Deliver(g, from)[H] =
               H \cup {w \in P : \E n \in from :
                         LET en == At(g, n) IN
                         /\ n[1] = w[1] /\ Supports(en, w[2])
                         /\ \A j \in DOMAIN en.kids :
                              <<en.kids[j], ReadsFrom(en, j, w[2])>> \in H}
  BY DEF Deliver, Delivers
<1> HIDE DEF N, P
<1>5. \A k \in 0 .. N : k # 0 => k - 1 \in 0 .. N
  BY <1>1
<1>6. \E q : q = Body(q)
  <2>1. PICK q \in [0 .. N -> SUBSET P] : IsRounds(q, N, {}, Deliver(g, from))
    BY <1>1, <1>2, RoundsExist
  <2>2. \A k \in 0 .. N : k # 0 => q[k - 1] \in SUBSET P
    BY <1>5
  <2>3. q = [k \in 0 .. N |-> IF k = 0 THEN {} ELSE Deliver(g, from)[q[k - 1]]]
    BY <2>1 DEF IsRounds
  <2>4. \A k \in 0 .. N : (IF k = 0 THEN {} ELSE Deliver(g, from)[q[k - 1]]) = Body(q)[k]
    BY <1>4, <2>2
  <2>5. q = Body(q)
    BY <2>3, <2>4
  <2> QED
    BY <2>5
<1>7. r = Body(r)
  <2> HIDE DEF Body
  <2> QED
    BY <1>6
<1> HIDE DEF r
<1>8. ASSUME NEW k \in 0 .. N
      PROVE  r[k] = IF k = 0 THEN {}
                    ELSE LET have == r[k - 1] IN
                         have \cup {w \in P : \E n \in from :
                            LET en == At(g, n) IN
                            /\ n[1] = w[1] /\ Supports(en, w[2])
                            /\ \A j \in DOMAIN en.kids :
                                 <<en.kids[j], ReadsFrom(en, j, w[2])>> \in have}
  BY <1>7
<1>9. r = [k \in 0 .. N |-> r[k]]
  BY <1>7
<1>10. r[0] = {}
  <2>1. 0 \in 0 .. N
    BY <1>1
  <2> QED
    BY <1>8, <2>1
<1>11. \A k \in 1 .. N : r[k - 1] \in SUBSET P => r[k] = Deliver(g, from)[r[k - 1]]
  <2>1. \A k \in 1 .. N : k \in 0 .. N /\ k # 0
    BY <1>1
  <2> QED
    BY <1>4, <1>8, <2>1
<1>12. r \in [0 .. N -> SUBSET P] /\ IsRounds(r, N, {}, Deliver(g, from))
  BY <1>1, <1>2, <1>9, <1>10, <1>11, RoundsAreTyped
<1> QED
  BY <1>3, <1>12 DEF N, P

\* Available is the least set of pairs that its rule does not leave.
LEMMA AvailableIsLeast ==
  ASSUME NEW g, IsFiniteSet(Classes(g)), NEW from
  PROVE  /\ Available(g, from) \subseteq Pairs(g)
         /\ AvailClosed(g, from, Available(g, from))
         /\ \A X : AvailClosed(g, from, X) => Available(g, from) \subseteq X
<1> DEFINE N == Cardinality(Pairs(g))
           P == Pairs(g)
<1>1. PICK r \in [0 .. N -> SUBSET P] :
        IsRounds(r, N, {}, Deliver(g, from)) /\ Available(g, from) = r[N]
  BY AvailableInRounds
<1>2. IsFiniteSet(P) /\ N \in Nat /\ N \in 0 .. N
  BY FS_CardinalityType, FS_Product, FiniteBuffers DEF Pairs
<1>3. /\ Deliver(g, from) \in [SUBSET P -> SUBSET P]
      /\ \A H \in SUBSET P : H \subseteq Deliver(g, from)[H]
  BY DEF Deliver
<1>4. r[N] \in SUBSET P /\ Deliver(g, from)[r[N]] = r[N]
  BY <1>1, <1>2, <1>3, RoundsReachFixedPoint
<1>5. AvailClosed(g, from, r[N])
  BY <1>4 DEF Deliver, AvailClosed
<1>6. ASSUME NEW X, AvailClosed(g, from, X) PROVE r[N] \subseteq X
  <2>1. ASSUME NEW H \in SUBSET P, H \subseteq X PROVE Deliver(g, from)[H] \subseteq X
    <3>1. \A w \in P : Delivers(g, from, w, H) => Delivers(g, from, w, X)
      BY <2>1, DeliversMore
    <3> QED
      BY <1>6, <2>1, <3>1 DEF Deliver, AvailClosed
  <2>2. Stays(Deliver(g, from), P, X)
    BY <2>1 DEF Stays
  <2> QED
    BY <1>1, <1>2, <1>3, <2>2, RoundsAreLeast
<1> QED
  BY <1>1, <1>4, <1>5, <1>6

\* What is available is delivered by one of the e-nodes.
LEMMA AvailableIsDelivered ==
  ASSUME NEW g, IsFiniteSet(Classes(g)), NEW from, NEW w \in Available(g, from)
  PROVE  Delivers(g, from, w, Available(g, from))
<1> DEFINE A == Available(g, from)
           X == {v \in A : Delivers(g, from, v, A)}
<1>1. A \subseteq Pairs(g) /\ AvailClosed(g, from, A)
  BY AvailableIsLeast
<1> HIDE DEF A
<1>2. AvailClosed(g, from, X)
  <2>1. \A v \in Pairs(g) : Delivers(g, from, v, X) => Delivers(g, from, v, A)
    BY DeliversMore
  <2> QED
    BY <1>1, <2>1 DEF AvailClosed
<1>3. A \subseteq X
  BY <1>2, AvailableIsLeast DEF A
<1> QED
  BY <1>3 DEF A

\* More e-nodes make more available.
LEMMA AvailableIsMonotone ==
  ASSUME NEW g, IsFiniteSet(Classes(g)), NEW from, NEW more, from \subseteq more
  PROVE  Available(g, from) \subseteq Available(g, more)
<1> DEFINE A == Available(g, more)
<1>1. AvailClosed(g, more, A)
  BY AvailableIsLeast
<1>2. \A w \in Pairs(g) : Delivers(g, from, w, A) => Delivers(g, more, w, A)
  BY DeliversMore
<1>3. AvailClosed(g, from, A)
  BY <1>1, <1>2 DEF AvailClosed
<1> QED
  BY <1>3, AvailableIsLeast

-----------------------------------------------------------------------------
(* The stack as a sequence.                                                *)

LEMMA Popped ==
  ASSUME NEW S, NEW s \in Seq(S), s # <<>>
  PROVE  LET r == SubSeq(s, 1, Len(s) - 1) IN
         /\ r \in Seq(S) /\ Len(r) = Len(s) - 1 /\ Len(s) \in Nat \ {0}
         /\ \A d \in 1 .. Len(s) - 1 : r[d] = s[d]
<1> DEFINE r == SubSeq(s, 1, Len(s) - 1)
<1>1. Len(s) \in Nat \ {0}
  BY EmptySeq
<1>2. \A i \in 1 .. Len(s) - 1 : s[i] \in S
  BY <1>1
<1>3. /\ r \in Seq(S)
      /\ Len(r) = IF 1 <= Len(s) - 1 THEN (Len(s) - 1) - 1 + 1 ELSE 0
      /\ \A i \in 1 .. (Len(s) - 1) - 1 + 1 : r[i] = s[1 + i - 1]
  BY <1>1, <1>2, SubSeqProperties
<1> HIDE DEF r
<1>4. /\ r \in Seq(S) /\ Len(r) = Len(s) - 1 /\ Len(s) \in Nat \ {0}
      /\ \A d \in 1 .. Len(s) - 1 : r[d] = s[d]
  <2>1. PICK m \in Nat : Len(s) = m + 1
    <3>1. \A n \in Nat \ {0} : \E m \in Nat : n = m + 1
      <4>1. ASSUME NEW n \in Nat \ {0} PROVE n - 1 \in Nat /\ n = (n - 1) + 1
        OBVIOUS
      <4> QED
        BY <4>1
    <3> QED
      BY <1>1, <3>1
  <2>2. Len(s) - 1 = m /\ (Len(s) - 1) - 1 + 1 = m
    BY <2>1
  <2>3. Len(r) = m
    BY <1>3, <2>2
  <2>4. ASSUME NEW d \in 1 .. m PROVE r[d] = s[d]
    <3>1. 1 + d - 1 = d
      OBVIOUS
    <3> QED
      BY <1>3, <2>2, <3>1
  <2> QED
    BY <1>1, <1>3, <2>2, <2>3, <2>4
<1> QED
  BY <1>4 DEF r

LEMMA Replaced ==
  ASSUME NEW S, NEW s \in Seq(S), s # <<>>, NEW x \in S
  PROVE  LET r == Append(SubSeq(s, 1, Len(s) - 1), x) IN
         /\ r \in Seq(S) /\ Len(r) = Len(s) /\ Len(s) \in Nat \ {0}
         /\ \A d \in 1 .. Len(s) - 1 : r[d] = s[d]
         /\ r[Len(s)] = x
<1> DEFINE q == SubSeq(s, 1, Len(s) - 1)
<1>1. /\ q \in Seq(S) /\ Len(q) = Len(s) - 1 /\ Len(s) \in Nat \ {0}
      /\ \A d \in 1 .. Len(s) - 1 : q[d] = s[d]
  BY Popped
<1> HIDE DEF q
<1>2. /\ Append(q, x) \in Seq(S) /\ Len(Append(q, x)) = Len(q) + 1
      /\ \A d \in 1 .. Len(q) : Append(q, x)[d] = q[d]
      /\ Append(q, x)[Len(q) + 1] = x
  BY <1>1, AppendProperties
<1>3. /\ Append(q, x) \in Seq(S) /\ Len(Append(q, x)) = Len(s) /\ Len(s) \in Nat \ {0}
      /\ \A d \in 1 .. Len(s) - 1 : Append(q, x)[d] = s[d]
      /\ Append(q, x)[Len(s)] = x
  BY <1>1, <1>2
<1> QED
  BY <1>3 DEF q

-----------------------------------------------------------------------------
(* Selections.                                                             *)

\* What is had is had through an e-node of its class.
LEMMA HasHasNode ==
  ASSUME NEW g, Typed(g), NEW sel, NEW w, Has(g, sel, w)
  PROVE  HasNode(sel, w[1])
<1>1. Delivers(g, Elements(sel), w, Available(g, Elements(sel)))
  BY AvailableIsDelivered DEF Typed, Has
<1> QED
  BY <1>1 DEF Delivers, HasNode, Elements

\* An e-node whose operands have been found may be inserted, and delivers
\* its class then.
LEMMA Inserted ==
  ASSUME Typed(graph), selected \in Seq(ENodes(graph)), Sound(graph, selected),
         NEW n \in ENodes(graph), NEW b \in Buffers, Supports(At(graph, n), b),
         \A k \in DOMAIN At(graph, n).kids :
           Has(graph, selected, <<At(graph, n).kids[k], ReadsFrom(At(graph, n), k, b)>>)
  PROVE  /\ Insert(n) \in Seq(ENodes(graph))
         /\ Sound(graph, Insert(n))
         /\ \A w : Has(graph, selected, w) => Has(graph, Insert(n), w)
         /\ Has(graph, Insert(n), <<n[1], b>>)
<1> DEFINE new == Insert(n)
           en  == At(graph, n)
<1>1. IsFiniteSet(Classes(graph)) /\ n[1] \in Classes(graph)
  BY ENodePairs DEF Typed
<1>2. PICK m \in Nat : Len(selected) = m /\ DOMAIN selected = 1 .. m
  BY LenProperties
<1>3. /\ new \in Seq(ENodes(graph)) /\ n \in Elements(new)
      /\ Elements(selected) \subseteq Elements(new)
  <2>1. CASE n \in SelectedSet
    BY <2>1 DEF Insert, SelectedSet, Elements
  <2>2. CASE n \notin SelectedSet
    <3>1. new = Append(selected, n)
      BY <2>2 DEF Insert
    <3>2. /\ new \in Seq(ENodes(graph)) /\ DOMAIN new = 1 .. m + 1
          /\ \A i \in 1 .. m : new[i] = selected[i] /\ i \in 1 .. m + 1
          /\ new[m + 1] = n /\ m + 1 \in 1 .. m + 1
      BY <1>2, <3>1, AppendProperties, LenProperties
    <3> HIDE DEF new
    <3> QED
      BY <1>2, <3>2 DEF Elements
  <2> QED
    BY <2>1, <2>2
<1> HIDE DEF new
<1>4. \A w : Has(graph, selected, w) => Has(graph, new, w)
  BY <1>1, <1>3, AvailableIsMonotone DEF Has
<1>5. Has(graph, new, <<n[1], b>>)
  <2> DEFINE w == <<n[1], b>>
             A == Available(graph, Elements(new))
  <2>1. w \in Pairs(graph) /\ w[1] = n[1] /\ w[2] = b
    BY <1>1 DEF Pairs
  <2>2. \A k \in DOMAIN en.kids : <<en.kids[k], ReadsFrom(en, k, b)>> \in A
    BY <1>4 DEF Has
  <2>3. AvailClosed(graph, Elements(new), A)
    BY <1>1, AvailableIsLeast
  <2> HIDE DEF A, w
  <2>4. Delivers(graph, Elements(new), w, A)
    BY <1>3, <2>1, <2>2 DEF Delivers
  <2>5. w \in A
    BY <2>1, <2>3, <2>4 DEF AvailClosed
  <2> QED
    BY <2>5 DEF w, A, Has
<1>6. Sound(graph, new)
  <2>1. CASE n \in SelectedSet
    BY <2>1 DEF new, Insert
  <2>2. CASE n \notin SelectedSet
    <3>1. new = Append(selected, n)
      BY <2>2 DEF Insert, new
    <3>2. /\ DOMAIN new = 1 .. m + 1
          /\ \A i \in 1 .. m : new[i] = selected[i]
          /\ new[m + 1] = n
      BY <1>2, <3>1, AppendProperties, LenProperties
    <3>3. \A i \in 1 .. m + 1 : i \in 1 .. m \/ i = m + 1
      OBVIOUS
    <3>4. \A i, j \in DOMAIN new : new[i] = new[j] => i = j
      <4>1. \A i \in 1 .. m : selected[i] # n
        BY <1>2, <2>2 DEF SelectedSet
      <4>2. \A i, j \in 1 .. m : selected[i] = selected[j] => i = j
        BY <1>2 DEF Sound
      <4> QED
        BY <3>2, <3>3, <4>1, <4>2
    <3>5. ASSUME NEW j \in DOMAIN new, NEW c \in KidSet(At(graph, new[j]))
          PROVE  \E i \in 1 .. j - 1 : new[i][1] = c
      <4>1. CASE j \in 1 .. m
        <5>1. PICK i \in 1 .. j - 1 : selected[i][1] = c
          BY <1>2, <3>2, <3>5, <4>1 DEF Sound
        <5> QED
          BY <1>2, <3>2, <4>1, <5>1
      <4>2. CASE j = m + 1
        <5>1. PICK k \in DOMAIN en.kids : c = en.kids[k]
          BY <3>2, <3>5, <4>2 DEF KidSet
        <5> DEFINE w == <<en.kids[k], ReadsFrom(en, k, b)>>
        <5>2. HasNode(selected, c)
          <6>1. Has(graph, selected, w) /\ w[1] = c
            BY <5>1
          <6> HIDE DEF w
          <6> QED
            BY <6>1, HasHasNode
        <5>3. PICK i \in DOMAIN selected : selected[i][1] = c
          BY <5>2 DEF HasNode
        <5> QED
          BY <1>2, <3>2, <4>2, <5>3
      <4> QED
        BY <3>2, <3>3, <4>1, <4>2
    <3>6. ASSUME NEW j \in DOMAIN new
          PROVE  LET e == At(graph, new[j]) IN
                 e.bufs # <<>> /\ (e.bufs[1] # ANY => Has(graph, new, <<new[j][1], e.bufs[1]>>))
      <4>1. CASE j \in 1 .. m
        <5>1. selected[j] = new[j] /\ j \in DOMAIN selected
          BY <1>2, <3>2, <4>1
        <5> QED
          BY <1>4, <5>1 DEF Sound
      <4>2. CASE j = m + 1
        <5>1. en.bufs # <<>> /\ (en.bufs[1] # ANY => en.bufs[1] = b)
          BY DEF Supports
        <5> QED
          BY <1>5, <3>2, <4>2, <5>1, SMTT(30)
      <4> QED
        BY <3>2, <3>3, <4>1, <4>2
    <3> QED
      BY <3>4, <3>5, <3>6 DEF Sound
  <2> QED
    BY <2>1, <2>2
<1> QED
  BY <1>3, <1>4, <1>5, <1>6 DEF new

-----------------------------------------------------------------------------
(* Steps of the search, by what they do to the stack.                      *)

\* What a call asks for depends on the calls up to it.
LEMMA AskedBelow ==
  ASSUME NEW g, NEW s, NEW r, NEW n \in Nat, \A d \in 1 .. n : r[d] = s[d],
         NEW d \in 0 .. n
  PROVE  Asked(g, r, d) = Asked(g, s, d)
<1>1. d # 0 => d \in 1 .. n
  OBVIOUS
<1> QED
  BY <1>1 DEF Asked

\* A call returns, having perhaps selected more.
LEMMA Returns ==
  ASSUME NEW g, NEW s \in Seq(Frames(g)), s # <<>>, NEW sel, NEW next,
         Calls(g, s, next), Selections(g, s, next, sel),
         NEW new, Sound(g, new), \A w : Has(g, sel, w) => Has(g, new, w),
         NEW answer \in {"yes", "no"},
         answer = "yes" => Has(g, new, <<s[Len(s)].class, s[Len(s)].target>>)
  PROVE  LET r == SubSeq(s, 1, Len(s) - 1) IN
         Calls(g, r, answer) /\ Selections(g, r, answer, new)
<1> DEFINE r == SubSeq(s, 1, Len(s) - 1)
<1>1. /\ r \in Seq(Frames(g)) /\ Len(r) = Len(s) - 1 /\ Len(s) \in Nat \ {0}
      /\ \A d \in 1 .. Len(s) - 1 : r[d] = s[d]
  BY Popped
<1> HIDE DEF r
<1>2. PICK n \in Nat : Len(s) = n + 1
  <2>1. Len(s) - 1 \in Nat /\ Len(s) = (Len(s) - 1) + 1
    BY <1>1
  <2> QED
    BY <2>1
<1>3. /\ Len(r) = n /\ Len(s) - 1 = n
      /\ \A d \in 1 .. n : r[d] = s[d]
  BY <1>1, <1>2
<1>4. r # <<>> => n \in 1 .. n
  BY <1>1, <1>3
<1>5. /\ \A d \in 1 .. n + 1 : FrameOK(g, s[d])
      /\ \A d \in 1 .. n : Waiting(g, s[d])
      /\ \A d \in 1 .. n + 1 : <<s[d].class, s[d].target>> = Asked(g, s, d - 1)
  BY <1>2, <1>3 DEF Calls
<1>6. \A d \in 0 .. n : Asked(g, r, d) = Asked(g, s, d)
  BY <1>3, AskedBelow
<1>7. Calls(g, r, answer)
  <2>1. \A d \in 1 .. n : FrameOK(g, r[d]) /\ Waiting(g, r[d])
    BY <1>3, <1>5
  <2>2. ASSUME NEW d \in 1 .. n
        PROVE  <<r[d].class, r[d].target>> = Asked(g, r, d - 1)
    <3>1. d \in 1 .. n + 1 /\ d - 1 \in 0 .. n
      OBVIOUS
    <3> QED
      BY <1>3, <1>5, <1>6, <3>1
  <2>3. \A d \in 1 .. n - 1 : d \in 1 .. n
    OBVIOUS
  <2> QED
    BY <1>3, <1>4, <2>1, <2>2, <2>3 DEF Calls
<1>8. /\ \A d \in 1 .. n + 1 : Sound(g, s[d].snapshot)
      /\ \A d \in 1 .. n + 1 : FoundIn(g, s[d], sel)
      /\ \A d \in 1 .. n + 1 : \A e \in d + 1 .. n + 1 :
           FoundIn(g, s[d], s[e].snapshot)
  BY <1>2 DEF Selections
<1>9. Selections(g, r, answer, new)
  <2>1. \A d \in 1 .. n : Sound(g, r[d].snapshot)
    BY <1>3, <1>8
  <2>2. ASSUME NEW d \in 1 .. n PROVE FoundIn(g, r[d], new)
    <3>1. FoundIn(g, r[d], sel)
      BY <1>3, <1>8
    <3> QED
      BY <3>1 DEF FoundIn
  <2>3. ASSUME NEW d \in 1 .. n, NEW e \in d + 1 .. n
        PROVE  FoundIn(g, r[d], r[e].snapshot)
    <3>1. d \in 1 .. n + 1 /\ e \in d + 1 .. n + 1 /\ e \in 1 .. n
      OBVIOUS
    <3> QED
      BY <1>3, <1>8, <3>1
  <2>4. ASSUME answer = "yes" PROVE Has(g, new, Asked(g, r, n))
    <3>1. n + 1 \in 1 .. n + 1 /\ (n + 1) - 1 = n /\ n \in 0 .. n
      OBVIOUS
    <3>2. Asked(g, r, n) = <<s[n + 1].class, s[n + 1].target>>
      BY <1>5, <1>6, <3>1
    <3> QED
      BY <1>2, <2>4, <3>2
  <2> QED
    BY <1>3, <2>1, <2>2, <2>3, <2>4 DEF Selections
<1> QED
  BY <1>7, <1>9 DEF r

\* The call on top goes on with an operand or with another e-node, perhaps
\* with what was selected when it came to this one.
LEMMA GoesOn ==
  ASSUME NEW g, NEW s \in Seq(Frames(g)), s # <<>>, NEW sel, NEW next,
         Calls(g, s, next), Selections(g, s, next, sel),
         NEW new, Sound(g, new),
         \A d \in 1 .. Len(s) - 1 : FoundIn(g, s[d], new),
         NEW f \in Frames(g), f.class = s[Len(s)].class, f.target = s[Len(s)].target,
         FrameOK(g, f), Sound(g, f.snapshot), FoundIn(g, f, new),
         \A d \in 1 .. Len(s) - 1 : FoundIn(g, s[d], f.snapshot),
         NEW then, \/ then = "try" /\ f.kid = 0
                   \/ then = "kids" /\ f.kid > 0
  PROVE  LET r == Append(SubSeq(s, 1, Len(s) - 1), f) IN
         Calls(g, r, then) /\ Selections(g, r, then, new)
<1> DEFINE r == Append(SubSeq(s, 1, Len(s) - 1), f)
<1>1. /\ r \in Seq(Frames(g)) /\ Len(r) = Len(s) /\ Len(s) \in Nat \ {0}
      /\ \A d \in 1 .. Len(s) - 1 : r[d] = s[d]
      /\ r[Len(s)] = f
  BY Replaced
<1> HIDE DEF r
<1>2. PICK n \in Nat : Len(s) = n + 1
  <2>1. Len(s) - 1 \in Nat /\ Len(s) = (Len(s) - 1) + 1
    BY <1>1
  <2> QED
    BY <2>1
<1>3. /\ Len(r) = n + 1 /\ Len(s) - 1 = n /\ Len(r) - 1 = n
      /\ \A d \in 1 .. n : r[d] = s[d]
      /\ r[n + 1] = f
  BY <1>1, <1>2
<1>4. \A d \in 1 .. n + 1 : d \in 1 .. n \/ d = n + 1
  OBVIOUS
<1>5. Calls(g, r, then)
  <2>1. /\ \A d \in 1 .. n + 1 : FrameOK(g, s[d])
        /\ \A d \in 1 .. n : Waiting(g, s[d])
        /\ \A d \in 1 .. n + 1 : <<s[d].class, s[d].target>> = Asked(g, s, d - 1)
    BY <1>2, <1>3 DEF Calls
  <2>2. /\ \A d \in 1 .. n + 1 : FrameOK(g, r[d])
        /\ \A d \in 1 .. n : Waiting(g, r[d])
    BY <1>3, <1>4, <2>1
  <2>3. \A d \in 0 .. n : Asked(g, r, d) = Asked(g, s, d)
    BY <1>3, AskedBelow
  <2>4. ASSUME NEW d \in 1 .. n + 1
        PROVE  <<r[d].class, r[d].target>> = Asked(g, r, d - 1)
    <3>1. d - 1 \in 0 .. n
      OBVIOUS
    <3>2. r[d].class = s[d].class /\ r[d].target = s[d].target
      BY <1>2, <1>3, <1>4
    <3> QED
      BY <2>1, <2>3, <3>1, <3>2
  <2> QED
    BY <1>3, <2>2, <2>4 DEF Calls
<1>6. Selections(g, r, then, new)
  <2>1. /\ \A d \in 1 .. n + 1 : Sound(g, s[d].snapshot)
        /\ \A d \in 1 .. n + 1 : \A e \in d + 1 .. n + 1 :
             FoundIn(g, s[d], s[e].snapshot)
    BY <1>2 DEF Selections
  <2>2. \A d \in 1 .. n + 1 : Sound(g, r[d].snapshot) /\ FoundIn(g, r[d], new)
    BY <1>3, <1>4, <2>1
  <2>3. ASSUME NEW d \in 1 .. n + 1, NEW e \in d + 1 .. n + 1
        PROVE  FoundIn(g, r[d], r[e].snapshot)
    <3>1. d \in 1 .. n /\ (e \in 1 .. n \/ e = n + 1)
      OBVIOUS
    <3> QED
      BY <1>3, <2>1, <3>1
  <2> QED
    BY <1>3, <2>2, <2>3 DEF Selections
<1> QED
  BY <1>5, <1>6 DEF r

\* The call on top makes a call for its operand.
LEMMA Descends ==
  ASSUME NEW g, NEW s \in Seq(Frames(g)), s # <<>>, NEW sel, NEW next,
         Calls(g, s, next), Selections(g, s, next, sel),
         Waiting(g, s[Len(s)]),
         NEW f \in Frames(g), f.node = 1, f.kid = 0, f.snapshot = sel,
         <<f.class, f.target>> = Asked(g, s, Len(s))
  PROVE  Calls(g, Append(s, f), "call") /\ Selections(g, Append(s, f), "call", sel)
<1> DEFINE r == Append(s, f)
<1>1. PICK n \in Nat : Len(s) = n /\ n \in 1 .. n
  BY EmptySeq
<1>2. /\ r \in Seq(Frames(g)) /\ Len(r) = n + 1 /\ Len(r) - 1 = n
      /\ \A d \in 1 .. n : r[d] = s[d]
      /\ r[n + 1] = f
  BY <1>1, AppendProperties
<1> HIDE DEF r
<1>3. \A d \in 1 .. n + 1 : d \in 1 .. n \/ d = n + 1
  OBVIOUS
<1>4. Calls(g, r, "call")
  <2>1. FrameOK(g, f)
    BY DEF FrameOK
  <2>2. \A d \in 1 .. n + 1 : FrameOK(g, r[d])
    BY <1>1, <1>2, <1>3, <2>1 DEF Calls
  <2>3. ASSUME NEW d \in 1 .. n PROVE Waiting(g, r[d])
    <3>1. d = n \/ d \in 1 .. n - 1
      OBVIOUS
    <3> QED
      BY <1>1, <1>2, <3>1 DEF Calls
  <2>4. \A d \in 0 .. n : Asked(g, r, d) = Asked(g, s, d)
    BY <1>2, AskedBelow, ZenonT(40)
  <2>5. ASSUME NEW d \in 1 .. n + 1
        PROVE  <<r[d].class, r[d].target>> = Asked(g, r, d - 1)
    <3>1. CASE d = n + 1
      <4>1. d - 1 = n /\ n \in 0 .. n
        BY <3>1
      <4> QED
        BY <1>1, <1>2, <2>4, <3>1, <4>1
    <3>2. CASE d \in 1 .. n
      <4>1. d - 1 \in 0 .. n
        BY <3>2
      <4>2. <<s[d].class, s[d].target>> = Asked(g, s, d - 1)
        BY <1>1, <3>2 DEF Calls
      <4> QED
        BY <1>2, <2>4, <3>2, <4>1, <4>2
    <3> QED
      BY <1>3, <3>1, <3>2
  <2> QED
    BY <1>2, <2>2, <2>3, <2>5 DEF Calls
<1>5. Selections(g, r, "call", sel)
  <2>1. FoundIn(g, f, sel)
    BY DEF FoundIn
  <2>2. /\ Sound(g, sel)
        /\ \A d \in 1 .. n : Sound(g, s[d].snapshot) /\ FoundIn(g, s[d], sel)
        /\ \A d \in 1 .. n : \A e \in d + 1 .. n : FoundIn(g, s[d], s[e].snapshot)
    BY <1>1 DEF Selections
  <2>3. \A d \in 1 .. n + 1 : Sound(g, r[d].snapshot) /\ FoundIn(g, r[d], sel)
    BY <1>2, <1>3, <2>1, <2>2
  <2>4. ASSUME NEW d \in 1 .. n + 1, NEW e \in d + 1 .. n + 1
        PROVE  FoundIn(g, r[d], r[e].snapshot)
    <3>1. d \in 1 .. n /\ (e \in (d + 1 .. n) \cap (1 .. n) \/ e = n + 1)
      OBVIOUS
    <3> QED
      BY <1>2, <2>2, <3>1
  <2> QED
    BY <1>2, <2>2, <2>3, <2>4 DEF Selections
<1> QED
  BY <1>4, <1>5 DEF r

-----------------------------------------------------------------------------
(* The steps before the search.                                            *)

LEMMA InitInvariant == Init => IInv
<1> SUFFICES ASSUME Init PROVE IInv
  OBVIOUS
<1>1. Typed(graph)
  BY ValidIsTyped DEF Init
<1>2. TypeOK
  BY DEF Init, TypeOK, Phases, Controls
<1>3. Idle /\ SearchOK
  BY DEF Init, Idle, SearchOK, Calls, Selections, Sound
<1>4. MapOK /\ LinesInOrder /\ NeverStuck
  BY DEF Init, MapOK, LinesInOrder, NeverStuck
<1> QED
  BY <1>1, <1>2, <1>3, <1>4 DEF IInv

LEMMA DetectionInvariant ==
  ASSUME IInv, (\E c \in work : Detect(c)) \/ DetectEnds
  PROVE  IInv'
<1>1. /\ graph' = graph /\ control' = control /\ stack' = stack /\ path' = path
      /\ selected' = selected /\ pii' = pii /\ eclass_map' = eclass_map
      /\ phase = "detect" /\ phase' \in {"detect", "annotate"}
  BY DEF Detect, DetectEnds, search, output
<1>2. work' \subseteq Classes(graph) /\ constants' \subseteq Classes(graph)
  <2>1. CASE DetectEnds
    BY <2>1 DEF DetectEnds, detection, IInv, TypeOK
  <2>2. ASSUME NEW c \in work, Detect(c)
        PROVE  work' \subseteq Classes(graph) /\ constants' \subseteq Classes(graph)
    <3>1. Parents(graph, c) \subseteq Classes(graph)
      BY DEF Parents
    <3> QED
      BY <2>2, <3>1 DEF Detect, IInv, TypeOK
  <2> QED
    BY <2>1, <2>2
<1>3. Typed(graph)' /\ SearchOK' /\ LinesInOrder'
  BY <1>1 DEF IInv, Typed, SearchOK, LinesInOrder
<1>4. TypeOK'
  BY <1>1, <1>2 DEF IInv, TypeOK, Phases
<1>5. Idle' /\ MapOK' /\ NeverStuck'
  BY <1>1 DEF IInv, Idle, MapOK, NeverStuck
<1> QED
  BY <1>3, <1>4, <1>5 DEF IInv

\* The detected constants of a typed e-graph leave it typed.
LEMMA AnnotatedIsTyped ==
  ASSUME NEW g, Typed(g), NEW consts
  PROVE  /\ Typed(Annotated(g, consts))
         /\ Classes(Annotated(g, consts)) = Classes(g)
<1> DEFINE h == Annotated(g, consts)
<1>1. /\ h.root = g.root /\ h.inputs = g.inputs
      /\ DOMAIN h.nodes = Classes(g)
      /\ \A c \in Classes(g) : h.nodes[c] = g.nodes[c] \/ h.nodes[c] = Append(g.nodes[c], DetectedConst)
  BY DEF Annotated
<1>2. Classes(h) = Classes(g)
  BY <1>1 DEF Classes
<1> HIDE DEF h
<1>3. ENodeSet(h) = ENodeSet(g)
  BY <1>2 DEF ENodeSet
<1>4. DetectedConst \in ENodeSet(g)
  <2>1. Value \in Names /\ "detected" \in Kinds
    <3>1. Value \in Names
      BY GraphAssumption
    <3>2. "detected" \in Kinds
      BY DEF Kinds
    <3> QED
      BY <3>1, <3>2
  <2>2. HBM \in Buffers \cup {ANY}
    BY DEF Buffers
  <2>3. <<HBM>> \in Seq(Buffers \cup {ANY}) /\ <<>> \in Seq(Classes(g))
    BY <2>2
  <2> QED
    BY <2>1, <2>3, Zenon DEF ENodeSet, DetectedConst, ENode
<1>5. ASSUME NEW c \in Classes(g)
      PROVE  /\ h.nodes[c] \in Seq(ENodeSet(g))
             /\ \A i \in DOMAIN h.nodes[c] :
                  \/ i \in DOMAIN g.nodes[c] /\ h.nodes[c][i] = g.nodes[c][i]
                  \/ h.nodes[c][i] = DetectedConst
  <2>1. g.nodes[c] \in Seq(ENodeSet(g))
    BY DEF Typed
  <2>2. CASE h.nodes[c] = g.nodes[c]
    BY <2>1, <2>2
  <2>3. CASE h.nodes[c] = Append(g.nodes[c], DetectedConst)
    BY <1>4, <2>1, <2>3, AppendProperties, LenProperties
  <2> QED
    BY <1>1, <2>2, <2>3
<1>6. ASSUME NEW c \in Classes(g), NEW i \in DOMAIN h.nodes[c]
      PROVE  LET en == h.nodes[c][i] IN
             /\ en.bufs # <<>> => Len(en.bufs) = 1 + Len(en.kids)
             /\ en.bufs # <<>> /\ en.bufs[1] # ANY => en.bufs \in Seq(Buffers)
             /\ en.bufs # <<>> /\ en.bufs[1] = ANY => en.kids # <<>>
             /\ en.kind = "detected" \/ c \in h.inputs => en.kids = <<>> /\ en.bufs = <<HBM>>
  <2>1. CASE h.nodes[c][i] = DetectedConst
    <3>1. DetectedConst.bufs = <<HBM>> /\ DetectedConst.kids = <<>>
      BY Zenon DEF DetectedConst, ENode
    <3>2. HBM \in Buffers
      BY DEF Buffers
    <3>3. <<HBM>> \in Seq(Buffers) /\ Len(<<HBM>>) = 1 + Len(<<>>) /\ <<HBM>>[1] = HBM
      BY <3>2
    <3> QED
      BY <2>1, <3>1, <3>3, HBMIsABuffer
  <2>2. CASE i \in DOMAIN g.nodes[c] /\ h.nodes[c][i] = g.nodes[c][i]
    BY <1>1, <2>2 DEF Typed
  <2> QED
    BY <1>5, <2>1, <2>2
<1>7. Typed(h)
  <2>1. IsFiniteSet(Classes(h)) /\ h.root \in Classes(h) /\ h.inputs \subseteq Classes(h)
    BY <1>1, <1>2 DEF Typed
  <2>2. \A c \in Classes(h) : h.nodes[c] \in Seq(ENodeSet(h))
    BY <1>2, <1>3, <1>5
  <2> QED
    BY <1>2, <1>6, <2>1, <2>2 DEF Typed
<1> QED
  BY <1>2, <1>7 DEF h

LEMMA AnnotateInvariant ==
  ASSUME IInv, Annotate
  PROVE  IInv'
<1> DEFINE first == [class |-> graph.root, target |-> HBM, node |-> 1, kid |-> 0,
                     snapshot |-> selected]
<1>1. /\ phase = "annotate" /\ work' = work /\ constants' = constants
      /\ control' = control /\ path' = path /\ selected' = selected
      /\ pii' = pii /\ eclass_map' = eclass_map
      /\ \/ graph' = Annotated(graph, constants) /\ phase' = "search" /\ stack' = <<first>>
         \/ phase' = "panic" /\ graph' = graph /\ stack' = stack
  BY DEF Annotate, detection, output
<1>2. stack = <<>> /\ selected = <<>> /\ path = {} /\ control = "call" /\ pii = <<>>
  BY <1>1 DEF IInv, Idle, MapOK
<1>3. Typed(graph') /\ Classes(graph') = Classes(graph)
  BY <1>1, AnnotatedIsTyped DEF IInv
<1>4. CASE stack' = stack
  <2>1. graph' = graph /\ phase' = "panic"
    BY <1>1, <1>2, <1>4
  <2> QED
    BY <1>1, <1>2, <2>1 DEF IInv, Typed, TypeOK, Idle, SearchOK, MapOK, LinesInOrder,
                            NeverStuck, Phases, Calls, Selections
<1>5. CASE stack' = <<first>> /\ graph' = Annotated(graph, constants) /\ phase' = "search"
  <2>1. first \in Frames(graph')
    <3>1. graph.root \in Classes(graph') /\ HBM \in Buffers
      BY <1>3 DEF IInv, Typed, Buffers
    <3>2. selected \in Seq(ENodes(graph'))
      BY <1>2
    <3> QED
      BY <3>1, <3>2 DEF Frames
  <2> HIDE DEF first
  <2>2. /\ <<first>> \in Seq(Frames(graph')) /\ Len(<<first>>) = 1
        /\ \A d \in 1 .. 1 : <<first>>[d] = first
    BY <2>1
  <2>3. TypeOK'
    BY <1>1, <1>2, <1>3, <1>5, <2>2 DEF IInv, TypeOK, Phases, Controls
  <2>4. first.node = 1 /\ first.kid = 0 /\ first.snapshot = <<>>
    BY <1>2 DEF first
  <2>5. FrameOK(graph', first) /\ FoundIn(graph', first, <<>>)
    BY <2>4 DEF FrameOK, FoundIn
  <2>6. Sound(graph', <<>>)
    BY DEF Sound
  <2>7. Calls(graph', <<first>>, "call")
    <3>1. <<first.class, first.target>> = Asked(graph', <<first>>, 0)
      <4>1. graph'.root = graph.root
        BY <1>5 DEF Annotated
      <4> QED
        BY <4>1 DEF first, Asked
    <3>2. \A d \in 1 .. 1 : d = 1 /\ d - 1 = 0
      OBVIOUS
    <3> QED
      BY <2>2, <2>4, <2>5, <3>1, <3>2 DEF Calls
  <2>8. Selections(graph', <<first>>, "call", <<>>)
    BY <2>2, <2>4, <2>5, <2>6 DEF Selections
  <2>9. SearchOK'
    BY <1>1, <1>2, <1>5, <2>7, <2>8 DEF SearchOK
  <2>10. Idle' /\ MapOK' /\ LinesInOrder' /\ NeverStuck'
    BY <1>1, <1>2, <1>3, <1>5 DEF IInv, Idle, MapOK, LinesInOrder, NeverStuck
  <2> QED
    BY <1>3, <2>3, <2>9, <2>10 DEF IInv
<1> QED
  BY <1>1, <1>4, <1>5

-----------------------------------------------------------------------------
(* The search.                                                             *)

\* What a step of the search leaves alone keeps its invariants.
LEMMA SearchLeavesTheRest ==
  ASSUME IInv, phase = "search", Search,
         path' \subseteq Classes(graph), control' \in Controls,
         selected' \in Seq(ENodes(graph)), stack' \in Seq(Frames(graph)),
         Calls(graph, stack', control'),
         Selections(graph, stack', control', selected')
  PROVE  IInv'
<1>1. /\ phase' = "search" /\ graph' = graph /\ work' = work /\ constants' = constants
      /\ pii' = pii /\ eclass_map' = eclass_map
  BY DEF Search, detection, output
<1>2. Typed(graph)' /\ SearchOK' /\ LinesInOrder'
  BY <1>1 DEF IInv, Typed, SearchOK, LinesInOrder
<1>3. TypeOK'
  BY <1>1 DEF IInv, TypeOK, Phases
<1>4. Idle' /\ MapOK' /\ NeverStuck'
  BY <1>1 DEF IInv, Idle, MapOK, NeverStuck
<1> QED
  BY <1>2, <1>3, <1>4 DEF IInv

\* The call on top of the stack.
LEMMA TopFacts ==
  ASSUME IInv, stack # <<>>
  PROVE  /\ Len(stack) \in Nat \ {0} /\ Len(stack) \in 1 .. Len(stack)
         /\ Top \in Frames(graph)
         /\ Top.class \in Classes(graph) /\ Top.target \in Buffers
         /\ Top.node \in Nat \ {0} /\ Top.kid \in Nat
         /\ Top.snapshot \in Seq(ENodes(graph))
         /\ graph.nodes[Top.class] \in Seq(ENodeSet(graph))
         /\ FrameOK(graph, Top)
         /\ Current = EN(graph, Top)
<1>1. stack \in Seq(Frames(graph))
  BY DEF IInv, TypeOK
<1>2. Len(stack) \in Nat \ {0} /\ Len(stack) \in 1 .. Len(stack)
  BY <1>1, EmptySeq
<1>3. Top \in Frames(graph)
  BY <1>1, <1>2 DEF Top
<1>4. FrameOK(graph, Top)
  BY <1>2 DEF IInv, SearchOK, Calls, Top
<1>5. /\ Top.class \in Classes(graph) /\ Top.target \in Buffers
      /\ Top.node \in Nat /\ Top.kid \in Nat
      /\ Top.snapshot \in Seq(ENodes(graph))
  BY <1>3 DEF Frames
<1>6. Top.node \in Nat \ {0}
  BY <1>4 DEF FrameOK
<1>7. graph.nodes[Top.class] \in Seq(ENodeSet(graph))
  BY <1>5 DEF IInv, Typed
<1>8. Current = EN(graph, Top)
  BY DEF Current, Place, EN
<1> QED
  BY <1>2, <1>3, <1>4, <1>5, <1>6, <1>7, <1>8

\* An e-node at which the loop is, is one of its class.
LEMMA CurrentFacts ==
  ASSUME IInv, stack # <<>>, ~AtEnd \/ Top.kid > 0
  PROVE  /\ Top.node \in DOMAIN graph.nodes[Top.class]
         /\ Place \in ENodes(graph)
         /\ Current.kids \in Seq(Classes(graph))
<1>1. Top.node \in DOMAIN graph.nodes[Top.class]
  <2>1. CASE ~AtEnd
    <3>1. Top.node <= Len(graph.nodes[Top.class])
      BY <2>1, TopFacts DEF AtEnd
    <3> QED
      BY <3>1, TopFacts
  <2>2. CASE Top.kid > 0
    BY <2>2, TopFacts DEF FrameOK
  <2> QED
    BY <2>1, <2>2
<1>2. Typed(graph) /\ Top.class \in Classes(graph)
  BY TopFacts DEF IInv
<1> QED
  BY <1>1, <1>2, ENodeFacts DEF Place, Current

LEMMA ReturnInvariant ==
  ASSUME IInv, Refuse \/ Reuse \/ Base \/ Complete \/ Exhausted
  PROVE  IInv'
<1>1. /\ phase = "search" /\ stack # <<>> /\ Search
      /\ stack' = SubSeq(stack, 1, Len(stack) - 1)
      /\ control' \in {"yes", "no"}
  BY DEF Refuse, Reuse, Base, Complete, Exhausted, Searching, Return, Below
<1>2. stack \in Seq(Frames(graph)) /\ selected \in Seq(ENodes(graph))
      /\ path \subseteq Classes(graph)
  BY DEF IInv, TypeOK
<1>3. /\ Calls(graph, stack, control) /\ Selections(graph, stack, control, selected)
      /\ Sound(graph, selected)
  BY DEF IInv, SearchOK, Selections
<1>4. Top = stack[Len(stack)]
  BY DEF Top
<1>5. stack' \in Seq(Frames(graph))
  BY <1>1, <1>2, Popped
<1>6. /\ path' \subseteq Classes(graph)
      /\ selected' \in Seq(ENodes(graph)) /\ Sound(graph, selected')
      /\ \A w : Has(graph, selected, w) => Has(graph, selected', w)
      /\ control' = "yes" => Has(graph, selected', <<Top.class, Top.target>>)
  <2>1. CASE Refuse \/ Exhausted
    BY <1>2, <1>3, <2>1 DEF Refuse, Exhausted, Return
  <2>2. CASE Reuse
    <3>1. Has(graph, selected, <<Top.class, Top.target>>)
      <4>1. PICK i \in DOMAIN graph.nodes[Top.class] :
              LET en == graph.nodes[Top.class][i] IN
              /\ en.bufs # <<>> /\ <<Top.class, i>> \in SelectedSet
              /\ en.bufs[1] = Top.target
        BY <2>2 DEF Reuse, Memoized
      <4>2. PICK j \in DOMAIN selected : selected[j] = <<Top.class, i>>
        BY <4>1 DEF SelectedSet
      <4>3. Top.target # ANY
        BY <1>1, TopFacts, HBMIsABuffer
      <4> QED
        BY <1>3, <4>1, <4>2, <4>3, SMTT(30) DEF Sound, At
    <3> QED
      BY <1>2, <1>3, <2>2, <3>1 DEF Reuse
  <2>3. ASSUME path' \subseteq path, selected' = Insert(Place),
               ~AtEnd \/ Top.kid > 0, Supports(Current, Top.target),
               \A k \in DOMAIN Current.kids : Has(graph, selected, Operand(graph, Top, k))
        PROVE  /\ path' \subseteq Classes(graph)
               /\ selected' \in Seq(ENodes(graph)) /\ Sound(graph, selected')
               /\ \A w : Has(graph, selected, w) => Has(graph, selected', w)
               /\ Has(graph, selected', <<Top.class, Top.target>>)
    <3>1. Place \in ENodes(graph) /\ Place[1] = Top.class
      BY <1>1, <2>3, CurrentFacts DEF Place
    <3>2. Typed(graph) /\ Current = At(graph, Place) /\ Top.target \in Buffers
      BY <1>1, TopFacts DEF IInv, Current
    <3>3. \A k \in DOMAIN Current.kids :
            Has(graph, selected, <<Current.kids[k], ReadsFrom(Current, k, Top.target)>>)
      BY <1>1, <2>3, TopFacts DEF Operand
    <3> QED
      BY <1>2, <1>3, <2>3, <3>1, <3>2, <3>3, Inserted
  <2>4. CASE Base
    <3>1. path' = path /\ selected' = Insert(Place) /\ ~AtEnd
      BY <2>4 DEF Base
    <3>2. Current = graph.nodes[Top.class][Top.node]
      BY SMTT(30) DEF Current, Place, At
    <3>3. Current.kids = <<>> /\ Current.bufs = <<HBM>> /\ Top.target = HBM
      <4>1. Top.class \in graph.inputs \/ Current.kind = "detected"
        BY <2>4 DEF Base, IsBase
      <4>2. Top.class \in Classes(graph) /\ Top.node \in DOMAIN graph.nodes[Top.class]
        BY <1>1, <3>1, TopFacts, CurrentFacts
      <4> QED
        BY <2>4, <3>2, <4>1, <4>2 DEF IInv, Typed, Base, IsBase
    <3>4. Supports(Current, Top.target)
      BY <3>3 DEF Supports
    <3> QED
      BY <2>3, <3>1, <3>3, <3>4
  <2>5. CASE Complete
    <3>1. /\ path' = path \ {Top.class} /\ selected' = Insert(Place)
          /\ control = "kids" /\ Top.kid > Len(Current.kids)
      BY <2>5 DEF Complete, Searching
    <3>2. Top.kid > 0
      BY <1>1, <1>3, <1>4, <3>1 DEF Calls
    <3>3. FoundIn(graph, Top, selected) /\ Supports(Current, Top.target)
      BY <1>1, <1>3, <1>4, <3>2, TopFacts DEF Selections, FrameOK
    <3>4. \A k \in DOMAIN Current.kids : k \in 1 .. Top.kid - 1
      BY <1>1, <3>1, <3>2, CurrentFacts, TopFacts
    <3> QED
      BY <2>3, <3>1, <3>2, <3>3, <3>4 DEF FoundIn
  <2> QED
    BY <2>1, <2>2, <2>4, <2>5
<1>7. /\ Calls(graph, stack', control')
      /\ Selections(graph, stack', control', selected')
  BY <1>1, <1>2, <1>3, <1>4, <1>6, Returns
<1> QED
  BY <1>1, <1>5, <1>6, <1>7, SearchLeavesTheRest DEF Controls

\* The call on top goes on with what is selected.
LEMMA TopGoesOn ==
  ASSUME IInv, phase = "search", Search, stack # <<>>,
         NEW f \in Frames(graph), stack' = Append(Below, f),
         path' \subseteq Classes(graph), selected' \in Seq(ENodes(graph)),
         Sound(graph, selected'),
         \A d \in 1 .. Len(stack) - 1 : FoundIn(graph, stack[d], selected'),
         f.class = Top.class, f.target = Top.target,
         f.snapshot \in {Top.snapshot, selected'},
         FrameOK(graph, f), FoundIn(graph, f, selected'),
         \/ control' = "try" /\ f.kid = 0
         \/ control' = "kids" /\ f.kid > 0
  PROVE  IInv'
<1>1. stack \in Seq(Frames(graph))
  BY DEF IInv, TypeOK
<1>2. /\ Calls(graph, stack, control)
      /\ Selections(graph, stack, control, selected)
  BY DEF IInv, SearchOK
<1>3. stack' = Append(SubSeq(stack, 1, Len(stack) - 1), f)
  BY DEF Below
<1>4. stack' \in Seq(Frames(graph))
  BY <1>1, <1>3, Replaced
<1>5. f.class = stack[Len(stack)].class /\ f.target = stack[Len(stack)].target
  BY DEF Top
<1>6. /\ Sound(graph, Top.snapshot)
      /\ \A d \in 1 .. Len(stack) - 1 : FoundIn(graph, stack[d], Top.snapshot)
  <2>1. Len(stack) \in Nat \ {0} /\ Top = stack[Len(stack)]
    BY TopFacts DEF Top
  <2>2. \A d \in 1 .. Len(stack) - 1 : d \in 1 .. Len(stack) /\ Len(stack) \in d + 1 .. Len(stack)
    BY <2>1
  <2> QED
    BY <1>2, <2>1, <2>2 DEF Selections
<1>7. /\ Sound(graph, f.snapshot)
      /\ \A d \in 1 .. Len(stack) - 1 : FoundIn(graph, stack[d], f.snapshot)
  BY <1>6
<1>8. /\ Calls(graph, stack', control')
      /\ Selections(graph, stack', control', selected')
  BY <1>1, <1>2, <1>3, <1>5, <1>7, GoesOn
<1> QED
  BY <1>4, <1>8, SearchLeavesTheRest DEF Controls

\* What the calls below have found is selected, now and when the call on top
\* came to its e-node.
LEMMA BelowFound ==
  ASSUME IInv, stack # <<>>
  PROVE  /\ Sound(graph, selected) /\ Sound(graph, Top.snapshot)
         /\ FoundIn(graph, Top, selected)
         /\ \A d \in 1 .. Len(stack) - 1 :
              /\ FoundIn(graph, stack[d], selected)
              /\ FoundIn(graph, stack[d], Top.snapshot)
<1>1. Len(stack) \in Nat \ {0} /\ Top = stack[Len(stack)]
  BY TopFacts DEF Top
<1>2. \A d \in 1 .. Len(stack) - 1 : d \in 1 .. Len(stack) /\ Len(stack) \in d + 1 .. Len(stack)
  BY <1>1
<1> QED
  BY <1>1, <1>2 DEF IInv, SearchOK, Selections

\* The frame that goes on to the next e-node.
LEMMA NextFrame ==
  ASSUME IInv, stack # <<>>, NEW sel \in Seq(ENodes(graph))
  PROVE  LET f == NextNode(sel) IN
         /\ f \in Frames(graph) /\ f.class = Top.class /\ f.target = Top.target
         /\ f.snapshot = sel /\ f.kid = 0 /\ FrameOK(graph, f) /\ FoundIn(graph, f, sel)
<1> DEFINE f == NextNode(sel)
<1>1. /\ Top.class \in Classes(graph) /\ Top.target \in Buffers
      /\ Top.node \in Nat /\ Top.node + 1 \in Nat \ {0}
  BY TopFacts
<1>2. f \in Frames(graph)
  BY <1>1 DEF Frames, NextNode
<1>3. /\ f.class = Top.class /\ f.target = Top.target /\ f.snapshot = sel /\ f.kid = 0
      /\ f.node \in Nat \ {0}
  BY <1>1 DEF NextNode
<1> HIDE DEF f
<1>4. FrameOK(graph, f) /\ FoundIn(graph, f, sel)
  BY <1>3 DEF FrameOK, FoundIn
<1> QED
  BY <1>2, <1>3, <1>4 DEF f

LEMMA SkipInvariant ==
  ASSUME IInv, Skip
  PROVE  IInv'
<1> DEFINE f == NextNode(selected)
<1>1. /\ phase = "search" /\ stack # <<>> /\ Search /\ control = "try"
      /\ stack' = Append(Below, f)
      /\ control' = control /\ path' = path /\ selected' = selected
  BY DEF Skip, Searching
<1>2. path \subseteq Classes(graph) /\ selected \in Seq(ENodes(graph))
  BY DEF IInv, TypeOK
<1>3. /\ f \in Frames(graph) /\ f.class = Top.class /\ f.target = Top.target
      /\ f.snapshot = selected
      /\ f.kid = 0 /\ FrameOK(graph, f) /\ FoundIn(graph, f, selected)
  BY <1>1, <1>2, NextFrame
<1> HIDE DEF f
<1> QED
  BY <1>1, <1>2, <1>3, BelowFound, TopGoesOn

LEMMA AcceptInvariant ==
  ASSUME IInv, Accept
  PROVE  IInv'
<1> DEFINE f == [Top EXCEPT !.kid = 1]
<1>1. /\ phase = "search" /\ stack # <<>> /\ Search /\ ~AtEnd
      /\ Supports(Current, Top.target)
      /\ stack' = Append(Below, f)
      /\ control' = "kids" /\ path' = path \cup {Top.class} /\ selected' = selected
  BY DEF Accept, Searching
<1>2. path' \subseteq Classes(graph) /\ selected \in Seq(ENodes(graph))
  BY <1>1, TopFacts DEF IInv, TypeOK
<1>3. /\ f \in Frames(graph) /\ f.class = Top.class /\ f.target = Top.target
      /\ f.snapshot = Top.snapshot
      /\ f.kid = 1 /\ f.node = Top.node /\ f.target = Top.target
  BY <1>1, TopFacts DEF Frames
<1> HIDE DEF f
<1>4. EN(graph, f) = Current
  BY <1>1, <1>3, TopFacts DEF EN
<1>5. /\ f.node \in DOMAIN graph.nodes[f.class] /\ Len(Current.kids) \in Nat
      /\ Supports(Current, f.target) /\ f.node \in Nat \ {0}
  BY <1>1, <1>3, CurrentFacts, TopFacts
<1>6. FrameOK(graph, f) /\ FoundIn(graph, f, selected)
  BY <1>3, <1>4, <1>5 DEF FrameOK, FoundIn
<1> QED
  BY <1>1, <1>2, <1>3, <1>6, BelowFound, TopGoesOn

LEMMA KidFoundInvariant ==
  ASSUME IInv, KidFound
  PROVE  IInv'
<1> DEFINE f == [Top EXCEPT !.kid = @ + 1]
<1>1. /\ phase = "search" /\ stack # <<>> /\ Search /\ control = "yes"
      /\ stack' = Append(Below, f)
      /\ control' = "kids" /\ path' = path /\ selected' = selected
  BY DEF KidFound, Searching
<1>2. path \subseteq Classes(graph) /\ selected \in Seq(ENodes(graph))
  BY DEF IInv, TypeOK
<1>3. /\ f \in Frames(graph) /\ f.class = Top.class /\ f.target = Top.target
      /\ f.snapshot = Top.snapshot
      /\ f.kid = Top.kid + 1 /\ f.node = Top.node /\ f.target = Top.target
  BY <1>1, TopFacts DEF Frames
<1> HIDE DEF f
<1>4. EN(graph, f) = Current /\ EN(graph, Top) = Current
  BY <1>1, <1>3, TopFacts DEF EN
<1>5. /\ Top.kid > 0 /\ Top.kid <= Len(Current.kids)
      /\ Has(graph, selected, Operand(graph, Top, Top.kid))
  <2>1. Waiting(graph, Top)
    BY <1>1 DEF IInv, SearchOK, Calls, Top
  <2>2. Asked(graph, stack, Len(stack)) = Operand(graph, Top, Top.kid)
    BY <1>1, TopFacts DEF Asked, Top
  <2>3. Has(graph, selected, Asked(graph, stack, Len(stack)))
    BY <1>1 DEF IInv, SearchOK, Selections
  <2> QED
    BY <1>4, <2>1, <2>2, <2>3 DEF Waiting
<1>6. /\ Len(Current.kids) \in Nat /\ Top.kid \in Nat
      /\ FrameOK(graph, Top) /\ FoundIn(graph, Top, selected)
  BY <1>1, <1>5, CurrentFacts, TopFacts, BelowFound
<1>7. FrameOK(graph, f)
  BY <1>3, <1>4, <1>5, <1>6 DEF FrameOK
<1>8. ASSUME NEW k \in 1 .. f.kid - 1 PROVE Has(graph, selected, Operand(graph, f, k))
  <2>1. k \in 1 .. Top.kid - 1 \/ k = Top.kid
    BY <1>3, <1>6
  <2>2. Operand(graph, f, k) = Operand(graph, Top, k)
    BY <1>3, <1>4 DEF Operand
  <2> QED
    BY <1>5, <1>6, <2>1, <2>2 DEF FoundIn
<1>9. FoundIn(graph, f, selected)
  BY <1>4, <1>8 DEF FoundIn
<1>10. f.kid > 0
  BY <1>3, <1>6
<1>11. /\ Sound(graph, selected')
       /\ \A d \in 1 .. Len(stack) - 1 : FoundIn(graph, stack[d], selected')
  BY <1>1, BelowFound
<1>12. path' \subseteq Classes(graph) /\ selected' \in Seq(ENodes(graph))
       /\ FoundIn(graph, f, selected')
  BY <1>1, <1>2, <1>9
<1> QED
  BY <1>1, <1>3, <1>7, <1>10, <1>11, <1>12, TopGoesOn

LEMMA KidFailedInvariant ==
  ASSUME IInv, KidFailed
  PROVE  IInv'
<1> DEFINE f == NextNode(Top.snapshot)
<1>1. /\ phase = "search" /\ stack # <<>> /\ Search
      /\ stack' = Append(Below, f)
      /\ control' = "try" /\ path' = path \ {Top.class} /\ selected' = Top.snapshot
  BY DEF KidFailed, Searching, RolledBack
<1>2. path' \subseteq Classes(graph) /\ Top.snapshot \in Seq(ENodes(graph))
  BY <1>1, TopFacts DEF IInv, TypeOK
<1>3. /\ f \in Frames(graph) /\ f.class = Top.class /\ f.target = Top.target
      /\ f.snapshot = Top.snapshot
      /\ f.kid = 0 /\ FrameOK(graph, f) /\ FoundIn(graph, f, Top.snapshot)
  BY <1>1, <1>2, NextFrame
<1> HIDE DEF f
<1> QED
  BY <1>1, <1>2, <1>3, BelowFound, TopGoesOn

LEMMA CallKidInvariant ==
  ASSUME IInv, CallKid
  PROVE  IInv'
<1> DEFINE f == [class    |-> Current.kids[Top.kid],
                 target   |-> ReadsFrom(Current, Top.kid, Top.target),
                 node     |-> 1,
                 kid      |-> 0,
                 snapshot |-> selected]
<1>1. /\ phase = "search" /\ stack # <<>> /\ Search /\ control = "kids"
      /\ Top.kid <= Len(Current.kids)
      /\ stack' = Append(stack, f)
      /\ control' = "call" /\ path' = path /\ selected' = selected
  BY DEF CallKid, Searching
<1>2. /\ path \subseteq Classes(graph) /\ selected \in Seq(ENodes(graph))
      /\ stack \in Seq(Frames(graph))
      /\ Calls(graph, stack, control) /\ Selections(graph, stack, control, selected)
  BY DEF IInv, TypeOK, SearchOK
<1>3. /\ Top.kid > 0 /\ Top.kid \in Nat /\ Current = EN(graph, Top)
      /\ Current.bufs # <<>> /\ Top.target \in Buffers
      /\ Top = stack[Len(stack)]
  BY <1>1, <1>2, TopFacts DEF Calls, Top, FrameOK, Supports
<1>4. /\ Top.node \in DOMAIN graph.nodes[Top.class] /\ Top.class \in Classes(graph)
      /\ Current.kids \in Seq(Classes(graph))
  BY <1>1, <1>3, CurrentFacts, TopFacts
<1>5. Top.kid \in 1 .. Len(Current.kids)
  BY <1>1, <1>3, <1>4
<1>6. Current.kids[Top.kid] \in Classes(graph)
  BY <1>4, <1>5
<1>7. ReadsFrom(Current, Top.kid, Top.target) \in Buffers
  BY <1>3, <1>4, <1>5, ReadsFromBuffer DEF IInv, Current, Place
<1>8. f \in Frames(graph)
  BY <1>2, <1>6, <1>7 DEF Frames
<1>9. /\ f.node = 1 /\ f.kid = 0 /\ f.snapshot = selected
      /\ <<f.class, f.target>> = Asked(graph, stack, Len(stack))
  BY <1>1, <1>3, TopFacts DEF Asked, Operand
<1> HIDE DEF f
<1>10. Waiting(graph, stack[Len(stack)])
  BY <1>1, <1>3 DEF Waiting
<1>11. Calls(graph, stack', "call") /\ Selections(graph, stack', "call", selected)
  BY <1>1, <1>2, <1>8, <1>9, <1>10, Descends
<1>12. stack' \in Seq(Frames(graph))
  BY <1>1, <1>2, <1>8, AppendProperties
<1> QED
  BY <1>1, <1>2, <1>11, <1>12, SearchLeavesTheRest DEF Controls

LEMMA EnterLoopInvariant ==
  ASSUME IInv, EnterLoop
  PROVE  IInv'
<1>1. /\ phase = "search" /\ stack # <<>> /\ Search /\ control = "call"
      /\ control' = "try" /\ stack' = stack /\ path' = path /\ selected' = selected
  BY DEF EnterLoop, Searching
<1>2. Calls(graph, stack, "try")
  BY <1>1 DEF IInv, SearchOK, Calls
<1>3. Selections(graph, stack, "try", selected)
  BY <1>1 DEF IInv, SearchOK, Selections
<1> QED
  BY <1>1, <1>2, <1>3, SearchLeavesTheRest DEF IInv, TypeOK, Controls

LEMMA SearchEndsInvariant ==
  ASSUME IInv, SearchEnds
  PROVE  IInv'
<1>1. /\ phase = "search" /\ phase' \in {"convert", "none"}
      /\ graph' = graph /\ work' = work /\ constants' = constants
      /\ control' = control /\ stack' = stack /\ path' = path
      /\ selected' = selected /\ pii' = pii /\ eclass_map' = eclass_map
  BY DEF SearchEnds, detection, search, output
<1>2. Typed(graph)' /\ SearchOK' /\ LinesInOrder'
  BY <1>1 DEF IInv, Typed, SearchOK, LinesInOrder
<1>3. TypeOK'
  BY <1>1 DEF IInv, TypeOK, Phases
<1>4. Idle' /\ MapOK' /\ NeverStuck'
  BY <1>1 DEF IInv, Idle, MapOK, NeverStuck
<1> QED
  BY <1>2, <1>3, <1>4 DEF IInv

-----------------------------------------------------------------------------
(* The conversion.                                                         *)

\* The operands of an e-node whose operand classes have been converted are
\* lines of these classes.
LEMMA OperandsAreLines ==
  ASSUME IInv, NEW n \in SelectedSet,
         \A c \in KidSet(At(graph, n)) : eclass_map[c] # 0
  PROVE  /\ n \in ENodes(graph) /\ n[1] \in Classes(graph)
         /\ Operands(n) \in Seq(Nat)
         /\ \A k \in DOMAIN Operands(n) :
              /\ Operands(n)[k] \in DOMAIN pii
              /\ pii[Operands(n)[k]].node[1] = At(graph, n).kids[k]
<1> DEFINE kids == At(graph, n).kids
<1>1. n \in ENodes(graph)
  BY DEF IInv, TypeOK, SelectedSet
<1>2. n[1] \in Classes(graph) /\ kids \in Seq(Classes(graph))
  BY <1>1, ENodePairs DEF IInv
<1>3. Operands(n) = [k \in DOMAIN kids |-> eclass_map[kids[k]]]
  BY DEF Operands
<1>4. eclass_map \in [Classes(graph) -> Nat]
  BY DEF IInv, TypeOK
<1>5. ASSUME NEW k \in DOMAIN kids
      PROVE  /\ kids[k] \in Classes(graph)
             /\ eclass_map[kids[k]] \in DOMAIN pii
             /\ pii[eclass_map[kids[k]]].node[1] = kids[k]
  <2>1. kids[k] \in Classes(graph) /\ kids[k] \in KidSet(At(graph, n))
    BY <1>2 DEF KidSet
  <2> QED
    BY <2>1 DEF IInv, MapOK
<1> HIDE DEF kids
<1>6. DOMAIN kids = 1 .. Len(kids) /\ Len(kids) \in Nat
  BY <1>2
<1>7. Operands(n) \in Seq(Nat)
  BY <1>3, <1>4, <1>5, <1>6
<1> QED
  BY <1>1, <1>2, <1>3, <1>5, <1>7 DEF kids

LEMMA AddNodeInvariant ==
  ASSUME IInv, phase = "convert", NEW n \in SelectedSet,
         \A c \in KidSet(At(graph, n)) : eclass_map[c] # 0,
         AddNode(n), UNCHANGED <<graph, detection, search>>
  PROVE  IInv'
<1>1. /\ graph' = graph /\ work' = work /\ constants' = constants
      /\ control' = control /\ stack' = stack /\ path' = path /\ selected' = selected
  BY DEF detection, search
<1>2. Typed(graph)' /\ SearchOK'
  BY <1>1 DEF IInv, Typed, SearchOK
<1>3. CASE phase' = "panic" /\ UNCHANGED output
  <2>1. pii' = pii /\ eclass_map' = eclass_map
    BY <1>3 DEF output
  <2>2. TypeOK'
    BY <1>1, <1>3, <2>1 DEF IInv, TypeOK, Phases
  <2>3. Idle' /\ MapOK' /\ LinesInOrder' /\ NeverStuck'
    BY <1>1, <1>3, <2>1 DEF IInv, Idle, MapOK, LinesInOrder, NeverStuck
  <2> QED
    BY <1>2, <2>2, <2>3 DEF IInv
<1>4. ASSUME NEW b \in Buffers, phase' = phase,
             pii' = Append(pii, [node |-> n, buffer |-> b, rhs |-> Operands(n)]),
             eclass_map' = [eclass_map EXCEPT ![n[1]] = Len(pii) + 1]
      PROVE  IInv'
  <2> DEFINE line == [node |-> n, buffer |-> b, rhs |-> Operands(n)]
  <2>1. /\ n \in ENodes(graph) /\ n[1] \in Classes(graph)
        /\ Operands(n) \in Seq(Nat)
        /\ \A k \in DOMAIN Operands(n) :
             /\ Operands(n)[k] \in DOMAIN pii
             /\ pii[Operands(n)[k]].node[1] = At(graph, n).kids[k]
    BY OperandsAreLines
  <2>2. line \in Lines(graph)
    BY <1>4, <2>1 DEF Lines
  <2>3. line.node = n /\ line.rhs = Operands(n)
    OBVIOUS
  <2>4. pii \in Seq(Lines(graph)) /\ eclass_map \in [Classes(graph) -> Nat]
    BY DEF IInv, TypeOK
  <2> HIDE DEF line
  <2>5. PICK m \in Nat : Len(pii) = m /\ DOMAIN pii = 1 .. m
    BY <2>4
  <2>6. /\ pii' \in Seq(Lines(graph)) /\ DOMAIN pii' = 1 .. m + 1
        /\ \A t \in 1 .. m : pii'[t] = pii[t]
        /\ pii'[m + 1] = line
    BY <1>4, <2>2, <2>4, <2>5, AppendProperties, LenProperties DEF line
  <2>7. /\ eclass_map' \in [Classes(graph) -> Nat]
        /\ eclass_map'[n[1]] = m + 1
        /\ \A c \in Classes(graph) : c # n[1] => eclass_map'[c] = eclass_map[c]
    BY <1>4, <2>1, <2>4, <2>5
  <2>8. TypeOK'
    BY <1>1, <1>4, <2>6, <2>7 DEF IInv, TypeOK, Phases
  <2>9. ASSUME NEW t \in 1 .. m + 1 PROVE t \in 1 .. m \/ t = m + 1
    OBVIOUS
  <2>10. MapOK'
    <3>1. ASSUME NEW c \in Classes(graph), eclass_map'[c] # 0
          PROVE  eclass_map'[c] \in DOMAIN pii' /\ pii'[eclass_map'[c]].node[1] = c
      <4>1. CASE c = n[1]
        BY <2>3, <2>5, <2>6, <2>7, <4>1
      <4>2. CASE c # n[1]
        <5>1. eclass_map[c] \in DOMAIN pii /\ pii[eclass_map[c]].node[1] = c
          BY <2>7, <3>1, <4>2 DEF IInv, MapOK
        <5> QED
          BY <2>5, <2>6, <2>7, <4>2, <5>1
      <4> QED
        BY <4>1, <4>2
    <3>2. ASSUME NEW t \in 1 .. m + 1 PROVE eclass_map'[pii'[t].node[1]] # 0
      <4>1. CASE t = m + 1
        BY <2>3, <2>6, <2>7, <4>1
      <4>2. CASE t \in 1 .. m
        <5>1. pii[t] \in Lines(graph)
          BY <2>4, <2>5, <4>2
        <5>2. pii[t].node[1] \in Classes(graph)
          BY <5>1, ENodePairs DEF IInv, Lines
        <5>3. eclass_map[pii[t].node[1]] # 0
          BY <2>5, <4>2 DEF IInv, MapOK
        <5>4. eclass_map'[pii[t].node[1]] # 0
          BY <2>7, <5>2, <5>3
        <5> QED
          BY <2>6, <4>2, <5>4
      <4> QED
        BY <2>9, <4>1, <4>2
    <3> QED
      BY <1>1, <1>4, <2>6, <3>1, <3>2 DEF MapOK
  <2>11. LinesInOrder'
    <3>1. ASSUME NEW t \in 1 .. m + 1, NEW k \in DOMAIN pii'[t].rhs
          PROVE  /\ pii'[t].rhs[k] \in 1 .. t - 1
                 /\ pii'[pii'[t].rhs[k]].node[1] = At(graph, pii'[t].node).kids[k]
      <4>1. CASE t = m + 1
        <5>1. pii'[t] = line /\ k \in DOMAIN Operands(n)
          BY <2>3, <2>6, <3>1, <4>1
        <5>2. /\ Operands(n)[k] \in 1 .. m
              /\ pii[Operands(n)[k]].node[1] = At(graph, n).kids[k]
          BY <2>1, <2>5, <5>1
        <5>3. t - 1 = m
          BY <4>1
        <5> QED
          BY <2>3, <2>6, <5>1, <5>2, <5>3
      <4>2. CASE t \in 1 .. m
        <5>1. pii'[t] = pii[t]
          BY <2>6, <4>2
        <5>2. /\ pii[t].rhs[k] \in 1 .. t - 1
              /\ pii[pii[t].rhs[k]].node[1] = At(graph, pii[t].node).kids[k]
          BY <2>5, <3>1, <4>2, <5>1 DEF IInv, LinesInOrder
        <5>3. pii[t].rhs[k] \in 1 .. m
          BY <4>2, <5>2
        <5> QED
          BY <2>6, <5>1, <5>2, <5>3
      <4> QED
        BY <2>9, <4>1, <4>2
    <3> QED
      BY <1>1, <2>6, <3>1 DEF LinesInOrder
  <2>12. Idle' /\ NeverStuck'
    BY <1>4 DEF Idle, NeverStuck
  <2> QED
    BY <1>2, <2>8, <2>10, <2>11, <2>12 DEF IInv
<1>5. CASE \E b \in Buffers : LineBuffers(n) = {b}
  BY <1>4, <1>5 DEF AddNode
<1>6. CASE ~ \E b \in Buffers : LineBuffers(n) = {b}
  BY <1>3, <1>6 DEF AddNode
<1> QED
  BY <1>5, <1>6

LEMMA ConvertInvariant ==
  ASSUME IInv, NEW n \in SelectedSet, ConvertLeaf(n) \/ ConvertNode(n)
  PROVE  IInv'
<1>1. \A c \in KidSet(At(graph, n)) : eclass_map[c] # 0
  BY DEF ConvertLeaf, ConvertNode, Leaves, Ready, KidSet
<1>2. phase = "convert" /\ AddNode(n) /\ UNCHANGED <<graph, detection, search>>
  BY DEF ConvertLeaf, ConvertNode
<1> QED
  BY <1>1, <1>2, AddNodeInvariant

\* As long as something selected is not converted, the first such e-node in
\* the order in which they were inserted is ready.
LEMMA SomethingIsReady ==
  ASSUME IInv, ~(SelectedSet \subseteq Converted)
  PROVE  Ready # {}
<1> DEFINE J == {j \in DOMAIN selected : selected[j] \notin Converted}
<1>1. DOMAIN selected \subseteq Nat
  BY DEF IInv, TypeOK
<1>2. J \subseteq Nat /\ J # {}
  BY <1>1 DEF SelectedSet
<1> HIDE DEF J
<1>3. PICK j \in J : \A i \in J : ~(<<i, j>> \in OpToRel(<, Nat))
  BY <1>2, NatLessThanWellFounded, WFMin
<1> USE DEF J
<1>4. \A i \in J : ~(i < j)
  BY <1>2, <1>3 DEF OpToRel
<1>5. ASSUME NEW c \in KidSet(At(graph, selected[j]))
      PROVE  eclass_map[c] # 0
  <2>1. PICK i \in 1 .. j - 1 : selected[i][1] = c
    BY DEF IInv, SearchOK, Selections, Sound
  <2>2. i \in DOMAIN selected /\ i < j
    <3>1. selected \in Seq(ENodes(graph))
      BY DEF IInv, TypeOK
    <3> QED
      BY <2>1, <3>1
  <2>3. selected[i] \in Converted
    BY <1>4, <2>2
  <2>4. PICK t \in DOMAIN pii : pii[t].node = selected[i]
    BY <2>3 DEF Converted
  <2> QED
    BY <2>1, <2>4 DEF IInv, MapOK
<1>6. selected[j] \in Ready
  BY <1>5 DEF Ready, SelectedSet
<1> QED
  BY <1>6

LEMMA ConvertEndsInvariant ==
  ASSUME IInv, ConvertEnds
  PROVE  IInv'
<1>1. /\ phase = "convert" /\ Ready = {}
      /\ phase' = IF SelectedSet \subseteq Converted THEN "done" ELSE "stuck"
      /\ graph' = graph /\ work' = work /\ constants' = constants
      /\ control' = control /\ stack' = stack /\ path' = path
      /\ selected' = selected /\ pii' = pii /\ eclass_map' = eclass_map
  BY DEF ConvertEnds, detection, search, output
<1>2. phase' = "done"
  BY <1>1, SomethingIsReady
<1>3. Typed(graph)' /\ SearchOK' /\ LinesInOrder'
  BY <1>1 DEF IInv, Typed, SearchOK, LinesInOrder
<1>4. TypeOK'
  BY <1>1, <1>2 DEF IInv, TypeOK, Phases
<1>5. Idle' /\ MapOK' /\ NeverStuck'
  BY <1>1, <1>2 DEF IInv, Idle, MapOK, NeverStuck
<1> QED
  BY <1>3, <1>4, <1>5 DEF IInv

LEMMA UnchangedInvariant ==
  ASSUME IInv, UNCHANGED vars
  PROVE  IInv'
<1>1. /\ phase' = phase /\ graph' = graph /\ work' = work /\ constants' = constants
      /\ control' = control /\ stack' = stack /\ path' = path
      /\ selected' = selected /\ pii' = pii /\ eclass_map' = eclass_map
  BY DEF vars, detection, search, output
<1> QED
  BY <1>1 DEF IInv, Typed, TypeOK, Idle, SearchOK, MapOK, LinesInOrder, NeverStuck

-----------------------------------------------------------------------------
(* The theorems.                                                           *)

LEMMA NextInvariant == IInv /\ [Next]_vars => IInv'
<1> SUFFICES ASSUME IInv, [Next]_vars PROVE IInv'
  OBVIOUS
<1>1. CASE (\E c \in work : Detect(c)) \/ DetectEnds
  BY <1>1, DetectionInvariant
<1>2. CASE Annotate
  BY <1>2, AnnotateInvariant
<1>3. CASE Refuse \/ Reuse \/ Base \/ Complete \/ Exhausted
  BY <1>3, ReturnInvariant
<1>4. CASE EnterLoop
  BY <1>4, EnterLoopInvariant
<1>5. CASE Skip
  BY <1>5, SkipInvariant
<1>6. CASE Accept
  BY <1>6, AcceptInvariant
<1>7. CASE CallKid
  BY <1>7, CallKidInvariant
<1>8. CASE KidFound
  BY <1>8, KidFoundInvariant
<1>9. CASE KidFailed
  BY <1>9, KidFailedInvariant
<1>10. CASE SearchEnds
  BY <1>10, SearchEndsInvariant
<1>11. CASE \E n \in SelectedSet : ConvertLeaf(n) \/ ConvertNode(n)
  BY <1>11, ConvertInvariant
<1>12. CASE ConvertEnds
  BY <1>12, ConvertEndsInvariant
<1>13. CASE Finished \/ UNCHANGED vars
  BY <1>13, UnchangedInvariant DEF Finished
<1> QED
  BY <1>1, <1>2, <1>3, <1>4, <1>5, <1>6, <1>7, <1>8, <1>9, <1>10, <1>11, <1>12,
     <1>13 DEF Next, Step

LEMMA Invariant == Spec => []IInv
<1> QED
  BY InitInvariant, NextInvariant, PTL DEF Spec

\* Every variable keeps its type, for every e-graph of every size.
THEOREM TypeCorrect == Spec => []TypeOK
<1>1. IInv => TypeOK
  BY DEF IInv
<1> QED
  BY <1>1, Invariant, PTL

\* select2pii_graph never panics with "should not happen": whatever the
\* search selects, takes back and reuses, what it leaves can be converted.
THEOREM ConversionNeverStuck == Spec => []NeverStuck
<1>1. IInv => NeverStuck
  BY DEF IInv
<1> QED
  BY <1>1, Invariant, PTL

\* In whatever order the HashMap gives the selected e-nodes, the operands of
\* a line are lines before it, each of the class its e-node names.
THEOREM LinesAreInOrder == Spec => []LinesInOrder
<1>1. IInv => LinesInOrder
  BY DEF IInv
<1> QED
  BY <1>1, Invariant, PTL

-----------------------------------------------------------------------------
(* Constants.                                                              *)

LEMMA OperationsFacts ==
  ASSUME NEW g
  PROVE  /\ Classes(Operations(g, {})) = Classes(g)
         /\ \A c \in Classes(g) : \A i :
              /\ i \in DOMAIN Operations(g, {}).nodes[c] <=>
                   i \in DOMAIN g.nodes[c] /\ g.nodes[c][i].kind \in {"op", "any"}
              /\ i \in DOMAIN Operations(g, {}).nodes[c] =>
                   Operations(g, {}).nodes[c][i] = g.nodes[c][i]
  BY DEF Operations, Classes

\* What operations make of nothing is closed under operations.
LEMMA MadeIsClosed ==
  ASSUME NEW g, IsFiniteSet(Classes(g)), NEW c \in Classes(g),
         NEW i \in DOMAIN g.nodes[c], g.nodes[c][i].kind \in {"op", "any"},
         KidSet(g.nodes[c][i]) \subseteq Made(g, {})
  PROVE  c \in Made(g, {})
<1>1. /\ Classes(Operations(g, {})) = Classes(g)
      /\ i \in DOMAIN Operations(g, {}).nodes[c]
      /\ Operations(g, {}).nodes[c][i] = g.nodes[c][i]
  BY OperationsFacts
<1>2. ClosedUnder(Operations(g, {}), {}, Made(g, {}))
  BY <1>1, DerivableIsLeast DEF Made
<1> QED
  BY <1>1, <1>2 DEF ClosedUnder

\* What operations make of classes they make of nothing, they make of nothing.
LEMMA MadeOfMade ==
  ASSUME NEW g, IsFiniteSet(Classes(g)), NEW given \in SUBSET Made(g, {})
  PROVE  Made(g, given) \subseteq Made(g, {})
<1> DEFINE h == Operations(g, given)
           M == Made(g, {})
<1>1. /\ Classes(h) = Classes(g)
      /\ \A c \in Classes(g) \ given : \A i \in DOMAIN h.nodes[c] :
           /\ i \in DOMAIN g.nodes[c] /\ g.nodes[c][i].kind \in {"op", "any"}
           /\ h.nodes[c][i] = g.nodes[c][i]
  BY DEF Operations, Classes
<1> HIDE DEF h, M
<1>2. ASSUME NEW c \in Classes(h), NEW i \in DOMAIN h.nodes[c], KidSet(h.nodes[c][i]) \subseteq M
      PROVE  c \in M
  <2>1. CASE c \in given
    BY <2>1 DEF M
  <2>2. CASE c \notin given
    BY <1>1, <1>2, <2>2, MadeIsClosed DEF M
  <2> QED
    BY <2>1, <2>2
<1>3. ClosedUnder(h, {}, M)
  BY <1>2 DEF ClosedUnder
<1>4. Derivable(h, {}) \subseteq M
  BY <1>1, <1>3, DerivableIsLeast
<1> QED
  BY <1>4 DEF h, M, Made

\* If every instruction of every class outside reads all its pattern does, what
\* needs no input is made by operations alone.
LEMMA WithoutFormReadsLess ==
  ASSUME NEW g \in Graphs, IsFiniteSet(Classes(g)), WithoutForm(g) # {}
  PROVE  \E c \in WithoutForm(g) : \E i \in DOMAIN g.nodes[c] :
           g.nodes[c][i].kind = "isa" /\ ~ReadsAll(g, c, g.nodes[c][i])
<1> DEFINE D == Derivable(g, g.inputs)
           M == Made(g, {})
<1>1. /\ ENodesOK(g)
      /\ \A c \in Classes(g) :
           (c \in g.inputs) <=> (\E i \in DOMAIN g.nodes[c] : g.nodes[c][i].kind = "var")
  BY GraphAssumption DEF ValidGraph
<1>2. ClosedUnder(g, g.inputs, D)
  BY DerivableIsLeast
<1>3. WithoutForm(g) = D \ M
  BY DEF WithoutForm
<1>4. SUFFICES ASSUME \A c \in D \ M : \A i \in DOMAIN g.nodes[c] :
                        g.nodes[c][i].kind = "isa" => ReadsAll(g, c, g.nodes[c][i])
               PROVE  FALSE
  BY <1>3
<1> HIDE DEF D, M
<1>5. ASSUME NEW c \in Classes(g) \ g.inputs, NEW i \in DOMAIN g.nodes[c],
             KidSet(g.nodes[c][i]) \subseteq D \cap M
      PROVE  c \in D \cap M
  <2>1. c \in D
    BY <1>2, <1>5 DEF ClosedUnder
  <2>2. g.nodes[c][i].kind \in Kinds /\ g.nodes[c][i].kind \notin {"detected", "var"}
    <3>1. <<c, i>> \in ENodes(g) /\ At(g, <<c, i>>) = g.nodes[c][i]
      BY DEF ENodes, At
    <3>2. g.nodes[c] \in Seq(ENodeSet(g))
      BY ValidClasses
    <3>3. g.nodes[c][i] \in ENodeSet(g)
      BY <3>2
    <3>4. g.nodes[c][i].kind # "var"
      BY <1>1
    <3> QED
      BY <1>1, <3>1, <3>3, <3>4 DEF ENodesOK, ENodeSet
  <2>3. CASE g.nodes[c][i].kind \in {"op", "any"}
    BY <1>5, <2>1, <2>3, MadeIsClosed DEF M
  <2>4. CASE g.nodes[c][i].kind = "isa"
    <3>1. SUFFICES ASSUME c \notin M PROVE FALSE
      BY <2>1
    <3>2. c \in Made(g, KidSet(g.nodes[c][i]))
      BY <1>4, <2>1, <2>4, <3>1 DEF ReadsAll
    <3>3. Made(g, KidSet(g.nodes[c][i])) \subseteq M
      BY <1>5, MadeOfMade DEF M
    <3> QED
      BY <3>1, <3>2, <3>3
  <2> QED
    BY <2>2, <2>3, <2>4 DEF Kinds
<1>6. ClosedUnder(g, g.inputs, D \cap M)
  BY <1>5 DEF ClosedUnder
<1>7. D \subseteq D \cap M
  BY <1>6, DerivableIsLeast DEF D
<1>8. D \ M # {}
  BY <1>3
<1> QED
  BY <1>7, <1>8

\* op_repr finds a form exactly for the classes that operations alone make.
LEMMA FormsOfOperations ==
  ASSUME NEW g \in Graphs, IsFiniteSet(Classes(g)), NEW c \in Classes(g)
  PROVE  OpRepr(g, c) <=> c \in Made(g, {})
<1> DEFINE W == Operations(g, {})
           P == Classes(g)
           Body(f) == [call \in P \X SUBSET P |->
                         LET x == call[1]  visited == call[2] IN
                         /\ x \notin visited
                         /\ \E i \in DOMAIN g.nodes[x] :
                              /\ g.nodes[x][i].kind \in {"op", "any"}
                              /\ \A d \in KidSet(g.nodes[x][i]) : f[<<d, visited \cup {x}>>]]
           repr == CHOOSE f : f = Body(f)
<1>1. OpRepr(g, c) = repr[<<c, {}>>]
  BY DEF OpRepr
<1>2. Classes(W) = P /\ IsFiniteSet(P)
  BY OperationsFacts
<1>3. \A V \in SUBSET P : Derivable(W, V) \subseteq P
  BY <1>2, DerivableIsLeast
<1>4. ASSUME NEW x \in P, NEW V \in SUBSET P
      PROVE  x \in Derivable(W, V) <=>
               /\ x \notin V
               /\ \E i \in DOMAIN g.nodes[x] :
                    /\ g.nodes[x][i].kind \in {"op", "any"}
                    /\ \A d \in KidSet(g.nodes[x][i]) : d \in Derivable(W, V \cup {x})
  <2>1. x \in Derivable(W, V) <=>
          /\ x \notin V
          /\ \E i \in DOMAIN W.nodes[x] :
               KidSet(W.nodes[x][i]) \subseteq Derivable(W, V \cup {x})
    BY <1>2, DerivableWithoutItself
  <2> HIDE DEF W
  <2>2. \A i : /\ i \in DOMAIN W.nodes[x] <=>
                    i \in DOMAIN g.nodes[x] /\ g.nodes[x][i].kind \in {"op", "any"}
               /\ i \in DOMAIN W.nodes[x] => W.nodes[x][i] = g.nodes[x][i]
    BY OperationsFacts DEF W
  <2> QED
    BY <2>1, <2>2
<1>5. ASSUME NEW x \in P, NEW i \in DOMAIN g.nodes[x]
      PROVE  KidSet(g.nodes[x][i]) \subseteq P
  <2>1. g.nodes[x] \in Seq(ENodeSet(g))
    BY ValidClasses
  <2>2. g.nodes[x][i] \in ENodeSet(g)
    BY <2>1
  <2> QED
    BY <2>2 DEF ENodeSet, KidSet
\* Being derivable is a solution of the recursion.
<1>6. \E f : f = Body(f)
  <2> DEFINE f == [call \in P \X SUBSET P |-> call[1] \in Derivable(W, call[2])]
  <2> HIDE DEF W
  <2>1. ASSUME NEW x \in P, NEW V \in SUBSET P
        PROVE  (x \in Derivable(W, V)) =
                 /\ x \notin V
                 /\ \E i \in DOMAIN g.nodes[x] :
                      /\ g.nodes[x][i].kind \in {"op", "any"}
                      /\ \A d \in KidSet(g.nodes[x][i]) : f[<<d, V \cup {x}>>]
    <3>1. V \cup {x} \in SUBSET P
      OBVIOUS
    <3>2. \A d \in P : f[<<d, V \cup {x}>>] <=> d \in Derivable(W, V \cup {x})
      BY <3>1
    <3> HIDE DEF f
    <3>3. ASSUME NEW i \in DOMAIN g.nodes[x]
          PROVE  (\A d \in KidSet(g.nodes[x][i]) : f[<<d, V \cup {x}>>]) <=>
                 (\A d \in KidSet(g.nodes[x][i]) : d \in Derivable(W, V \cup {x}))
      BY <1>5, <3>2
    <3> DEFINE A == x \in Derivable(W, V)
               B == /\ x \notin V
                    /\ \E i \in DOMAIN g.nodes[x] :
                         /\ g.nodes[x][i].kind \in {"op", "any"}
                         /\ \A d \in KidSet(g.nodes[x][i]) : f[<<d, V \cup {x}>>]
    <3>4. A <=> B
      BY <1>4, <3>3
    <3>5. A \in BOOLEAN /\ B \in BOOLEAN
      OBVIOUS
    <3> HIDE DEF A, B
    <3>6. A = B
      BY <3>4, <3>5
    <3> QED
      BY <3>6 DEF A, B
  <2>2. ASSUME NEW call \in P \X SUBSET P PROVE f[call] = Body(f)[call]
    <3>1. call = <<call[1], call[2]>> /\ call[1] \in P /\ call[2] \in SUBSET P
      OBVIOUS
    <3> DEFINE x == call[1]
               V == call[2]
    <3>2. f[call] = (x \in Derivable(W, V))
      OBVIOUS
    <3>3. Body(f)[call] = (/\ x \notin V
                           /\ \E i \in DOMAIN g.nodes[x] :
                                /\ g.nodes[x][i].kind \in {"op", "any"}
                                /\ \A d \in KidSet(g.nodes[x][i]) : f[<<d, V \cup {x}>>])
      <4> HIDE DEF f
      <4> QED
        OBVIOUS
    <3> HIDE DEF f, Body
    <3> QED
      BY <2>1, <3>1, <3>2, <3>3
  <2>3. f = Body(f)
    BY <2>2
  <2> QED
    BY <2>3
<1>7. repr = Body(repr)
  <2> HIDE DEF Body
  <2> QED
    BY <1>6
<1> HIDE DEF repr
<1>8. ASSUME NEW x \in P, NEW V \in SUBSET P
      PROVE  repr[<<x, V>>] =
               /\ x \notin V
               /\ \E i \in DOMAIN g.nodes[x] :
                    /\ g.nodes[x][i].kind \in {"op", "any"}
                    /\ \A d \in KidSet(g.nodes[x][i]) : repr[<<d, V \cup {x}>>]
  BY <1>7
<1> HIDE DEF Body
\* With more classes visited there are fewer left.
<1>9. \A n \in Nat : \A V \in SUBSET P : Cardinality(P \ V) = n =>
        \A x \in P : repr[<<x, V>>] <=> x \in Derivable(W, V)
  <2> DEFINE Bad == {n \in Nat : \E V \in SUBSET P : Cardinality(P \ V) = n /\
                                  \E x \in P : ~(repr[<<x, V>>] <=> x \in Derivable(W, V))}
  <2>1. SUFFICES ASSUME Bad # {} PROVE FALSE
    OBVIOUS
  <2>2. Bad \in SUBSET Nat
    OBVIOUS
  <2> HIDE DEF Bad
  <2>3. PICK n \in Bad : \A k \in Bad : n <= k
    BY <2>1, <2>2, LeastElement
  <2> USE DEF Bad
  <2>4. PICK V \in SUBSET P : Cardinality(P \ V) = n /\
                               \E x \in P : ~(repr[<<x, V>>] <=> x \in Derivable(W, V))
    OBVIOUS
  <2>5. PICK x \in P : ~(repr[<<x, V>>] <=> x \in Derivable(W, V))
    BY <2>4
  <2>6. x \notin V
    BY <1>4, <1>8, <2>5
  <2>7. V \cup {x} \in SUBSET P /\ P \ (V \cup {x}) = (P \ V) \ {x}
    BY <2>6
  <2>8. IsFiniteSet(P \ V) /\ x \in P \ V
    BY <1>2, <2>6, FS_Subset
  <2>9. Cardinality(P \ (V \cup {x})) = n - 1 /\ n - 1 \in Nat
    <3>1. Cardinality((P \ V) \ {x}) = Cardinality(P \ V) - 1 /\ IsFiniteSet((P \ V) \ {x})
      BY <2>8, FS_RemoveElement
    <3>2. Cardinality((P \ V) \ {x}) \in Nat
      BY <3>1, FS_CardinalityType
    <3> QED
      BY <2>4, <2>7, <3>1, <3>2
  <2>10. \A d \in P : repr[<<d, V \cup {x}>>] <=> d \in Derivable(W, V \cup {x})
    <3>1. n - 1 \notin Bad
      <4>1. ~(n <= n - 1)
        BY <2>2, <2>3
      <4> HIDE DEF Bad
      <4> QED
        BY <2>3, <4>1
    <3> QED
      BY <2>7, <2>9, <3>1
  <2>11. ASSUME NEW i \in DOMAIN g.nodes[x]
         PROVE  (\A d \in KidSet(g.nodes[x][i]) : repr[<<d, V \cup {x}>>]) <=>
                (\A d \in KidSet(g.nodes[x][i]) : d \in Derivable(W, V \cup {x}))
    BY <1>5, <2>10
  <2>12. repr[<<x, V>>] <=> x \in Derivable(W, V)
    <3> DEFINE Repr(d) == repr[<<d, V \cup {x}>>]
               Derived(d) == d \in Derivable(W, V \cup {x})
    <3>1. repr[<<x, V>>] =
            /\ x \notin V
            /\ \E i \in DOMAIN g.nodes[x] :
                 /\ g.nodes[x][i].kind \in {"op", "any"}
                 /\ \A d \in KidSet(g.nodes[x][i]) : Repr(d)
      BY <1>8
    <3>2. x \in Derivable(W, V) <=>
            /\ x \notin V
            /\ \E i \in DOMAIN g.nodes[x] :
                 /\ g.nodes[x][i].kind \in {"op", "any"}
                 /\ \A d \in KidSet(g.nodes[x][i]) : Derived(d)
      BY <1>4
    <3>3. \A i \in DOMAIN g.nodes[x] :
            (\A d \in KidSet(g.nodes[x][i]) : Repr(d)) <=>
            (\A d \in KidSet(g.nodes[x][i]) : Derived(d))
      BY <2>11
    <3> HIDE DEF Repr, Derived
    <3> QED
      BY <3>1, <3>2, <3>3
  <2> QED
    BY <2>5, <2>12
<1>10. Cardinality(P \ {}) \in Nat /\ {} \in SUBSET P
  BY <1>2, FS_Subset, FS_CardinalityType
<1>11. repr[<<c, {}>>] <=> c \in Derivable(W, {})
  BY <1>9, <1>10
<1> QED
  BY <1>1, <1>11 DEF Made

\* Constants have a term without an input; a class that could be a constant
\* and is not yet one is in the worklist.
ConstantsInv ==
  /\ IsFiniteSet(Classes(graph))
  /\ phase \in {"detect", "annotate"} => graph \in Graphs
  /\ constants \subseteq Derivable(graph, graph.inputs)
  /\ phase = "detect" =>
       \A c \in Classes(graph) \ graph.inputs : AllKidsConstant(c) => c \in constants \cup work
  /\ ConstantsExact

\* A DetectedConst of a class that is derivable makes no other derivable.
LEMMA DetectedAddsNothing ==
  ASSUME NEW g, IsFiniteSet(Classes(g)),
         \A c \in Classes(g) : g.nodes[c] \in Seq(ENodeSet(g))
  PROVE  LET h == Annotated(g, Derivable(g, g.inputs)) IN
         Derivable(h, h.inputs) = Derivable(g, g.inputs)
<1> DEFINE D == Derivable(g, g.inputs)
           h == Annotated(g, D)
           E == Derivable(h, h.inputs)
<1>1. ClosedUnder(g, g.inputs, D) /\ D \subseteq Classes(g)
  BY DerivableIsLeast
<1>2. \A c \in D : c \notin g.inputs
  BY DerivableIsSupported
<1> HIDE DEF D
<1>3. /\ Classes(h) = Classes(g) /\ h.inputs = g.inputs
      /\ \A c \in Classes(g) : h.nodes[c] = IF c \in D THEN Append(g.nodes[c], DetectedConst)
                                            ELSE g.nodes[c]
  BY DEF Annotated, Classes
<1> HIDE DEF h
<1>4. ClosedUnder(h, h.inputs, E)
  BY <1>3, DerivableIsLeast
<1>5. ASSUME NEW c \in Classes(g), NEW i \in DOMAIN g.nodes[c]
      PROVE  i \in DOMAIN h.nodes[c] /\ h.nodes[c][i] = g.nodes[c][i]
  <2> DEFINE S == ENodeSet(g) \cup {DetectedConst}
             d == DetectedConst
  <2>1. g.nodes[c] \in Seq(S) /\ d \in S
    OBVIOUS
  <2> HIDE DEF S, d
  <2>2. /\ Len(Append(g.nodes[c], d)) = Len(g.nodes[c]) + 1
        /\ DOMAIN Append(g.nodes[c], d) = 1 .. Len(g.nodes[c]) + 1
        /\ Append(g.nodes[c], d)[i] = g.nodes[c][i]
        /\ DOMAIN g.nodes[c] = 1 .. Len(g.nodes[c]) /\ Len(g.nodes[c]) \in Nat
    BY <2>1, AppendProperties, LenProperties
  <2>3. i \in 1 .. Len(g.nodes[c]) + 1
    BY <2>2
  <2> QED
    BY <1>3, <2>2, <2>3 DEF d
<1>6. ClosedUnder(g, g.inputs, E)
  BY <1>3, <1>4, <1>5 DEF ClosedUnder
<1>7. D \subseteq E
  BY <1>6, DerivableIsLeast DEF D
<1>8. ASSUME NEW c \in Classes(h) \ h.inputs, NEW i \in DOMAIN h.nodes[c],
             KidSet(h.nodes[c][i]) \subseteq D
      PROVE  c \in D
  <2>1. SUFFICES ASSUME c \notin D PROVE FALSE
    OBVIOUS
  <2>2. h.nodes[c] = g.nodes[c]
    BY <1>3, <2>1
  <2> QED
    BY <1>1, <1>3, <1>8, <2>1, <2>2 DEF ClosedUnder
<1>9. ClosedUnder(h, h.inputs, D)
  BY <1>8 DEF ClosedUnder
<1>10. E \subseteq D
  BY <1>3, <1>9, DerivableIsLeast
<1> QED
  BY <1>7, <1>10 DEF D, h

LEMMA InitConstants == Init => ConstantsInv
<1> SUFFICES ASSUME Init PROVE ConstantsInv
  OBVIOUS
<1>1. graph \in Graphs /\ phase = "detect" /\ work = Classes(graph) /\ constants = {}
  BY DEF Init
<1> QED
  BY <1>1, ValidClasses DEF ConstantsInv, ConstantsExact

LEMMA DetectConstants ==
  ASSUME ConstantsInv, NEW c \in work, work \subseteq Classes(graph), Detect(c)
  PROVE  ConstantsInv'
<1>1. /\ phase = "detect" /\ phase' = "detect" /\ graph' = graph
      /\ IsFiniteSet(Classes(graph)) /\ graph \in Graphs
      /\ constants \subseteq Derivable(graph, graph.inputs)
      /\ \A x \in Classes(graph) \ graph.inputs :
           AllKidsConstant(x) => x \in constants \cup work
  BY DEF Detect, ConstantsInv
<1>2. CASE c \notin constants /\ c \notin graph.inputs /\ AllKidsConstant(c)
  <2>1. constants' = constants \cup {c} /\ work' = (work \ {c}) \cup Parents(graph, c)
    BY <1>2 DEF Detect
  <2>2. c \in Derivable(graph, graph.inputs)
    <3>1. ClosedUnder(graph, graph.inputs, Derivable(graph, graph.inputs))
      BY <1>1, DerivableIsLeast
    <3> QED
      BY <1>1, <1>2, <3>1 DEF ClosedUnder, AllKidsConstant
  <2>3. ASSUME NEW x \in Classes(graph) \ graph.inputs, NEW i \in DOMAIN graph.nodes[x],
               KidSet(graph.nodes[x][i]) \subseteq constants \cup {c}
        PROVE  x \in constants' \cup work'
    <3>1. CASE c \in KidSet(graph.nodes[x][i])
      BY <2>1, <3>1 DEF Parents
    <3>2. CASE c \notin KidSet(graph.nodes[x][i])
      <4>1. AllKidsConstant(x)
        BY <2>3, <3>2 DEF AllKidsConstant
      <4> QED
        BY <1>1, <2>1, <4>1
    <3> QED
      BY <3>1, <3>2
  <2>4. \A x \in Classes(graph) \ graph.inputs : AllKidsConstant(x)' => x \in constants' \cup work'
    BY <1>1, <2>1, <2>3 DEF AllKidsConstant
  <2> QED
    BY <1>1, <2>1, <2>2, <2>4 DEF ConstantsInv, ConstantsExact
<1>3. CASE ~(c \notin constants /\ c \notin graph.inputs /\ AllKidsConstant(c))
  <2>1. constants' = constants /\ work' = work \ {c}
    BY <1>3 DEF Detect
  <2>2. \A x : AllKidsConstant(x)' <=> AllKidsConstant(x)
    BY <1>1, <2>1 DEF AllKidsConstant
  <2>3. \A x \in Classes(graph) \ graph.inputs : AllKidsConstant(x)' => x \in constants' \cup work'
    BY <1>1, <1>3, <2>1, <2>2
  <2> QED
    BY <1>1, <2>1, <2>3 DEF ConstantsInv, ConstantsExact
<1> QED
  BY <1>2, <1>3

LEMMA DetectEndsConstants ==
  ASSUME ConstantsInv, DetectEnds
  PROVE  ConstantsInv'
<1>1. /\ phase = "detect" /\ phase' = "annotate" /\ work = {}
      /\ graph' = graph /\ constants' = constants /\ work' = work
  BY DEF DetectEnds, detection
<1>2. ClosedUnder(graph, graph.inputs, constants)
  BY <1>1 DEF ClosedUnder, ConstantsInv, AllKidsConstant
<1>3. Derivable(graph, graph.inputs) \subseteq constants
  BY <1>2, DerivableIsLeast DEF ConstantsInv
<1> QED
  BY <1>1, <1>3 DEF ConstantsInv, ConstantsExact

LEMMA AnnotateConstants ==
  ASSUME IInv, ConstantsInv, Annotate
  PROVE  ConstantsInv'
<1>1. /\ phase = "annotate" /\ constants' = constants
      /\ IsFiniteSet(Classes(graph))
      /\ constants = Derivable(graph, graph.inputs)
  BY DEF Annotate, detection, ConstantsInv, ConstantsExact
<1>2. CASE graph' = graph /\ phase' = "panic"
  BY <1>1, <1>2 DEF ConstantsInv, ConstantsExact
<1>3. CASE graph' = Annotated(graph, constants) /\ phase' = "search"
  <2>1. \A c \in Classes(graph) : graph.nodes[c] \in Seq(ENodeSet(graph))
    BY DEF IInv, Typed
  <2>2. Derivable(graph', graph'.inputs) = constants
    BY <1>1, <1>3, <2>1, DetectedAddsNothing
  <2>3. Classes(graph') = Classes(graph)
    BY <1>3 DEF Annotated, Classes
  <2> QED
    BY <1>1, <1>3, <2>2, <2>3 DEF ConstantsInv, ConstantsExact
<1> QED
  BY <1>1, <1>2, <1>3 DEF Annotate

\* Every other step leaves the constants and the e-graph alone.
LEMMA OtherConstants ==
  ASSUME ConstantsInv, phase \notin {"detect", "annotate"}, graph' = graph,
         constants' = constants, phase' \notin {"detect", "annotate"}
  PROVE  ConstantsInv'
BY DEF ConstantsInv, ConstantsExact

LEMMA NextConstants == IInv /\ ConstantsInv /\ [Next]_vars => ConstantsInv'
<1> SUFFICES ASSUME IInv, ConstantsInv, [Next]_vars PROVE ConstantsInv'
  OBVIOUS
<1>1. ASSUME NEW c \in work, Detect(c) PROVE ConstantsInv'
  BY <1>1, DetectConstants DEF IInv, TypeOK
<1>2. CASE DetectEnds
  BY <1>2, DetectEndsConstants
<1>3. CASE Annotate
  BY <1>3, AnnotateConstants
<1>4. CASE \/ Refuse \/ Reuse \/ EnterLoop \/ Base \/ Skip \/ Accept
           \/ CallKid \/ KidFound \/ KidFailed \/ Complete \/ Exhausted
  <2>1. phase = "search" /\ Search
    BY <1>4 DEF Refuse, Reuse, EnterLoop, Base, Skip, Accept, CallKid, KidFound,
                KidFailed, Complete, Exhausted, Searching
  <2> QED
    BY <2>1, OtherConstants DEF Search, detection
<1>5. CASE SearchEnds
  BY <1>5, OtherConstants DEF SearchEnds, detection
<1>6. ASSUME NEW n \in SelectedSet, ConvertLeaf(n) \/ ConvertNode(n) PROVE ConstantsInv'
  BY <1>6, OtherConstants DEF ConvertLeaf, ConvertNode, AddNode, detection
<1>7. CASE ConvertEnds
  BY <1>7, OtherConstants DEF ConvertEnds, detection
<1>8. CASE Finished \/ UNCHANGED vars
  BY <1>8 DEF Finished, vars, detection, ConstantsInv, ConstantsExact, AllKidsConstant
<1> QED
  BY <1>1, <1>2, <1>3, <1>4, <1>5, <1>6, <1>7, <1>8 DEF Next, Step

LEMMA ConstantsInvariant == Spec => []ConstantsInv
<1> QED
  BY InitConstants, NextConstants, Invariant, PTL DEF Spec

\* In whatever order egg gives the classes, the worklist leaves exactly the
\* classes with a term without an input as constants.
THEOREM ConstantsAreExact == Spec => []ConstantsExact
<1>1. ConstantsInv => ConstantsExact
  BY DEF ConstantsInv
<1> QED
  BY <1>1, ConstantsInvariant, PTL

\* annotate_constants panics exactly when some constant cannot be had with
\* operations alone, which takes an instruction that reads less than its pattern.
THEOREM FormsOfConstants == Spec => ConstantsHaveForms
<1> DEFINE missing == constants \ Made(graph, {})
           A == phase = "annotate" =>
                  /\ phase' = "panic" <=> missing # {}
                  /\ missing # {} =>
                       \E c \in missing : \E i \in DOMAIN graph.nodes[c] :
                         /\ graph.nodes[c][i].kind = "isa"
                         /\ ~ReadsAll(graph, c, graph.nodes[c][i])
<1>1. ASSUME IInv, ConstantsInv, [Next]_vars
      PROVE  [A]_vars
  <2>1. SUFFICES ASSUME Next, phase = "annotate", vars' # vars PROVE A
    BY <1>1
  <2>2. /\ graph \in Graphs /\ IsFiniteSet(Classes(graph))
        /\ constants = Derivable(graph, graph.inputs)
    BY <1>1, <2>1 DEF ConstantsInv, ConstantsExact
  <2>3. missing = WithoutForm(graph) /\ constants \subseteq Classes(graph)
    BY <2>2, DerivableIsLeast DEF WithoutForm
  <2>4. \A c \in constants : OpRepr(graph, c) <=> c \in Made(graph, {})
    BY <2>2, <2>3, FormsOfOperations
  <2>5. Annotate
    BY <2>1 DEF Next, Step, Detect, DetectEnds, Refuse, Reuse, EnterLoop, Base, Skip,
         Accept, CallKid, KidFound, KidFailed, Complete, Exhausted, SearchEnds, Searching,
         ConvertLeaf, ConvertNode, ConvertEnds, Finished
  <2>6. phase' = "panic" <=> missing # {}
    BY <2>4, <2>5 DEF Annotate
  <2>7. missing # {} =>
          \E c \in missing : \E i \in DOMAIN graph.nodes[c] :
            graph.nodes[c][i].kind = "isa" /\ ~ReadsAll(graph, c, graph.nodes[c][i])
    BY <2>2, <2>3, WithoutFormReadsLess, SMTT(30)
  <2> QED
    BY <2>6, <2>7
<1> QED
  BY <1>1, Invariant, ConstantsInvariant, PTL DEF Spec, ConstantsHaveForms

-----------------------------------------------------------------------------
(* What the search has tried.                                              *)

\* The classes of the first n calls.
OnStack(s, n) == {s[d].class : d \in 1 .. n}

\* The calls that have accepted an e-node: all but one that has just begun.
Accepted(s, next) == IF next \in {"call", "try"} THEN Len(s) - 1 ELSE Len(s)

\* The path has their classes, and each once.
PathOK(s, next, P) ==
  /\ P = OnStack(s, Accepted(s, next))
  /\ \A e \in 1 .. Len(s) : \A d \in 1 .. e - 1 :
       e < Len(s) \/ next # "call" => s[d].class # s[e].class

\* When form gives the class of the n-th call the buffer it is to deliver:
\* with one buffer per class, no e-node that it is past can be had without
\* the classes of the calls.
Tried(g, s, form, n) ==
  s[n].target = form[s[n].class] =>
    \A i \in DOMAIN Within(g, form).nodes[s[n].class] :
      i < s[n].node =>
        ~(KidSet(Within(g, form).nodes[s[n].class][i]) \subseteq
            Derivable(Within(g, form), OnStack(s, n)))

\* And neither can w.
Refused(g, s, form, w) ==
  form[w[1]] = w[2] => w[1] \notin Derivable(Within(g, form), OnStack(s, Len(s)))

Exhaustive(g, s, next, form) ==
  /\ \A d \in 1 .. Len(s) : Tried(g, s, form, d)
  /\ next = "no" => Refused(g, s, form, Asked(g, s, Len(s)))

SearchInv ==
  /\ phase = "search" =>
       /\ stack = <<>> => control \in {"yes", "no"}
       /\ PathOK(stack, control, path)
       /\ \A form \in [Classes(graph) -> Buffers] : Exhaustive(graph, stack, control, form)
  /\ (phase \in {"convert", "done"} \/ (phase = "panic" /\ selected # <<>>)) =>
       stack = <<>> /\ control = "yes"
  /\ FindsOneBufferExtractions

LEMMA WithinFacts ==
  ASSUME NEW g, Typed(g), NEW form
  PROVE  /\ Classes(Within(g, form)) = Classes(g) /\ IsFiniteSet(Classes(g))
         /\ \A c \in Classes(g) : \A i :
              /\ i \in DOMAIN Within(g, form).nodes[c] <=>
                   /\ i \in DOMAIN g.nodes[c]
                   /\ Supports(At(g, <<c, i>>), form[c])
                   /\ \A k \in DOMAIN At(g, <<c, i>>).kids :
                        ReadsFrom(At(g, <<c, i>>), k, form[c]) = form[At(g, <<c, i>>).kids[k]]
              /\ i \in DOMAIN Within(g, form).nodes[c] =>
                   Within(g, form).nodes[c][i] = At(g, <<c, i>>)
  BY ZenonT(40) DEF Within, Classes, At, Typed

LEMMA SameOnStack ==
  ASSUME NEW s, NEW r, NEW n \in Nat, \A d \in 1 .. n : r[d].class = s[d].class,
         NEW m \in 0 .. n
  PROVE  OnStack(r, m) = OnStack(s, m)
<1>1. \A d \in 1 .. m : d \in 1 .. n
  OBVIOUS
<1> QED
  BY <1>1 DEF OnStack

LEMMA SameTried ==
  ASSUME NEW g, NEW form, NEW s, NEW r, NEW n \in Nat,
         \A d \in 1 .. n : r[d].class = s[d].class,
         NEW d \in 1 .. n, r[d].target = s[d].target, r[d].node = s[d].node,
         Tried(g, s, form, d)
  PROVE  Tried(g, r, form, d)
<1>1. OnStack(r, d) = OnStack(s, d) /\ r[d].class = s[d].class
  BY SameOnStack
<1> QED
  BY <1>1 DEF Tried

LEMMA LastOne ==
  ASSUME NEW S, NEW s \in Seq(S), s # <<>>
  PROVE  \E n \in Nat : Len(s) = n + 1
<1>1. Len(s) - 1 \in Nat /\ Len(s) = (Len(s) - 1) + 1
  BY Popped
<1> QED
  BY <1>1

LEMMA AppendIsNotEmpty ==
  ASSUME NEW S, NEW s \in Seq(S), NEW x \in S
  PROVE  Append(s, x) # <<>>
BY AppendProperties

\* The call on top returns.
LEMMA PathReturns ==
  ASSUME NEW g, NEW s \in Seq(Frames(g)), s # <<>>, NEW next, NEW P, PathOK(s, next, P),
         NEW answer \in {"yes", "no"},
         NEW Q, Q = IF next \in {"call", "try"} THEN P ELSE P \ {s[Len(s)].class}
  PROVE  PathOK(SubSeq(s, 1, Len(s) - 1), answer, Q)
<1> DEFINE r == SubSeq(s, 1, Len(s) - 1)
<1>1. /\ r \in Seq(Frames(g)) /\ Len(r) = Len(s) - 1 /\ Len(s) \in Nat \ {0}
      /\ \A d \in 1 .. Len(s) - 1 : r[d] = s[d]
  BY Popped
<1> HIDE DEF r
<1>2. PICK n \in Nat : Len(s) = n + 1
  <2>1. Len(s) - 1 \in Nat /\ Len(s) = (Len(s) - 1) + 1
    BY <1>1
  <2> QED
    BY <2>1
<1>3. Len(r) = n /\ Len(s) - 1 = n /\ \A d \in 1 .. n : r[d] = s[d]
  BY <1>1, <1>2
<1>4. OnStack(r, n) = OnStack(s, n)
  BY <1>3, SameOnStack
<1>5. Q = OnStack(s, n)
  <2>1. CASE next \in {"call", "try"}
    BY <1>3, <2>1 DEF PathOK, Accepted
  <2>2. CASE next \notin {"call", "try"}
    <3>1. P = OnStack(s, n + 1) /\ Q = P \ {s[n + 1].class}
      BY <1>2, <2>2 DEF PathOK, Accepted
    <3>2. n + 1 \in 1 .. n + 1 /\ (n + 1) - 1 = n
      OBVIOUS
    <3>3. \A d \in 1 .. n : s[d].class # s[n + 1].class
      BY <1>2, <2>2, <3>2 DEF PathOK
    <3>4. \A d \in 1 .. n + 1 : d \in 1 .. n \/ d = n + 1
      OBVIOUS
    <3>5. \A d \in 1 .. n : d \in 1 .. n + 1
      OBVIOUS
    <3> QED
      BY <3>1, <3>3, <3>4, <3>5 DEF OnStack
  <2> QED
    BY <2>1, <2>2
<1>6. ASSUME NEW e \in 1 .. n, NEW d \in 1 .. e - 1 PROVE r[d].class # r[e].class
  <2>1. e \in 1 .. n + 1 /\ e < n + 1 /\ d \in 1 .. n
    OBVIOUS
  <2> QED
    BY <1>2, <1>3, <2>1 DEF PathOK
<1> QED
  BY <1>3, <1>4, <1>5, <1>6 DEF PathOK, Accepted, r

LEMMA TriedReturns ==
  ASSUME NEW g, NEW s \in Seq(Frames(g)), s # <<>>, NEW next, Calls(g, s, next),
         NEW form, Exhaustive(g, s, next, form), NEW answer \in {"yes", "no"},
         answer = "no" =>
           (form[s[Len(s)].class] = s[Len(s)].target =>
              s[Len(s)].class \notin Derivable(Within(g, form), OnStack(s, Len(s) - 1)))
  PROVE  Exhaustive(g, SubSeq(s, 1, Len(s) - 1), answer, form)
<1> DEFINE r == SubSeq(s, 1, Len(s) - 1)
<1>1. /\ r \in Seq(Frames(g)) /\ Len(r) = Len(s) - 1 /\ Len(s) \in Nat \ {0}
      /\ \A d \in 1 .. Len(s) - 1 : r[d] = s[d]
  BY Popped, SMTT(30)
<1> HIDE DEF r
<1>2. PICK n \in Nat : Len(s) = n + 1
  <2>1. Len(s) - 1 \in Nat /\ Len(s) = (Len(s) - 1) + 1
    BY <1>1
  <2> QED
    BY <2>1
<1>3. Len(r) = n /\ Len(s) - 1 = n /\ \A d \in 1 .. n : r[d] = s[d]
  BY <1>1, <1>2
<1>4. ASSUME NEW d \in 1 .. n PROVE Tried(g, r, form, d)
  <2>1. Tried(g, s, form, d)
    BY <1>2 DEF Exhaustive
  <2> QED
    BY <1>3, <2>1, SameTried
<1>5. ASSUME answer = "no" PROVE Refused(g, r, form, Asked(g, r, n))
  <2>1. n \in 0 .. n /\ n + 1 \in 1 .. n + 1 /\ (n + 1) - 1 = n
    OBVIOUS
  <2>2. OnStack(r, n) = OnStack(s, n) /\ Asked(g, r, n) = Asked(g, s, n)
    BY <1>3, <2>1, SameOnStack, AskedBelow
  <2>3. Asked(g, s, n) = <<s[n + 1].class, s[n + 1].target>>
    BY <1>2, <2>1 DEF Calls
  <2> QED
    BY <1>2, <1>3, <1>5, <2>2, <2>3 DEF Refused
<1> QED
  BY <1>3, <1>4, <1>5 DEF Exhaustive, r

\* The call on top goes on.
LEMMA PathGoesOn ==
  ASSUME NEW g, NEW s \in Seq(Frames(g)), s # <<>>, NEW next, NEW P, PathOK(s, next, P),
         next # "call", NEW f \in Frames(g), f.class = s[Len(s)].class,
         NEW then \in {"try", "kids"},
         NEW Q, Q = IF then = "kids" THEN P \cup {f.class} ELSE P \ {f.class}
  PROVE  PathOK(Append(SubSeq(s, 1, Len(s) - 1), f), then, Q)
<1> DEFINE r == Append(SubSeq(s, 1, Len(s) - 1), f)
<1>1. /\ r \in Seq(Frames(g)) /\ Len(r) = Len(s) /\ Len(s) \in Nat \ {0}
      /\ \A d \in 1 .. Len(s) - 1 : r[d] = s[d]
      /\ r[Len(s)] = f
  BY Replaced, SMTT(30)
<1> HIDE DEF r
<1>2. PICK n \in Nat : Len(s) = n + 1
  <2>1. Len(s) - 1 \in Nat /\ Len(s) = (Len(s) - 1) + 1
    BY <1>1
  <2> QED
    BY <2>1
<1>3. /\ \A d \in 1 .. n + 1 : d \in 1 .. n \/ d = n + 1
      /\ \A d \in 1 .. n : d \in 1 .. n + 1
      /\ n + 1 \in 1 .. n + 1 /\ (n + 1) - 1 = n
  OBVIOUS
<1>4. Len(r) = n + 1 /\ Len(s) - 1 = n /\ \A d \in 1 .. n + 1 : r[d].class = s[d].class
  BY <1>1, <1>2, <1>3
<1>5. /\ OnStack(r, n + 1) = OnStack(s, n) \cup {f.class}
      /\ OnStack(r, n) = OnStack(s, n)
      /\ OnStack(s, n + 1) = OnStack(s, n) \cup {f.class}
  BY <1>2, <1>3, <1>4 DEF OnStack
<1>6. f.class \notin OnStack(s, n)
  <2>1. \A d \in 1 .. n : s[d].class # s[n + 1].class
    BY <1>2, <1>3 DEF PathOK
  <2> QED
    BY <1>2, <2>1 DEF OnStack
<1>7. P \in {OnStack(s, n), OnStack(s, n + 1)}
  BY <1>2, <1>4 DEF PathOK, Accepted
<1>8. Q = OnStack(r, Accepted(r, then))
  <2>1. CASE then = "kids"
    <3>1. Q = OnStack(r, n + 1) /\ Accepted(r, then) = n + 1
      BY <1>4, <1>5, <1>7, <2>1 DEF Accepted
    <3> QED
      BY <3>1
  <2>2. CASE then = "try"
    <3>1. Q = OnStack(s, n)
      BY <1>5, <1>6, <1>7, <2>2
    <3>2. Accepted(r, then) = n
      BY <1>3, <1>4, <2>2 DEF Accepted
    <3> QED
      BY <1>5, <3>1, <3>2
  <2> QED
    BY <2>1, <2>2
<1>9. ASSUME NEW e \in 1 .. n + 1, NEW d \in 1 .. e - 1 PROVE r[d].class # r[e].class
  <2>1. d \in 1 .. n + 1
    OBVIOUS
  <2> QED
    BY <1>2, <1>4, <2>1 DEF PathOK
<1> QED
  BY <1>4, <1>8, <1>9 DEF PathOK, r

LEMMA TriedGoesOn ==
  ASSUME NEW g, NEW s \in Seq(Frames(g)), s # <<>>, NEW next,
         NEW form, Exhaustive(g, s, next, form),
         NEW f \in Frames(g), f.class = s[Len(s)].class, f.target = s[Len(s)].target,
         f.target = form[f.class] =>
           \A i \in DOMAIN Within(g, form).nodes[f.class] :
             i < f.node /\ ~(i < s[Len(s)].node) =>
               ~(KidSet(Within(g, form).nodes[f.class][i]) \subseteq
                   Derivable(Within(g, form), OnStack(s, Len(s)))),
         NEW then \in {"try", "kids"}
  PROVE  Exhaustive(g, Append(SubSeq(s, 1, Len(s) - 1), f), then, form)
<1> DEFINE r == Append(SubSeq(s, 1, Len(s) - 1), f)
<1>1. /\ r \in Seq(Frames(g)) /\ Len(r) = Len(s) /\ Len(s) \in Nat \ {0}
      /\ \A d \in 1 .. Len(s) - 1 : r[d] = s[d]
      /\ r[Len(s)] = f
  BY Replaced, SMTT(30)
<1> HIDE DEF r
<1>2. PICK n \in Nat : Len(s) = n + 1
  <2>1. Len(s) - 1 \in Nat /\ Len(s) = (Len(s) - 1) + 1
    BY <1>1
  <2> QED
    BY <2>1
<1>3. /\ \A d \in 1 .. n + 1 : d \in 1 .. n \/ d = n + 1
      /\ \A d \in 1 .. n : d \in 1 .. n + 1
      /\ n + 1 \in 1 .. n + 1 /\ n + 1 \in 0 .. n + 1 /\ (n + 1) - 1 = n
  OBVIOUS
<1>4. /\ Len(r) = n + 1 /\ r[n + 1] = f
      /\ \A d \in 1 .. n : r[d] = s[d]
      /\ \A d \in 1 .. n + 1 : r[d].class = s[d].class /\ r[d].target = s[d].target
  BY <1>1, <1>2, <1>3
<1>5. ASSUME NEW d \in 1 .. n PROVE Tried(g, r, form, d)
  <2>1. Tried(g, s, form, d)
    BY <1>2, <1>3 DEF Exhaustive
  <2> QED
    BY <1>4, <2>1, SameTried
<1>6. Tried(g, r, form, n + 1)
  <2>1. Tried(g, s, form, n + 1)
    BY <1>2, <1>3 DEF Exhaustive
  <2>2. n + 1 \in Nat
    OBVIOUS
  <2>3. OnStack(r, n + 1) = OnStack(s, n + 1)
    BY <1>3, <1>4, <2>2, SameOnStack
  <2> QED
    BY <1>2, <1>3, <1>4, <2>1, <2>3 DEF Tried
<1> QED
  BY <1>3, <1>4, <1>5, <1>6 DEF Exhaustive, r

\* The call on top makes a call.
LEMMA SearchDescends ==
  ASSUME NEW g, NEW s \in Seq(Frames(g)), NEW P, PathOK(s, "kids", P),
         NEW f \in Frames(g), f.node = 1
  PROVE  /\ PathOK(Append(s, f), "call", P)
         /\ \A form : Typed(g) /\ Exhaustive(g, s, "kids", form) => Exhaustive(g, Append(s, f), "call", form)
<1> DEFINE r == Append(s, f)
<1>1. PICK n \in Nat : Len(s) = n
  BY LenProperties
<1>2. /\ r \in Seq(Frames(g)) /\ Len(r) = n + 1 /\ Len(r) - 1 = n
      /\ \A d \in 1 .. n : r[d] = s[d]
      /\ r[n + 1] = f
  BY <1>1, AppendProperties
<1> HIDE DEF r
<1>3. /\ \A d \in 1 .. n + 1 : d \in 1 .. n \/ d = n + 1
      /\ n \in 0 .. n
  OBVIOUS
<1>4. PathOK(r, "call", P)
  <2>1. OnStack(r, n) = OnStack(s, n)
    BY <1>2, <1>3, SameOnStack
  <2>2. ASSUME NEW e \in 1 .. n + 1, NEW d \in 1 .. e - 1, e < n + 1
        PROVE  r[d].class # r[e].class
    <3>1. d \in 1 .. n /\ e \in 1 .. n
      BY <2>2
    <3> QED
      BY <1>1, <1>2, <3>1 DEF PathOK
  <2> QED
    BY <1>1, <1>2, <2>1, <2>2 DEF PathOK, Accepted
<1>5. ASSUME NEW form, Typed(g), Exhaustive(g, s, "kids", form)
      PROVE  Exhaustive(g, r, "call", form)
  <2>1. ASSUME NEW d \in 1 .. n PROVE Tried(g, r, form, d)
    <3>1. Tried(g, s, form, d)
      BY <1>1, <1>5 DEF Exhaustive
    <3> QED
      BY <1>2, <3>1, SameTried
  <2>2. Tried(g, r, form, n + 1)
    <3>1. f.class \in Classes(g)
      BY DEF Frames
    <3>2. \A i \in DOMAIN g.nodes[f.class] : ~(i < 1)
      <4>1. g.nodes[f.class] \in Seq(ENodeSet(g))
        BY <1>5, <3>1 DEF Typed
      <4> QED
        BY <4>1
    <3> QED
      BY <1>2, <1>5, <3>1, <3>2, WithinFacts DEF Tried
  <2> QED
    BY <1>2, <1>3, <2>1, <2>2 DEF Exhaustive
<1> QED
  BY <1>4, <1>5 DEF r

\* A step of the search keeps the invariant when the stack and the path do.
LEMMA SearchKeeps ==
  ASSUME IInv, phase = "search", Search,
         stack' = <<>> => control' \in {"yes", "no"},
         PathOK(stack', control', path'),
         \A form \in [Classes(graph) -> Buffers] : Exhaustive(graph, stack', control', form)
  PROVE  SearchInv'
<1>1. phase' = "search" /\ graph' = graph
  BY DEF Search
<1> QED
  BY <1>1 DEF SearchInv, FindsOneBufferExtractions

\* The call on top, as the lemmas above have it.
LEMMA SearchFacts ==
  ASSUME IInv, SearchInv, phase = "search", stack # <<>>
  PROVE  /\ stack \in Seq(Frames(graph)) /\ Top = stack[Len(stack)]
         /\ Below = SubSeq(stack, 1, Len(stack) - 1)
         /\ Typed(graph) /\ Calls(graph, stack, control)
         /\ PathOK(stack, control, path)
         /\ \A form \in [Classes(graph) -> Buffers] : Exhaustive(graph, stack, control, form)
BY DEF IInv, SearchInv, TypeOK, SearchOK, Top, Below

\* When the path is the classes of the calls below the one on top.
LEMMA PathBelow ==
  ASSUME NEW s, NEW n \in Nat, Len(s) = n + 1, NEW next, NEW P, PathOK(s, next, P)
  PROVE  /\ next \in {"call", "try"} => P = OnStack(s, n)
         /\ next \notin {"call", "try"} => P = OnStack(s, n + 1)
         /\ OnStack(s, n + 1) = OnStack(s, n) \cup {s[n + 1].class}
         /\ next # "call" => s[n + 1].class \notin OnStack(s, n)
<1>1. (n + 1) - 1 = n /\ n + 1 \in 1 .. n + 1
  OBVIOUS
<1>2. \A d \in 1 .. n + 1 : d \in 1 .. n \/ d = n + 1
  OBVIOUS
<1>3. \A d \in 1 .. n : d \in 1 .. n + 1
  OBVIOUS
<1>4. P = OnStack(s, Accepted(s, next))
  BY DEF PathOK
<1>5. next # "call" => \A d \in 1 .. n : s[d].class # s[n + 1].class
  BY <1>1 DEF PathOK
<1>6. Accepted(s, next) = IF next \in {"call", "try"} THEN n ELSE n + 1
  BY <1>1 DEF Accepted
<1> QED
  BY <1>1, <1>2, <1>3, <1>4, <1>5, <1>6 DEF OnStack

LEMMA RefuseSearches ==
  ASSUME IInv, SearchInv, Refuse
  PROVE  SearchInv'
<1>1. /\ phase = "search" /\ stack # <<>> /\ Search /\ control = "call"
      /\ Top.class \in path
      /\ stack' = Below /\ control' = "no" /\ path' = path
  BY DEF Refuse, Searching, OnPath, Return
<1>2. PICK n \in Nat : Len(stack) = n + 1
  BY <1>1, SearchFacts, LastOne
<1>3. Len(stack) - 1 = n
  BY <1>2
<1>4. Top.class \in OnStack(stack, n)
  BY <1>1, <1>2, SearchFacts, PathBelow
<1>5. PathOK(stack', control', path')
  BY <1>1, SearchFacts, PathReturns
<1>6. ASSUME NEW form \in [Classes(graph) -> Buffers]
      PROVE  Exhaustive(graph, stack', control', form)
  <2>1. Top.class \notin Derivable(Within(graph, form), OnStack(stack, n))
    BY <1>1, <1>4, SearchFacts, WithinFacts, DerivableIsSupported
  <2>2. Exhaustive(graph, stack, control, form)
    BY <1>1, SearchFacts
  <2>3. Exhaustive(graph, SubSeq(stack, 1, Len(stack) - 1), "no", form)
    BY <1>1, <1>3, <2>1, <2>2, SearchFacts, TriedReturns
  <2> QED
    BY <1>1, <2>3 DEF Below
<1> QED
  BY <1>1, <1>5, <1>6, SearchKeeps

LEMMA FoundSearches ==
  ASSUME IInv, SearchInv, Reuse \/ Base \/ Complete
  PROVE  SearchInv'
<1>1. /\ phase = "search" /\ stack # <<>> /\ Search /\ control \in {"call", "try", "kids"}
      /\ stack' = Below /\ control' = "yes"
      /\ path' = IF control \in {"call", "try"} THEN path ELSE path \ {Top.class}
  BY DEF Reuse, Base, Complete, Searching, Return
<1>2. PathOK(stack', control', path')
  BY <1>1, SearchFacts, PathReturns
<1>3. ASSUME NEW form \in [Classes(graph) -> Buffers]
      PROVE  Exhaustive(graph, stack', control', form)
  BY <1>1, SearchFacts, TriedReturns
<1> QED
  BY <1>1, <1>2, <1>3, SearchKeeps

\* No e-node is left: whoever fixes a buffer for each class, the class cannot
\* be had without the classes of the calls below.
LEMMA ExhaustedSearches ==
  ASSUME IInv, SearchInv, Exhausted
  PROVE  SearchInv'
<1>1. /\ phase = "search" /\ stack # <<>> /\ Search /\ control = "try"
      /\ Top.node > Len(graph.nodes[Top.class])
      /\ stack' = Below /\ control' = "no" /\ path' = path
  BY DEF Exhausted, Searching, AtEnd, Return
<1>2. PICK n \in Nat : Len(stack) = n + 1
  BY <1>1, SearchFacts, LastOne
<1>3. Len(stack) - 1 = n /\ n + 1 \in 1 .. n + 1
  BY <1>2
<1>4. OnStack(stack, n + 1) = OnStack(stack, n) \cup {Top.class}
  BY <1>1, <1>2, SearchFacts, PathBelow
<1>5. PathOK(stack', control', path')
  BY <1>1, SearchFacts, PathReturns
<1>6. Top.class \in Classes(graph) /\ Top.node \in Nat
      /\ graph.nodes[Top.class] \in Seq(ENodeSet(graph))
  BY <1>1, TopFacts
<1>7. \A i \in DOMAIN graph.nodes[Top.class] : i < Top.node
  BY <1>1, <1>6
<1>8. ASSUME NEW form \in [Classes(graph) -> Buffers]
      PROVE  Exhaustive(graph, stack', control', form)
  <2>1. ASSUME form[Top.class] = Top.target
        PROVE  Top.class \notin Derivable(Within(graph, form), OnStack(stack, n))
    <3>1. Tried(graph, stack, form, n + 1)
      BY <1>1, <1>2, <1>3, SearchFacts DEF Exhaustive
    <3>2. \A i \in DOMAIN Within(graph, form).nodes[Top.class] :
            i \in DOMAIN graph.nodes[Top.class]
      BY <1>1, <1>6, SearchFacts, WithinFacts
    <3>3. \A i \in DOMAIN Within(graph, form).nodes[Top.class] :
            ~(KidSet(Within(graph, form).nodes[Top.class][i]) \subseteq
                Derivable(Within(graph, form), OnStack(stack, n) \cup {Top.class}))
      BY <1>1, <1>2, <1>4, <1>7, <2>1, <3>1, <3>2, SearchFacts DEF Tried
    <3>4. IsFiniteSet(Classes(Within(graph, form))) /\ Top.class \in Classes(Within(graph, form))
      BY <1>1, <1>6, SearchFacts, WithinFacts
    <3> QED
      BY <3>3, <3>4, DerivableWithoutItself
  <2>2. Exhaustive(graph, stack, control, form)
    BY <1>1, SearchFacts
  <2>3. Exhaustive(graph, SubSeq(stack, 1, Len(stack) - 1), "no", form)
    BY <1>1, <1>3, <2>1, <2>2, SearchFacts, TriedReturns
  <2> QED
    BY <1>1, <2>3 DEF Below
<1> QED
  BY <1>1, <1>5, <1>8, SearchKeeps

\* An e-node is passed over: it does not deliver the class where it is wanted.
LEMMA SkipSearches ==
  ASSUME IInv, SearchInv, Skip
  PROVE  SearchInv'
<1> DEFINE f == NextNode(selected)
<1>1. /\ phase = "search" /\ stack # <<>> /\ Search /\ control = "try" /\ ~AtEnd
      /\ ~Supports(Current, Top.target)
      /\ stack' = Append(Below, f) /\ control' = "try" /\ path' = path
  BY DEF Skip, Searching
<1>2. selected \in Seq(ENodes(graph))
  BY DEF IInv, TypeOK
<1>3. /\ f \in Frames(graph) /\ f.class = Top.class /\ f.target = Top.target
      /\ f.node = Top.node + 1
  BY <1>1, <1>2, NextFrame DEF NextNode
<1> HIDE DEF f
<1>4. PICK n \in Nat : Len(stack) = n + 1
  BY <1>1, SearchFacts, LastOne
<1>5. path = path \ {f.class}
  <2>1. path = OnStack(stack, n) /\ stack[n + 1].class \notin OnStack(stack, n)
    BY <1>1, <1>4, SearchFacts, PathBelow
  <2>2. f.class = stack[n + 1].class
    BY <1>1, <1>3, <1>4, SearchFacts
  <2> QED
    BY <2>1, <2>2
<1>6. PathOK(stack', control', path')
  BY <1>1, <1>3, <1>5, SearchFacts, PathGoesOn
<1>7. Top.class \in Classes(graph) /\ Top.node \in Nat
      /\ graph.nodes[Top.class] \in Seq(ENodeSet(graph))
      /\ Current = At(graph, <<Top.class, Top.node>>)
  BY <1>1, TopFacts DEF Current, Place
<1>8. ASSUME NEW form \in [Classes(graph) -> Buffers]
      PROVE  Exhaustive(graph, stack', control', form)
  <2>1. ASSUME f.target = form[f.class], NEW i \in DOMAIN Within(graph, form).nodes[f.class],
               i < f.node, ~(i < Top.node)
        PROVE  FALSE
    <3>1. i \in DOMAIN graph.nodes[Top.class]
          /\ Supports(At(graph, <<Top.class, i>>), form[Top.class])
      BY <1>1, <1>3, <1>7, <2>1, SearchFacts, WithinFacts
    <3>2. i = Top.node
      BY <1>3, <1>7, <2>1, <3>1
    <3> QED
      BY <1>1, <1>3, <1>7, <2>1, <3>1, <3>2
  <2>2. Exhaustive(graph, stack, control, form)
    BY <1>1, SearchFacts
  <2> QED
    BY <1>1, <1>3, <2>1, <2>2, SearchFacts, TriedGoesOn
<1> QED
  BY <1>1, <1>6, <1>8, AppendIsNotEmpty, SearchFacts, SearchKeeps

LEMMA AcceptSearches ==
  ASSUME IInv, SearchInv, Accept
  PROVE  SearchInv'
<1> DEFINE f == [Top EXCEPT !.kid = 1]
<1>1. /\ phase = "search" /\ stack # <<>> /\ Search /\ control = "try"
      /\ stack' = Append(Below, f) /\ control' = "kids" /\ path' = path \cup {Top.class}
  BY DEF Accept, Searching
<1>2. Top \in Frames(graph)
  BY <1>1, TopFacts
<1>3. /\ f \in Frames(graph) /\ f.class = Top.class /\ f.target = Top.target
      /\ f.node = Top.node
  BY <1>2 DEF Frames
<1> HIDE DEF f
<1>4. PathOK(stack', control', path')
  BY <1>1, <1>3, SearchFacts, PathGoesOn
<1>5. ASSUME NEW form \in [Classes(graph) -> Buffers]
      PROVE  Exhaustive(graph, stack', control', form)
  BY <1>1, <1>3, SearchFacts, TriedGoesOn
<1> QED
  BY <1>1, <1>4, <1>5, AppendIsNotEmpty, SearchFacts, SearchKeeps

LEMMA KidFoundSearches ==
  ASSUME IInv, SearchInv, KidFound
  PROVE  SearchInv'
<1> DEFINE f == [Top EXCEPT !.kid = @ + 1]
<1>1. /\ phase = "search" /\ stack # <<>> /\ Search /\ control = "yes"
      /\ stack' = Append(Below, f) /\ control' = "kids" /\ path' = path
  BY DEF KidFound, Searching
<1>2. Top \in Frames(graph)
  BY <1>1, TopFacts
<1>3. /\ f \in Frames(graph) /\ f.class = Top.class /\ f.target = Top.target
      /\ f.node = Top.node
  BY <1>2 DEF Frames
<1> HIDE DEF f
<1>4. PICK n \in Nat : Len(stack) = n + 1
  BY <1>1, SearchFacts, LastOne
<1>5. path = path \cup {f.class}
  BY <1>1, <1>3, <1>4, SearchFacts, PathBelow
<1>6. PathOK(stack', control', path')
  BY <1>1, <1>3, <1>5, SearchFacts, PathGoesOn
<1>7. ASSUME NEW form \in [Classes(graph) -> Buffers]
      PROVE  Exhaustive(graph, stack', control', form)
  BY <1>1, <1>3, SearchFacts, TriedGoesOn
<1> QED
  BY <1>1, <1>6, <1>7, AppendIsNotEmpty, SearchFacts, SearchKeeps

\* An operand cannot be had: neither can the class, with this e-node.
LEMMA KidFailedSearches ==
  ASSUME IInv, SearchInv, KidFailed
  PROVE  SearchInv'
<1> DEFINE f == NextNode(Top.snapshot)
<1>1. /\ phase = "search" /\ stack # <<>> /\ Search /\ control = "no"
      /\ stack' = Append(Below, f) /\ control' = "try" /\ path' = path \ {Top.class}
  BY DEF KidFailed, Searching, RolledBack
<1>2. Top.snapshot \in Seq(ENodes(graph))
  BY <1>1, TopFacts
<1>3. /\ f \in Frames(graph) /\ f.class = Top.class /\ f.target = Top.target
      /\ f.node = Top.node + 1
  BY <1>1, <1>2, NextFrame DEF NextNode
<1> HIDE DEF f
<1>4. PICK n \in Nat : Len(stack) = n + 1
  BY <1>1, SearchFacts, LastOne
<1>5. PathOK(stack', control', path')
  BY <1>1, <1>3, SearchFacts, PathGoesOn
<1>6. Top.class \in Classes(graph) /\ Top.node \in Nat
      /\ graph.nodes[Top.class] \in Seq(ENodeSet(graph))
      /\ Current = At(graph, <<Top.class, Top.node>>) /\ Current = EN(graph, Top)
  BY <1>1, TopFacts DEF Current, Place
<1>7. Top.kid \in DOMAIN Current.kids
  <2>1. Waiting(graph, Top)
    BY <1>1, SearchFacts DEF Calls
  <2>2. Current.kids \in Seq(Classes(graph)) /\ Top.kid \in Nat
    BY <1>1, <2>1, CurrentFacts, TopFacts DEF Waiting
  <2> QED
    BY <1>6, <2>1, <2>2 DEF Waiting
<1>8. /\ Asked(graph, stack, Len(stack)) = <<Current.kids[Top.kid], ReadsFrom(Current, Top.kid, Top.target)>>
  BY <1>1, <1>4, <1>6, SearchFacts DEF Asked, Operand
<1>9. ASSUME NEW form \in [Classes(graph) -> Buffers]
      PROVE  Exhaustive(graph, stack', control', form)
  <2>1. ASSUME f.target = form[f.class], NEW i \in DOMAIN Within(graph, form).nodes[f.class],
               i < f.node, ~(i < Top.node)
        PROVE  ~(KidSet(Within(graph, form).nodes[f.class][i]) \subseteq
                   Derivable(Within(graph, form), OnStack(stack, Len(stack))))
    <3>1. i \in DOMAIN graph.nodes[Top.class]
      BY <1>1, <1>3, <1>6, <2>1, SearchFacts, WithinFacts
    <3>2. i = Top.node
      BY <1>3, <1>6, <2>1, <3>1
    <3>3. /\ Within(graph, form).nodes[f.class][i] = Current
          /\ ReadsFrom(Current, Top.kid, form[f.class]) = form[Current.kids[Top.kid]]
      <4>1. f.class \in Classes(graph) /\ Typed(graph) /\ At(graph, <<f.class, i>>) = Current
        BY <1>1, <1>3, <1>6, <3>2, SearchFacts
      <4>2. /\ Within(graph, form).nodes[f.class][i] = At(graph, <<f.class, i>>)
            /\ \A k \in DOMAIN At(graph, <<f.class, i>>).kids :
                 ReadsFrom(At(graph, <<f.class, i>>), k, form[f.class]) =
                   form[At(graph, <<f.class, i>>).kids[k]]
        BY <2>1, <4>1, WithinFacts
      <4> QED
        BY <1>7, <4>1, <4>2
    <3>4. Refused(graph, stack, form, Asked(graph, stack, Len(stack)))
      BY <1>1, SearchFacts DEF Exhaustive
    <3>5. Current.kids[Top.kid] \notin Derivable(Within(graph, form), OnStack(stack, Len(stack)))
      BY <1>3, <1>8, <2>1, <3>3, <3>4 DEF Refused
    <3>6. Current.kids[Top.kid] \in KidSet(Current)
      BY <1>7 DEF KidSet
    <3> QED
      BY <3>3, <3>5, <3>6
  <2>2. Exhaustive(graph, stack, control, form)
    BY <1>1, SearchFacts
  <2> QED
    BY <1>1, <1>3, <2>1, <2>2, SearchFacts, TriedGoesOn
<1> QED
  BY <1>1, <1>5, <1>9, AppendIsNotEmpty, SearchFacts, SearchKeeps

LEMMA CallKidSearches ==
  ASSUME IInv, SearchInv, CallKid, IInv'
  PROVE  SearchInv'
<1> DEFINE f == [class    |-> Current.kids[Top.kid],
                 target   |-> ReadsFrom(Current, Top.kid, Top.target),
                 node     |-> 1,
                 kid      |-> 0,
                 snapshot |-> selected]
<1>1. /\ phase = "search" /\ stack # <<>> /\ Search /\ control = "kids"
      /\ stack' = Append(stack, f)
      /\ control' = "call" /\ path' = path /\ graph' = graph
  BY DEF CallKid, Searching, Search
<1>2. f \in Frames(graph) /\ f.node = 1
  <2>1. stack' \in Seq(Frames(graph))
    BY <1>1 DEF IInv, TypeOK
  <2>2. stack \in Seq(Frames(graph))
    BY DEF IInv, TypeOK
  <2>3. Len(stack') \in 1 .. Len(stack') /\ stack'[Len(stack')] = f
    BY <1>1, <2>2
  <2>4. f \in Frames(graph)
    BY <2>1, <2>3
  <2> QED
    BY <2>4
<1> HIDE DEF f
<1>3. PathOK(stack', control', path')
  BY <1>1, <1>2, SearchFacts, SearchDescends
<1>4. ASSUME NEW form \in [Classes(graph) -> Buffers]
      PROVE  Exhaustive(graph, stack', control', form)
  BY <1>1, <1>2, SearchFacts, SearchDescends
<1> QED
  BY <1>1, <1>3, <1>4, AppendIsNotEmpty, SearchFacts, SearchKeeps

LEMMA EnterLoopSearches ==
  ASSUME IInv, SearchInv, EnterLoop
  PROVE  SearchInv'
<1>1. /\ phase = "search" /\ stack # <<>> /\ Search /\ control = "call"
      /\ Top.class \notin path
      /\ stack' = stack /\ control' = "try" /\ path' = path
  BY DEF EnterLoop, Searching, OnPath
<1>2. PICK n \in Nat : Len(stack) = n + 1
  BY <1>1, SearchFacts, LastOne
<1>3. (n + 1) - 1 = n
  BY <1>2
<1>4. Top.class \notin OnStack(stack, n)
  BY <1>1, <1>2, SearchFacts, PathBelow
<1>5. PathOK(stack', control', path')
  <2>1. PathOK(stack, "call", path)
    BY <1>1, SearchFacts
  <2>2. ASSUME NEW e \in 1 .. n + 1, NEW d \in 1 .. e - 1
        PROVE  stack[d].class # stack[e].class
    <3>1. CASE e < n + 1
      BY <1>2, <2>1, <3>1 DEF PathOK
    <3>2. CASE e = n + 1
      <4>1. d \in 1 .. n
        BY <3>2
      <4>2. stack[d].class \in OnStack(stack, n)
        BY <4>1 DEF OnStack
      <4> QED
        BY <1>1, <1>2, <1>4, <3>2, <4>2, SearchFacts
    <3> QED
      BY <3>1, <3>2
  <2> QED
    BY <1>1, <1>2, <2>1, <2>2 DEF PathOK, Accepted
<1>6. ASSUME NEW form \in [Classes(graph) -> Buffers]
      PROVE  Exhaustive(graph, stack', control', form)
  BY <1>1, SearchFacts DEF Exhaustive
<1> QED
  BY <1>1, <1>5, <1>6, SearchKeeps

\* With the root refused, and no call left, the root cannot be had.
LEMMA SearchEndsSearches ==
  ASSUME IInv, SearchInv, SearchEnds
  PROVE  SearchInv'
<1>1. /\ phase = "search" /\ stack = <<>> /\ graph' = graph
      /\ phase' = IF control = "yes" THEN "convert" ELSE "none"
      /\ control' = control /\ stack' = stack
  BY DEF SearchEnds, search
<1>2. control \in {"yes", "no"}
  BY <1>1 DEF SearchInv
<1>3. ASSUME control = "no", NEW form \in [Classes(graph) -> Buffers],
             form[graph.root] = HBM
      PROVE  graph.root \notin Derivable(Within(graph, form), {})
  <2>1. Refused(graph, stack, form, Asked(graph, stack, Len(stack)))
    BY <1>1, <1>3 DEF SearchInv, Exhaustive
  <2>2. Len(stack) = 0 /\ OnStack(stack, 0) = {}
    BY <1>1 DEF OnStack
  <2>3. Asked(graph, stack, 0) = <<graph.root, HBM>>
    BY DEF Asked
  <2>4. Refused(graph, stack, form, <<graph.root, HBM>>)
    BY <2>1, <2>2, <2>3
  <2>5. form[<<graph.root, HBM>>[1]] = <<graph.root, HBM>>[2]
    BY <1>3
  <2> QED
    BY <2>2, <2>4, <2>5 DEF Refused
<1>4. FindsOneBufferExtractions'
  BY <1>1, <1>2, <1>3 DEF FindsOneBufferExtractions
<1> QED
  BY <1>1, <1>2, <1>4 DEF SearchInv

LEMMA AnnotateSearches ==
  ASSUME IInv, Annotate, IInv'
  PROVE  SearchInv'
<1> DEFINE first == [class |-> graph.root, target |-> HBM, node |-> 1, kid |-> 0,
                     snapshot |-> selected]
<1>1. /\ phase = "annotate"
      /\ control' = control /\ path' = path /\ selected' = selected
      /\ \/ phase' = "search" /\ stack' = <<first>>
         \/ phase' = "panic"
  BY DEF Annotate, detection, output
<1>2. selected = <<>> /\ path = {} /\ control = "call"
  BY <1>1 DEF IInv, Idle
<1>3. ASSUME phase' = "search"
      PROVE  PathOK(stack', control', path')
  <2>1. stack' = <<first>> /\ Len(<<first>>) = 1 /\ 1 - 1 = 0
    BY <1>1, <1>3
  <2>2. OnStack(<<first>>, 0) = {}
    BY DEF OnStack
  <2>3. \A e \in 1 .. 1 : \A d \in 1 .. e - 1 : FALSE
    OBVIOUS
  <2> HIDE DEF first
  <2> QED
    BY <1>1, <1>2, <2>1, <2>2, <2>3 DEF PathOK, Accepted
<1>4. ASSUME phase' = "search", NEW form \in [Classes(graph') -> Buffers]
      PROVE  Exhaustive(graph', stack', control', form)
  <2>1. stack' = <<first>> /\ Len(stack') = 1 /\ stack'[1] = first /\ first.node = 1
    BY <1>1, <1>4
  <2>2. Typed(graph') /\ first \in Frames(graph')
    <3>1. stack' \in Seq(Frames(graph'))
      BY DEF IInv, TypeOK
    <3> QED
      BY <2>1, <3>1 DEF IInv
  <2> HIDE DEF first
  <2>3. first.class \in Classes(graph')
    BY <2>2 DEF Frames
  <2>4. \A i \in DOMAIN graph'.nodes[first.class] : ~(i < 1)
    <3>1. graph'.nodes[first.class] \in Seq(ENodeSet(graph'))
      BY <2>2, <2>3 DEF Typed
    <3> QED
      BY <3>1
  <2>5. Tried(graph', stack', form, 1)
    BY <2>1, <2>2, <2>3, <2>4, WithinFacts DEF Tried
  <2>6. \A d \in 1 .. 1 : d = 1
    OBVIOUS
  <2> QED
    BY <1>1, <1>2, <2>1, <2>5, <2>6 DEF Exhaustive
<1>5. phase' = "search" => stack' # <<>>
  <2>1. <<first>> # <<>>
    <3> HIDE DEF first
    <3> QED
      OBVIOUS
  <2> HIDE DEF first
  <2> QED
    BY <1>1, <2>1
<1> QED
  BY <1>1, <1>2, <1>3, <1>4, <1>5 DEF SearchInv, FindsOneBufferExtractions

LEMMA InitSearches == Init => SearchInv
  BY DEF Init, SearchInv, FindsOneBufferExtractions

LEMMA OtherSearches ==
  ASSUME IInv, SearchInv,
         \/ (\E c \in work : Detect(c)) \/ DetectEnds
         \/ \E n \in SelectedSet : ConvertLeaf(n) \/ ConvertNode(n)
         \/ ConvertEnds \/ UNCHANGED vars
  PROVE  SearchInv'
<1>1. graph' = graph /\ control' = control /\ stack' = stack /\ path' = path /\ selected' = selected
  BY DEF Detect, DetectEnds, ConvertLeaf, ConvertNode, ConvertEnds, vars, detection, search
<1>2. \/ phase' = phase
      \/ phase' \in {"detect", "annotate", "stuck"}
      \/ phase = "convert" /\ phase' \in {"done", "panic"}
  BY DEF Detect, DetectEnds, ConvertLeaf, ConvertNode, AddNode, ConvertEnds, vars
<1> QED
  BY <1>1, <1>2 DEF SearchInv, FindsOneBufferExtractions

LEMMA NextSearches == IInv /\ IInv' /\ SearchInv /\ [Next]_vars => SearchInv'
<1> SUFFICES ASSUME IInv, IInv', SearchInv, [Next]_vars PROVE SearchInv'
  OBVIOUS
<1>1. CASE \/ (\E c \in work : Detect(c)) \/ DetectEnds
           \/ \E n \in SelectedSet : ConvertLeaf(n) \/ ConvertNode(n)
           \/ ConvertEnds
  BY <1>1, OtherSearches
<1>2. CASE Annotate
  BY <1>2, AnnotateSearches
<1>3. CASE Refuse
  BY <1>3, RefuseSearches
<1>4. CASE Reuse \/ Base \/ Complete
  BY <1>4, FoundSearches
<1>5. CASE Exhausted
  BY <1>5, ExhaustedSearches
<1>6. CASE EnterLoop
  BY <1>6, EnterLoopSearches
<1>7. CASE Skip
  BY <1>7, SkipSearches
<1>8. CASE Accept
  BY <1>8, AcceptSearches
<1>9. CASE CallKid
  BY <1>9, CallKidSearches
<1>10. CASE KidFound
  BY <1>10, KidFoundSearches
<1>11. CASE KidFailed
  BY <1>11, KidFailedSearches
<1>12. CASE SearchEnds
  BY <1>12, SearchEndsSearches
<1>13. CASE Finished \/ UNCHANGED vars
  BY <1>13, OtherSearches DEF Finished
<1> QED
  BY <1>1, <1>2, <1>3, <1>4, <1>5, <1>6, <1>7, <1>8, <1>9, <1>10, <1>11, <1>12,
     <1>13 DEF Next, Step

LEMMA SearchInvariant == Spec => []SearchInv
<1> QED
  BY InitSearches, NextSearches, Invariant, PTL DEF Spec

\* Backtracking, the path and the reuse of what is selected lose nothing:
\* when get_pii_graph gives up, no choice of one buffer per class has a term
\* for the root in HBM, cyclic as the e-graph may be.
THEOREM SearchIsComplete == Spec => []FindsOneBufferExtractions
<1>1. SearchInv => FindsOneBufferExtractions
  BY DEF SearchInv
<1> QED
  BY <1>1, SearchInvariant, PTL

\* A "yes" is worth something, whatever was selected for alternatives that
\* failed and was taken back, or reused for another operand: the e-nodes that
\* are left compute the root in HBM.
THEOREM SearchIsSound == Spec => []SelectionComputesRoot
<1>1. IInv /\ SearchInv => SelectionComputesRoot
  <2> SUFFICES ASSUME IInv, SearchInv, phase = "convert"
               PROVE  <<graph.root, HBM>> \in Available(graph, SelectedSet)
    BY DEF SelectionComputesRoot
  <2>1. stack = <<>> /\ control = "yes"
    BY DEF SearchInv
  <2>2. Has(graph, selected, Asked(graph, stack, Len(stack)))
    BY <2>1 DEF IInv, SearchOK, Selections
  <2>3. Len(stack) = 0
    BY <2>1
  <2> QED
    BY <2>2, <2>3 DEF Has, Asked, Elements, SelectedSet
<1> QED
  BY <1>1, Invariant, SearchInvariant, PTL

-----------------------------------------------------------------------------
(* What has been selected for what.                                        *)

\* Of the first n calls one has found the class c.
Held(g, s, n, c) ==
  \E e \in 1 .. n : \E k \in 1 .. s[e].kid - 1 : EN(g, s[e]).kids[k] = c

\* No two e-nodes in sel are of one class.
OneNode(sel) == \A i, j \in DOMAIN sel : sel[i][1] = sel[j][1] => i = j

\* Then each has been selected for a later one, or for one of the first n
\* calls, or for a class of C.
NoJunk(g, s, n, sel, C) ==
  OneNode(sel) =>
    \A j \in DOMAIN sel :
      \/ \E i \in j + 1 .. Len(sel) : sel[j][1] \in KidSet(At(g, sel[i]))
      \/ Held(g, s, n, sel[j][1])
      \/ sel[j][1] \in C

\* What has just been found is wanted by the call on top.
Found(g, s, next) == IF next = "yes" THEN {Asked(g, s, Len(s))[1]} ELSE {}

Wants(g, s, next, sel) ==
  /\ NoJunk(g, s, Len(s), sel, Found(g, s, next))
  /\ \A d \in 1 .. Len(s) : NoJunk(g, s, d - 1, s[d].snapshot, {})

JunkInv == Wants(graph, stack, control, selected)

LEMMA HeldBelow ==
  ASSUME NEW g, NEW s, NEW r, NEW n \in Nat, \A d \in 1 .. n : r[d] = s[d],
         NEW m \in 0 .. n, NEW c
  PROVE  Held(g, r, m, c) <=> Held(g, s, m, c)
<1>1. \A e \in 1 .. m : e \in 1 .. n
  OBVIOUS
<1>2. \A e \in 1 .. m : r[e] = s[e]
  BY <1>1
<1> QED
  BY <1>2 DEF Held

LEMMA JunkMoves ==
  ASSUME NEW g, NEW s, NEW n, NEW r, NEW m, NEW sel, NEW C, NEW D,
         NoJunk(g, s, n, sel, C),
         \A c : Held(g, s, n, c) \/ c \in C => Held(g, r, m, c) \/ c \in D
  PROVE  NoJunk(g, r, m, sel, D)
BY DEF NoJunk

\* What the calls above the n-th hold matters not to what was selected before.
LEMMA JunkBelow ==
  ASSUME NEW g, NEW s, NEW r, NEW n \in Nat, \A d \in 1 .. n : r[d] = s[d],
         NEW m \in 0 .. n, NEW sel, NEW C, NoJunk(g, s, m, sel, C)
  PROVE  NoJunk(g, r, m, sel, C)
BY HeldBelow, JunkMoves

\* The operands of an e-node that is inserted are no longer held for it.
LEMMA JunkInserted ==
  ASSUME selected \in Seq(ENodes(graph)), Sound(graph, selected),
         NEW s, NEW n, NEW r, NEW m, NEW p \in ENodes(graph),
         NoJunk(graph, s, n, selected, {}),
         \A c : Held(graph, s, n, c) => Held(graph, r, m, c) \/ c \in KidSet(At(graph, p))
  PROVE  NoJunk(graph, r, m, Insert(p), {p[1]})
<1>1. PICK N \in Nat : Len(selected) = N /\ DOMAIN selected = 1 .. N
  OBVIOUS
<1>2. CASE p \in SelectedSet
  <2>1. Insert(p) = selected
    BY <1>2 DEF Insert
  <2>2. PICK i \in DOMAIN selected : selected[i] = p
    BY <1>2 DEF SelectedSet
  <2>3. ASSUME OneNode(selected), NEW j \in DOMAIN selected,
               selected[j][1] \in KidSet(At(graph, p))
        PROVE  i \in j + 1 .. Len(selected)
    <3>1. PICK k \in 1 .. i - 1 : selected[k][1] = selected[j][1]
      BY <2>2, <2>3 DEF Sound
    <3>2. k \in DOMAIN selected
      BY <1>1, <2>2, <3>1
    <3>3. k = j
      BY <2>3, <3>1, <3>2 DEF OneNode
    <3> QED
      BY <1>1, <2>2, <3>1, <3>3
  <2>4. ASSUME OneNode(selected), NEW j \in DOMAIN selected
        PROVE  \/ \E k \in j + 1 .. Len(selected) : selected[j][1] \in KidSet(At(graph, selected[k]))
               \/ Held(graph, r, m, selected[j][1])
               \/ selected[j][1] \in {p[1]}
    <3>1. \/ \E k \in j + 1 .. Len(selected) : selected[j][1] \in KidSet(At(graph, selected[k]))
          \/ Held(graph, s, n, selected[j][1])
      BY <2>4 DEF NoJunk
    <3>2. CASE selected[j][1] \in KidSet(At(graph, p))
      BY <2>2, <2>3, <2>4, <3>2
    <3> QED
      BY <3>1, <3>2
  <2> QED
    BY <2>1, <2>4 DEF NoJunk
<1>3. CASE p \notin SelectedSet
  <2> DEFINE new == Append(selected, p)
  <2>1. Insert(p) = new
    BY <1>3 DEF Insert
  <2>2. /\ Len(new) = N + 1 /\ DOMAIN new = 1 .. N + 1 /\ new[N + 1] = p
        /\ \A j \in 1 .. N : new[j] = selected[j]
    BY <1>1
  <2> HIDE DEF new
  <2>3. ASSUME OneNode(new) PROVE OneNode(selected)
    <3>1. \A j \in 1 .. N : j \in 1 .. N + 1
      OBVIOUS
    <3> QED
      BY <1>1, <2>2, <2>3, <3>1 DEF OneNode
  <2>4. ASSUME OneNode(new), NEW j \in 1 .. N + 1
        PROVE  \/ \E k \in j + 1 .. N + 1 : new[j][1] \in KidSet(At(graph, new[k]))
               \/ Held(graph, r, m, new[j][1])
               \/ new[j][1] \in {p[1]}
    <3>1. CASE j = N + 1
      BY <2>2, <3>1
    <3>2. CASE j \in 1 .. N
      <4>1. \/ \E k \in j + 1 .. N : selected[j][1] \in KidSet(At(graph, selected[k]))
            \/ Held(graph, s, n, selected[j][1])
        BY <1>1, <2>3, <2>4, <3>2 DEF NoJunk
      <4>2. ASSUME NEW k \in j + 1 .. N, selected[j][1] \in KidSet(At(graph, selected[k]))
            PROVE  \E l \in j + 1 .. N + 1 : new[j][1] \in KidSet(At(graph, new[l]))
        <5>1. k \in j + 1 .. N + 1 /\ k \in 1 .. N
          BY <3>2
        <5> QED
          BY <2>2, <3>2, <4>2, <5>1
      <4>3. N + 1 \in j + 1 .. N + 1
        BY <3>2
      <4>4. CASE selected[j][1] \in KidSet(At(graph, p))
        BY <2>2, <3>2, <4>3, <4>4
      <4> QED
        BY <2>2, <3>2, <4>1, <4>2, <4>4
    <3> QED
      BY <3>1, <3>2
  <2> QED
    BY <2>1, <2>2, <2>4 DEF NoJunk
<1> QED
  BY <1>2, <1>3

\* The call on top returns.
LEMMA WantsReturns ==
  ASSUME NEW g, NEW s \in Seq(Frames(g)), NEW n \in Nat, Len(s) = n + 1,
         NEW next, NEW sel, Wants(g, s, next, sel), NEW new, NEW answer \in {"yes", "no"},
         NoJunk(g, SubSeq(s, 1, Len(s) - 1), n, new,
                IF answer = "yes" THEN {Asked(g, s, n)[1]} ELSE {})
  PROVE  Wants(g, SubSeq(s, 1, Len(s) - 1), answer, new)
<1> DEFINE r == SubSeq(s, 1, Len(s) - 1)
<1>1. s # <<>>
  OBVIOUS
<1>2. /\ r \in Seq(Frames(g)) /\ Len(r) = Len(s) - 1
      /\ \A d \in 1 .. Len(s) - 1 : r[d] = s[d]
  BY <1>1, Popped
<1> HIDE DEF r
<1>3. Len(r) = n /\ \A d \in 1 .. n : r[d] = s[d]
  BY <1>2
<1>4. Asked(g, r, n) = Asked(g, s, n)
  <2>1. n \in 0 .. n
    OBVIOUS
  <2> QED
    BY <1>3, <2>1, AskedBelow
<1>5. ASSUME NEW d \in 1 .. n PROVE NoJunk(g, r, d - 1, r[d].snapshot, {})
  <2>1. d \in 1 .. n + 1 /\ d - 1 \in 0 .. n
    OBVIOUS
  <2>2. NoJunk(g, s, d - 1, s[d].snapshot, {})
    BY <2>1 DEF Wants
  <2>3. NoJunk(g, r, d - 1, s[d].snapshot, {})
    BY <1>3, <2>1, <2>2, JunkBelow
  <2> QED
    BY <1>3, <2>3
<1> QED
  BY <1>3, <1>4, <1>5 DEF Wants, Found, r

\* The call on top goes on.
LEMMA WantsGoesOn ==
  ASSUME NEW g, NEW s \in Seq(Frames(g)), NEW n \in Nat, Len(s) = n + 1,
         NEW next, NEW sel, Wants(g, s, next, sel), NEW new, NEW f \in Frames(g),
         NEW then \in {"try", "kids"},
         NoJunk(g, Append(SubSeq(s, 1, Len(s) - 1), f), n + 1, new, {}),
         NoJunk(g, s, n, f.snapshot, {})
  PROVE  Wants(g, Append(SubSeq(s, 1, Len(s) - 1), f), then, new)
<1> DEFINE r == Append(SubSeq(s, 1, Len(s) - 1), f)
<1>1. s # <<>>
  OBVIOUS
<1>2. /\ r \in Seq(Frames(g)) /\ Len(r) = Len(s) /\ Len(s) \in Nat \ {0}
      /\ \A d \in 1 .. Len(s) - 1 : r[d] = s[d]
      /\ r[Len(s)] = f
  BY <1>1, Replaced
<1> HIDE DEF r
<1>3. Len(r) = n + 1 /\ r[n + 1] = f /\ \A d \in 1 .. n : r[d] = s[d]
  BY <1>2
<1>4. ASSUME NEW d \in 1 .. n + 1 PROVE NoJunk(g, r, d - 1, r[d].snapshot, {})
  <2>1. d - 1 \in 0 .. n
    OBVIOUS
  <2>2. CASE d = n + 1
    <3>1. d - 1 = n /\ n \in 0 .. n
      BY <2>2
    <3>2. NoJunk(g, r, n, f.snapshot, {})
      BY <1>3, <3>1, JunkBelow
    <3> QED
      BY <1>3, <2>2, <3>1, <3>2
  <2>3. CASE d \in 1 .. n
    <3>1. NoJunk(g, s, d - 1, s[d].snapshot, {})
      BY DEF Wants
    <3> QED
      BY <1>3, <2>1, <2>3, <3>1, JunkBelow
  <2> QED
    BY <2>2, <2>3
<1> QED
  BY <1>3, <1>4 DEF Wants, Found, r

\* What a call that has accepted no e-node holds.
LEMMA HoldsNothing ==
  ASSUME NEW g, NEW s, NEW n \in Nat, s[n + 1].kid \in {0, 1}, NEW c
  PROVE  Held(g, s, n + 1, c) <=> Held(g, s, n, c)
<1>1. \A e \in 1 .. n + 1 : e \in 1 .. n \/ e = n + 1
  OBVIOUS
<1>2. \A e \in 1 .. n : e \in 1 .. n + 1
  OBVIOUS
<1>3. \A k \in 1 .. s[n + 1].kid - 1 : FALSE
  OBVIOUS
<1> QED
  BY <1>1, <1>2, <1>3 DEF Held

\* Held is monotone in the calls.
LEMMA HeldMore ==
  ASSUME NEW g, NEW s, NEW n \in Nat, NEW c, Held(g, s, n, c)
  PROVE  Held(g, s, n + 1, c)
<1>1. \A e \in 1 .. n : e \in 1 .. n + 1
  OBVIOUS
<1> QED
  BY <1>1 DEF Held

\* The call on top and what has been selected when it is there.
LEMMA JunkFacts ==
  ASSUME IInv, JunkInv, stack # <<>>
  PROVE  \E n \in Nat :
           /\ Len(stack) = n + 1 /\ Top = stack[n + 1] /\ n + 1 \in 1 .. n + 1
           /\ stack \in Seq(Frames(graph)) /\ Below = SubSeq(stack, 1, Len(stack) - 1)
           /\ \A d \in 1 .. n : Below[d] = stack[d]
           /\ NoJunk(graph, stack, n + 1, selected, Found(graph, stack, control))
           /\ NoJunk(graph, stack, n, Top.snapshot, {})
           /\ <<Top.class, Top.target>> = Asked(graph, stack, n)
           /\ control \in {"call", "try"} => Top.kid = 0
           /\ selected \in Seq(ENodes(graph)) /\ Sound(graph, selected)
<1>1. /\ stack \in Seq(Frames(graph)) /\ Calls(graph, stack, control)
      /\ selected \in Seq(ENodes(graph)) /\ Sound(graph, selected)
  BY DEF IInv, TypeOK, SearchOK, Selections
<1>2. PICK n \in Nat : Len(stack) = n + 1
  BY <1>1, LastOne
<1>3. n + 1 \in 1 .. n + 1 /\ (n + 1) - 1 = n /\ Len(stack) - 1 = n
  BY <1>2
<1>4. Top = stack[n + 1] /\ Below = SubSeq(stack, 1, Len(stack) - 1)
  BY <1>2 DEF Top, Below
<1>5. \A d \in 1 .. n : Below[d] = stack[d]
  BY <1>1, <1>3, <1>4, Popped
<1>6. /\ NoJunk(graph, stack, n + 1, selected, Found(graph, stack, control))
      /\ NoJunk(graph, stack, n, Top.snapshot, {})
  BY <1>2, <1>3, <1>4 DEF JunkInv, Wants
<1>7. /\ <<Top.class, Top.target>> = Asked(graph, stack, n)
      /\ control \in {"call", "try"} => Top.kid = 0
  BY <1>1, <1>2, <1>3, <1>4 DEF Calls
<1> QED
  BY <1>1, <1>2, <1>3, <1>4, <1>5, <1>6, <1>7

LEMMA RefuseJunk ==
  ASSUME IInv, JunkInv, Refuse \/ Exhausted \/ Reuse
  PROVE  JunkInv'
<1>1. /\ stack # <<>> /\ control \in {"call", "try"} /\ stack' = Below
      /\ control' \in {"yes", "no"} /\ selected' = selected /\ graph' = graph
  BY DEF Refuse, Exhausted, Reuse, Searching, Return, Search
<1>2. PICK n \in Nat :
           /\ Len(stack) = n + 1 /\ Top = stack[n + 1]
           /\ stack \in Seq(Frames(graph)) /\ Below = SubSeq(stack, 1, Len(stack) - 1)
           /\ \A d \in 1 .. n : Below[d] = stack[d]
           /\ NoJunk(graph, stack, n + 1, selected, Found(graph, stack, control))
           /\ Top.kid = 0
  BY <1>1, JunkFacts
<1>3. Found(graph, stack, control) = {}
  BY <1>1 DEF Found
<1>4. n \in 0 .. n
  OBVIOUS
<1>5. \A c : Held(graph, stack, n + 1, c) => Held(graph, Below, n, c)
  BY <1>2, <1>4, HoldsNothing, HeldBelow
<1>6. NoJunk(graph, Below, n, selected,
             IF control' = "yes" THEN {Asked(graph, stack, n)[1]} ELSE {})
  BY <1>2, <1>3, <1>5, JunkMoves
<1>7. Wants(graph, stack, control, selected)
  BY DEF JunkInv
<1>8. Wants(graph, SubSeq(stack, 1, Len(stack) - 1), control', selected)
  BY <1>1, <1>2, <1>6, <1>7, WantsReturns
<1> QED
  BY <1>1, <1>2, <1>8 DEF JunkInv

LEMMA InsertJunk ==
  ASSUME IInv, JunkInv, Base \/ Complete
  PROVE  JunkInv'
<1>1. /\ stack # <<>> /\ control \in {"try", "kids"} /\ stack' = Below
      /\ control' = "yes" /\ selected' = Insert(Place) /\ graph' = graph
      /\ ~AtEnd \/ Top.kid > 0
  <2>1. CASE Base
    BY <2>1 DEF Base, Searching, Return, Search
  <2>2. CASE Complete
    <3>1. stack # <<>> /\ control = "kids"
      BY <2>2 DEF Complete, Searching
    <3>2. Top.kid > 0
      BY <3>1 DEF IInv, SearchOK, Calls, Top
    <3> QED
      BY <2>2, <3>2 DEF Complete, Searching, Return, Search
  <2> QED
    BY <2>1, <2>2
<1>2. PICK n \in Nat :
           /\ Len(stack) = n + 1 /\ Top = stack[n + 1] /\ n + 1 \in 1 .. n + 1
           /\ stack \in Seq(Frames(graph)) /\ Below = SubSeq(stack, 1, Len(stack) - 1)
           /\ \A d \in 1 .. n : Below[d] = stack[d]
           /\ NoJunk(graph, stack, n + 1, selected, Found(graph, stack, control))
           /\ <<Top.class, Top.target>> = Asked(graph, stack, n)
           /\ control \in {"call", "try"} => Top.kid = 0
           /\ selected \in Seq(ENodes(graph)) /\ Sound(graph, selected)
  BY <1>1, JunkFacts
<1>3. Found(graph, stack, control) = {}
  BY <1>1 DEF Found
<1>4. n \in 0 .. n
  OBVIOUS
<1>5. /\ Place \in ENodes(graph) /\ Place[1] = Top.class /\ Current = EN(graph, Top)
      /\ At(graph, Place) = EN(graph, Top)
      /\ EN(graph, Top).kids \in Seq(Classes(graph))
  BY <1>1, CurrentFacts, TopFacts DEF Place, Current
<1>6. ASSUME NEW c, Held(graph, stack, n + 1, c)
      PROVE  Held(graph, Below, n, c) \/ c \in KidSet(At(graph, Place))
  <2>1. CASE control = "try"
    BY <1>2, <1>4, <1>6, <2>1, HoldsNothing, HeldBelow
  <2>2. CASE control = "kids"
    <3>1. PICK e \in 1 .. n + 1 : \E k \in 1 .. stack[e].kid - 1 : EN(graph, stack[e]).kids[k] = c
      BY <1>6 DEF Held
    <3>2. CASE e = n + 1
      <4>1. PICK k \in 1 .. Top.kid - 1 : EN(graph, Top).kids[k] = c
        BY <1>2, <3>1, <3>2
      <4>2. Top.kid <= 1 + Len(EN(graph, Top).kids) /\ Top.kid \in Nat
        <5>1. FrameOK(graph, Top) /\ Top.kid \in Nat
          BY <1>1, TopFacts
        <5>2. Top.kid > 0
          BY <4>1, <5>1
        <5> QED
          BY <5>1, <5>2 DEF FrameOK
      <4>3. k \in DOMAIN EN(graph, Top).kids
        BY <1>5, <4>1, <4>2
      <4> QED
        BY <1>5, <4>1, <4>3 DEF KidSet
    <3>3. CASE e \in 1 .. n
      <4>1. Held(graph, stack, n, c)
        BY <3>1, <3>3 DEF Held
      <4> QED
        BY <1>2, <1>4, <4>1, HeldBelow
    <3> QED
      BY <3>2, <3>3
  <2> QED
    BY <1>1, <2>1, <2>2
<1>7. NoJunk(graph, Below, n, Insert(Place), {Place[1]})
  BY <1>2, <1>3, <1>5, <1>6, JunkInserted
<1>8. Place[1] = Asked(graph, stack, n)[1]
  <2>1. <<Top.class, Top.target>>[1] = Top.class
    OBVIOUS
  <2> QED
    BY <1>2, <1>5, <2>1
<1>9. Wants(graph, stack, control, selected)
  BY DEF JunkInv
<1>10. Wants(graph, SubSeq(stack, 1, Len(stack) - 1), "yes", Insert(Place))
  BY <1>1, <1>2, <1>7, <1>8, <1>9, WantsReturns
<1> QED
  BY <1>1, <1>2, <1>10 DEF JunkInv

\* The call on top goes on, and holds what it needs.
LEMMA GoesOnJunk ==
  ASSUME IInv, JunkInv, NEW f \in Frames(graph), stack # <<>>, graph' = graph,
         stack' = Append(Below, f), control' \in {"try", "kids"},
         \/ /\ f.kid = 0 /\ f.snapshot = selected /\ selected' = selected /\ control = "try"
         \/ /\ f.kid = 0 /\ f.snapshot = Top.snapshot /\ selected' = Top.snapshot
         \/ /\ f = [Top EXCEPT !.kid = 1] /\ selected' = selected /\ control = "try"
         \/ /\ f = [Top EXCEPT !.kid = @ + 1] /\ selected' = selected /\ control = "yes"
  PROVE  JunkInv'
<1>1. PICK n \in Nat :
           /\ Len(stack) = n + 1 /\ Top = stack[n + 1] /\ n + 1 \in 1 .. n + 1
           /\ stack \in Seq(Frames(graph)) /\ Below = SubSeq(stack, 1, Len(stack) - 1)
           /\ NoJunk(graph, stack, n + 1, selected, Found(graph, stack, control))
           /\ NoJunk(graph, stack, n, Top.snapshot, {})
           /\ control \in {"call", "try"} => Top.kid = 0
  BY JunkFacts
<1> DEFINE r == Append(SubSeq(stack, 1, Len(stack) - 1), f)
<1>2. /\ Len(r) = Len(stack) /\ \A d \in 1 .. Len(stack) - 1 : r[d] = stack[d]
      /\ r[Len(stack)] = f
  BY Replaced, <1>1
<1>3. stack' = r
  BY <1>1
<1> HIDE DEF r
<1>4. r[n + 1] = f /\ n \in 0 .. n /\ \A d \in 1 .. n : r[d] = stack[d]
  BY <1>1, <1>2
<1>5. ASSUME NEW c, Held(graph, stack, n, c) PROVE Held(graph, r, n + 1, c)
  BY <1>4, <1>5, HeldBelow, HeldMore
<1>6. Top \in Frames(graph)
  BY TopFacts
<1>7. control = "try" => NoJunk(graph, stack, n, selected, {}) /\ NoJunk(graph, r, n + 1, selected, {})
  <2> HAVE control = "try"
  <2>1. Found(graph, stack, control) = {} /\ Top.kid = 0
    BY <1>1 DEF Found
  <2>2. \A c : Held(graph, stack, n + 1, c) => Held(graph, stack, n, c)
    BY <1>1, <2>1, HoldsNothing
  <2>3. NoJunk(graph, stack, n, selected, {})
    BY <1>1, <2>1, <2>2, JunkMoves
  <2> QED
    BY <1>5, <2>3, JunkMoves
<1>8. f.snapshot = Top.snapshot /\ selected' = Top.snapshot => NoJunk(graph, r, n + 1, selected', {})
  BY <1>1, <1>5, JunkMoves
<1>9. f = [Top EXCEPT !.kid = @ + 1] /\ control = "yes" => NoJunk(graph, r, n + 1, selected, {})
  <2> HAVE f = [Top EXCEPT !.kid = @ + 1] /\ control = "yes"
  <2>1. f.kid = Top.kid + 1 /\ Top.kid \in Nat /\ EN(graph, f) = EN(graph, Top)
    BY <1>6 DEF Frames, EN
  <2>2. Top.kid > 0
    BY <1>1 DEF IInv, SearchOK, Calls, Waiting
  <2>3. Found(graph, stack, control) = {EN(graph, Top).kids[Top.kid]}
    <3>1. Asked(graph, stack, n + 1) = Operand(graph, Top, Top.kid)
      BY <1>1 DEF Asked
    <3>2. Operand(graph, Top, Top.kid)[1] = EN(graph, Top).kids[Top.kid]
      BY DEF Operand
    <3> QED
      BY <1>1, <3>1, <3>2 DEF Found
  <2>4. ASSUME NEW c, Held(graph, stack, n + 1, c) \/ c \in Found(graph, stack, control)
        PROVE  Held(graph, r, n + 1, c)
    <3>1. CASE c \in Found(graph, stack, control)
      <4>1. EN(graph, r[n + 1]).kids[Top.kid] = c
        BY <1>4, <2>1, <2>3, <3>1
      <4>2. Top.kid \in 1 .. r[n + 1].kid - 1
        BY <1>4, <2>1, <2>2
      <4> QED
        BY <1>1, <4>1, <4>2 DEF Held
    <3>2. CASE Held(graph, stack, n + 1, c)
      <4>1. PICK e \in 1 .. n + 1 : \E k \in 1 .. stack[e].kid - 1 : EN(graph, stack[e]).kids[k] = c
        BY <3>2 DEF Held
      <4>2. CASE e = n + 1
        <5>1. PICK k \in 1 .. Top.kid - 1 : EN(graph, Top).kids[k] = c
          BY <1>1, <4>1, <4>2
        <5>2. k \in 1 .. r[n + 1].kid - 1 /\ EN(graph, r[n + 1]).kids[k] = c
          BY <1>4, <2>1, <5>1
        <5> QED
          BY <1>1, <5>2 DEF Held
      <4>3. CASE e \in 1 .. n
        <5>1. Held(graph, stack, n, c)
          BY <4>1, <4>3 DEF Held
        <5> QED
          BY <1>5, <5>1
      <4> QED
        BY <4>2, <4>3
    <3> QED
      BY <2>4, <3>1, <3>2
  <2> QED
    BY <1>1, <2>4, JunkMoves
<1>10. f = [Top EXCEPT !.kid = 1] \/ f = [Top EXCEPT !.kid = @ + 1] => f.snapshot = Top.snapshot
  BY <1>6 DEF Frames
<1>11. NoJunk(graph, r, n + 1, selected', {}) /\ NoJunk(graph, stack, n, f.snapshot, {})
  BY <1>1, <1>7, <1>8, <1>9, <1>10
<1>12. Wants(graph, stack, control, selected)
  BY DEF JunkInv
<1>13. Wants(graph, r, control', selected')
  BY <1>1, <1>11, <1>12, WantsGoesOn DEF r
<1> QED
  BY <1>3, <1>13 DEF JunkInv

LEMMA StepsJunk ==
  ASSUME IInv, JunkInv, Skip \/ Accept \/ KidFound \/ KidFailed
  PROVE  JunkInv'
<1>1. stack # <<>> /\ graph' = graph
  BY DEF Skip, Accept, KidFound, KidFailed, Searching, Search
<1>2. Top \in Frames(graph) /\ Top.snapshot \in Seq(ENodes(graph)) /\ selected \in Seq(ENodes(graph))
  BY <1>1, TopFacts DEF IInv, TypeOK
<1>3. CASE Skip
  <2> DEFINE f == NextNode(selected)
  <2>1. f \in Frames(graph) /\ f.snapshot = selected /\ f.kid = 0
    BY <1>1, <1>2, NextFrame
  <2>2. stack' = Append(Below, f) /\ control' = "try" /\ control = "try" /\ selected' = selected
    BY <1>3 DEF Skip, Searching
  <2> HIDE DEF f
  <2> QED
    BY <1>1, <2>1, <2>2, GoesOnJunk
<1>4. CASE Accept
  <2> DEFINE f == [Top EXCEPT !.kid = 1]
  <2>1. f \in Frames(graph)
    BY <1>2 DEF Frames
  <2>2. stack' = Append(Below, f) /\ control' = "kids" /\ control = "try" /\ selected' = selected
    BY <1>4 DEF Accept, Searching
  <2>3. f = [Top EXCEPT !.kid = 1]
    OBVIOUS
  <2> HIDE DEF f
  <2> QED
    BY <1>1, <2>1, <2>2, <2>3, GoesOnJunk
<1>5. CASE KidFound
  <2> DEFINE f == [Top EXCEPT !.kid = @ + 1]
  <2>1. f \in Frames(graph)
    BY <1>2 DEF Frames
  <2>2. stack' = Append(Below, f) /\ control' = "kids" /\ control = "yes" /\ selected' = selected
    BY <1>5 DEF KidFound, Searching
  <2>3. f = [Top EXCEPT !.kid = @ + 1]
    OBVIOUS
  <2> HIDE DEF f
  <2> QED
    BY <1>1, <2>1, <2>2, <2>3, GoesOnJunk
<1>6. CASE KidFailed
  <2> DEFINE f == NextNode(Top.snapshot)
  <2>1. f \in Frames(graph) /\ f.snapshot = Top.snapshot /\ f.kid = 0
    BY <1>1, <1>2, NextFrame
  <2>2. stack' = Append(Below, f) /\ control' = "try" /\ selected' = Top.snapshot
    BY <1>6 DEF KidFailed, RolledBack
  <2> HIDE DEF f
  <2> QED
    BY <1>1, <2>1, <2>2, GoesOnJunk
<1> QED
  BY <1>3, <1>4, <1>5, <1>6

LEMMA CallKidJunk ==
  ASSUME IInv, JunkInv, CallKid
  PROVE  JunkInv'
<1> DEFINE f == [class    |-> Current.kids[Top.kid],
                 target   |-> ReadsFrom(Current, Top.kid, Top.target),
                 node     |-> 1,
                 kid      |-> 0,
                 snapshot |-> selected]
<1>1. /\ control = "kids" /\ stack' = Append(stack, f)
      /\ control' = "call" /\ selected' = selected /\ graph' = graph
  BY DEF CallKid, Searching, Search
<1>2. f.kid = 0 /\ f.snapshot = selected
  OBVIOUS
<1> HIDE DEF f
<1>3. stack \in Seq(Frames(graph))
  BY DEF IInv, TypeOK
<1>4. PICK n \in Nat : Len(stack) = n
  BY <1>3
<1>5. Len(stack') = n + 1 /\ stack'[n + 1] = f /\ \A d \in 1 .. n : stack'[d] = stack[d]
  BY <1>1, <1>3, <1>4
<1>6. n \in 0 .. n /\ \A d \in 1 .. n + 1 : d = n + 1 \/ d \in 1 .. n
  OBVIOUS
<1>7. NoJunk(graph, stack, n, selected, {})
  BY <1>1, <1>4 DEF JunkInv, Wants, Found
<1>8. NoJunk(graph, stack', n, selected, {})
  BY <1>5, <1>6, <1>7, JunkBelow
<1>9. \A c : Held(graph, stack', n, c) => Held(graph, stack', n + 1, c)
  BY HeldMore
<1>10. NoJunk(graph, stack', n + 1, selected, {})
  BY <1>8, <1>9, JunkMoves
<1>11. ASSUME NEW d \in 1 .. n + 1 PROVE NoJunk(graph, stack', d - 1, stack'[d].snapshot, {})
  <2>1. CASE d = n + 1
    <3>1. d - 1 = n
      BY <2>1
    <3> QED
      BY <1>2, <1>5, <1>8, <2>1, <3>1
  <2>2. CASE d \in 1 .. n
    <3>1. d - 1 \in 0 .. n
      BY <2>2
    <3>2. NoJunk(graph, stack, d - 1, stack[d].snapshot, {})
      BY <1>4, <2>2 DEF JunkInv, Wants
    <3> QED
      BY <1>5, <2>2, <3>1, <3>2, JunkBelow
  <2> QED
    BY <1>6, <2>1, <2>2
<1> QED
  BY <1>1, <1>5, <1>10, <1>11 DEF JunkInv, Wants, Found

LEMMA NextJunk == IInv /\ JunkInv /\ [Next]_vars => JunkInv'
<1> SUFFICES ASSUME IInv, JunkInv, [Next]_vars PROVE JunkInv'
  OBVIOUS
<1>1. CASE \/ (\E c \in work : Detect(c)) \/ DetectEnds \/ SearchEnds
           \/ \E n \in SelectedSet : ConvertLeaf(n) \/ ConvertNode(n)
           \/ ConvertEnds \/ Finished \/ UNCHANGED vars
  <2>1. graph' = graph /\ control' = control /\ stack' = stack /\ selected' = selected
    BY <1>1 DEF Detect, DetectEnds, SearchEnds, ConvertLeaf, ConvertNode, ConvertEnds,
                Finished, vars, search
  <2> QED
    BY <2>1 DEF JunkInv
<1>2. CASE Annotate
  <2> DEFINE first == [class |-> graph.root, target |-> HBM, node |-> 1, kid |-> 0,
                       snapshot |-> selected]
  <2>1. phase = "annotate" /\ control' = control /\ selected' = selected /\ stack' \in {stack, <<first>>}
    BY <1>2 DEF Annotate
  <2>2. stack = <<>> /\ selected = <<>> /\ control = "call"
    BY <2>1 DEF IInv, Idle
  <2>3. first.snapshot = <<>>
    BY <2>2
  <2> HIDE DEF first
  <2>4. \A n \in Nat : \A s : NoJunk(graph', s, n, <<>>, {})
    BY DEF NoJunk
  <2>5. CASE stack' = <<>>
    <3>1. Len(<<>>) = 0 /\ 0 \in Nat /\ \A d \in 1 .. 0 : FALSE
      OBVIOUS
    <3> QED
      BY <2>1, <2>2, <2>4, <2>5, <3>1 DEF JunkInv, Wants, Found
  <2>6. CASE stack' = <<first>>
    <3>1. /\ Len(<<first>>) = 1 /\ <<first>>[1] = first /\ 1 - 1 = 0 /\ 0 \in Nat /\ 1 \in Nat
          /\ \A d \in 1 .. 1 : d = 1
      OBVIOUS
    <3> QED
      BY <2>1, <2>2, <2>3, <2>4, <2>6, <3>1 DEF JunkInv, Wants, Found
  <2> QED
    BY <2>1, <2>2, <2>5, <2>6
<1>3. CASE Refuse \/ Exhausted \/ Reuse
  BY <1>3, RefuseJunk
<1>4. CASE Base \/ Complete
  BY <1>4, InsertJunk
<1>5. CASE Skip \/ Accept \/ KidFound \/ KidFailed
  BY <1>5, StepsJunk
<1>6. CASE CallKid
  BY <1>6, CallKidJunk
<1>7. CASE EnterLoop
  <2>1. /\ control = "call" /\ control' = "try"
        /\ graph' = graph /\ stack' = stack /\ selected' = selected
    BY <1>7 DEF EnterLoop, Searching, Search
  <2> QED
    BY <2>1 DEF JunkInv, Wants, Found
<1> QED
  BY <1>1, <1>2, <1>3, <1>4, <1>5, <1>6, <1>7 DEF Next, Step

-----------------------------------------------------------------------------
(* What the result needs.                                                  *)

\* One round of Wanted.
Want == [H \in SUBSET Pairs(graph) |-> H \cup UNION {Reads(w) : w \in H}]

LEMMA ReadsFacts ==
  ASSUME Typed(graph), selected \in Seq(ENodes(graph)), NEW w \in Pairs(graph)
  PROVE  /\ Reads(w) \subseteq Pairs(graph)
         /\ \A v : v \in Reads(w) <=>
              \E n \in SelectedSet :
                /\ n[1] = w[1] /\ Supports(At(graph, n), w[2])
                /\ \E k \in DOMAIN At(graph, n).kids :
                     v = <<At(graph, n).kids[k], ReadsFrom(At(graph, n), k, w[2])>>
<1>1. \A v : v \in Reads(w) <=>
        \E n \in SelectedSet :
          /\ n[1] = w[1] /\ Supports(At(graph, n), w[2])
          /\ \E k \in DOMAIN At(graph, n).kids :
               v = <<At(graph, n).kids[k], ReadsFrom(At(graph, n), k, w[2])>>
  BY DEF Reads
<1>2. ASSUME NEW n \in SelectedSet, n[1] = w[1], Supports(At(graph, n), w[2]),
             NEW k \in DOMAIN At(graph, n).kids
      PROVE  <<At(graph, n).kids[k], ReadsFrom(At(graph, n), k, w[2])>> \in Pairs(graph)
  <2>1. n \in ENodes(graph)
    BY DEF SelectedSet
  <2>2. /\ n = <<n[1], n[2]>> /\ n[1] \in Classes(graph) /\ n[2] \in DOMAIN graph.nodes[n[1]]
        /\ At(graph, n).kids \in Seq(Classes(graph))
    BY <2>1, ENodePairs
  <2>3. k \in 1 .. Len(At(graph, n).kids) /\ At(graph, n).kids[k] \in Classes(graph)
    BY <2>2
  <2>4. w[2] \in Buffers /\ At(graph, n).bufs # <<>>
    BY <1>2 DEF Pairs, Supports
  <2>5. ReadsFrom(At(graph, n), k, w[2]) \in Buffers
    BY <2>2, <2>3, <2>4, ReadsFromBuffer
  <2> QED
    BY <2>3, <2>5 DEF Pairs
<1>3. ASSUME NEW v \in Reads(w) PROVE v \in Pairs(graph)
  <2>1. PICK n \in SelectedSet :
          /\ n[1] = w[1] /\ Supports(At(graph, n), w[2])
          /\ \E k \in DOMAIN At(graph, n).kids :
               v = <<At(graph, n).kids[k], ReadsFrom(At(graph, n), k, w[2])>>
    BY <1>1
  <2> QED
    BY <1>2, <2>1
<1> QED
  BY <1>1, <1>3

LEMMA WantedInRounds ==
  ASSUME Typed(graph), selected \in Seq(ENodes(graph))
  PROVE  \E r \in [0 .. Len(selected) -> SUBSET Pairs(graph)] :
           /\ IsRounds(r, Len(selected), {<<graph.root, HBM>>}, Want)
           /\ Wanted = r[Len(selected)]
<1> DEFINE N == Len(selected)
           P == Pairs(graph)
           S == {<<graph.root, HBM>>}
           Body(r) == [k \in 0 .. N |->
                         IF k = 0 THEN S
                         ELSE LET have == r[k - 1] IN have \cup UNION {Reads(w) : w \in have}]
           r == CHOOSE r : r = Body(r)
<1>1. N \in Nat /\ S \in SUBSET P
  BY HBMIsABuffer DEF Pairs, Typed
<1>2. Want \in [SUBSET P -> SUBSET P]
  <2>1. ASSUME NEW H \in SUBSET P PROVE H \cup UNION {Reads(w) : w \in H} \in SUBSET P
    BY ReadsFacts
  <2> QED
    BY <2>1 DEF Want
<1>3. Wanted = r[N]
  BY DEF Wanted
<1>4. \A H \in SUBSET P : Want[H] = H \cup UNION {Reads(w) : w \in H}
  BY DEF Want
<1> HIDE DEF N, P, S
<1>5. \A k \in 0 .. N : k # 0 => k - 1 \in 0 .. N
  BY <1>1
<1>6. \E q : q = Body(q)
  <2>1. PICK q \in [0 .. N -> SUBSET P] : IsRounds(q, N, S, Want)
    BY <1>1, <1>2, RoundsExist
  <2>2. \A k \in 0 .. N : k # 0 => q[k - 1] \in SUBSET P
    BY <1>5
  <2>3. q = [k \in 0 .. N |-> IF k = 0 THEN S ELSE Want[q[k - 1]]]
    BY <2>1 DEF IsRounds
  <2>4. \A k \in 0 .. N : (IF k = 0 THEN S ELSE Want[q[k - 1]]) = Body(q)[k]
    BY <1>4, <2>2
  <2>5. q = Body(q)
    BY <2>3, <2>4
  <2> QED
    BY <2>5
<1>7. r = Body(r)
  <2> HIDE DEF Body
  <2> QED
    BY <1>6
<1> HIDE DEF r
<1>8. \A k \in 0 .. N : r[k] = IF k = 0 THEN S
                               ELSE LET have == r[k - 1] IN have \cup UNION {Reads(w) : w \in have}
  BY <1>7
<1>9. r = [k \in 0 .. N |-> r[k]]
  BY <1>7
<1>10. r[0] = S
  <2>1. 0 \in 0 .. N
    BY <1>1
  <2> QED
    BY <1>8, <2>1
<1>11. \A k \in 1 .. N : r[k - 1] \in SUBSET P => r[k] = Want[r[k - 1]]
  <2>1. \A k \in 1 .. N : k \in 0 .. N /\ k # 0
    BY <1>1
  <2> QED
    BY <1>4, <1>8, <2>1
<1> DEFINE F == Want
<1>12. F \in [SUBSET P -> SUBSET P] /\ \A k \in 1 .. N : r[k - 1] \in SUBSET P => r[k] = F[r[k - 1]]
  BY <1>2, <1>11
<1> HIDE DEF F
<1>13. r \in [0 .. N -> SUBSET P] /\ IsRounds(r, N, S, F)
  BY <1>1, <1>9, <1>10, <1>12, RoundsAreTyped
<1> QED
  BY <1>3, <1>13 DEF N, P, S, F

\* When the selected e-nodes compute the root and each class is computed in one
\* form, and no e-node is junk: what is wanted of a selected class is one
\* buffer, the e-node delivers it there, and its operands are wanted where it
\* reads them.
LEMMA WantedFacts ==
  ASSUME Typed(graph), selected \in Seq(ENodes(graph)),
         Sound(graph, selected), Has(graph, selected, <<graph.root, HBM>>),
         Wants(graph, <<>>, "yes", selected), OneFormPerClass
  PROVE  /\ <<graph.root, HBM>> \in Wanted /\ Wanted \subseteq Pairs(graph)
         /\ \A n \in SelectedSet : \E b \in Buffers : <<n[1], b>> \in Wanted
         /\ \A n \in SelectedSet : \A b : <<n[1], b>> \in Wanted =>
              /\ Supports(At(graph, n), b)
              /\ \A k \in DOMAIN At(graph, n).kids :
                   <<At(graph, n).kids[k], ReadsFrom(At(graph, n), k, b)>> \in Wanted
<1> DEFINE N == Len(selected)
           P == Pairs(graph)
<1>1. PICK r \in [0 .. N -> SUBSET P] :
        IsRounds(r, N, {<<graph.root, HBM>>}, Want) /\ Wanted = r[N]
  BY WantedInRounds
<1>2. N \in Nat /\ DOMAIN selected = 1 .. N
  OBVIOUS
<1>3. \A H \in SUBSET P : Want[H] = H \cup UNION {Reads(w) : w \in H}
  BY DEF Want
<1> HIDE DEF N
<1>4. /\ r[0] = {<<graph.root, HBM>>}
      /\ \A k \in 1 .. N : /\ k - 1 \in 0 .. N /\ k \in 0 .. N
                           /\ r[k] = r[k - 1] \cup UNION {Reads(w) : w \in r[k - 1]}
  <2>1. \A k \in 0 .. N : r[k] = IF k = 0 THEN {<<graph.root, HBM>>} ELSE Want[r[k - 1]]
    BY <1>1 DEF IsRounds
  <2>2. 0 \in 0 .. N /\ \A k \in 1 .. N : k \in 0 .. N /\ k # 0 /\ k - 1 \in 0 .. N
    BY <1>2
  <2>3. r[0] = {<<graph.root, HBM>>}
    BY <2>1, <2>2
  <2>4. ASSUME NEW k \in 1 .. N
        PROVE  r[k] = r[k - 1] \cup UNION {Reads(w) : w \in r[k - 1]}
    <3>1. r[k] = Want[r[k - 1]] /\ r[k - 1] \in SUBSET P
      BY <1>1, <2>1, <2>2
    <3> QED
      BY <1>3, <3>1
  <2> QED
    BY <2>2, <2>3, <2>4
<1>5. \A j, k \in 0 .. N : j <= k => r[j] \subseteq r[k]
  <2> DEFINE Bad == {k \in 0 .. N : \E j \in 0 .. k : ~(r[j] \subseteq r[k])}
  <2>1. ASSUME Bad # {} PROVE FALSE
    <3>1. Bad \in SUBSET Nat
      BY <1>2
    <3> HIDE DEF Bad
    <3>2. PICK m \in Bad : \A k \in Bad : m <= k
      BY <2>1, <3>1, LeastElement
    <3> USE DEF Bad
    <3>3. PICK j \in 0 .. m : ~(r[j] \subseteq r[m])
      OBVIOUS
    <3>4. m \in 0 .. N /\ j # m
      BY <3>3
    <3>5. m \in 1 .. N /\ m - 1 \in 0 .. N /\ ~(m <= m - 1) /\ j \in 0 .. m - 1
      BY <1>2, <3>3, <3>4
    <3>6. r[j] \subseteq r[m - 1]
      BY <3>2, <3>5
    <3> QED
      BY <1>4, <3>3, <3>5, <3>6
  <2>2. \A j, k \in 0 .. N : j <= k => j \in 0 .. k
    BY <1>2
  <2> QED
    BY <2>1, <2>2
<1>6. /\ Wanted = r[N] /\ N \in 0 .. N /\ 0 \in 0 .. N
      /\ \A k \in 0 .. N : r[k] \subseteq Wanted /\ r[k] \in SUBSET P
  BY <1>1, <1>2, <1>5
\* Whatever is wanted is available.
<1>7. Wanted \subseteq Available(graph, SelectedSet)
  <2> DEFINE A == Available(graph, SelectedSet)
             Bad == {k \in 0 .. N : ~(r[k] \subseteq A)}
  <2>1. <<graph.root, HBM>> \in A /\ Elements(selected) = SelectedSet
    BY DEF Has, Elements, SelectedSet
  <2>2. ASSUME NEW w \in A, w \in P PROVE Reads(w) \subseteq A
    <3>1. Delivers(graph, SelectedSet, w, A)
      BY AvailableIsDelivered DEF Typed
    <3>2. PICK n \in SelectedSet :
            /\ n[1] = w[1]
            /\ \A k \in DOMAIN At(graph, n).kids :
                 <<At(graph, n).kids[k], ReadsFrom(At(graph, n), k, w[2])>> \in A
      BY <3>1 DEF Delivers
    <3>3. \A m \in SelectedSet : m[1] = w[1] => m = n
      BY <3>2 DEF OneFormPerClass
    <3> HIDE DEF A, P
    <3>4. ASSUME NEW v \in Reads(w) PROVE v \in A
      <4>1. PICK m \in SelectedSet :
              /\ m[1] = w[1]
              /\ \E k \in DOMAIN At(graph, m).kids :
                   v = <<At(graph, m).kids[k], ReadsFrom(At(graph, m), k, w[2])>>
        BY <2>2, ReadsFacts DEF P
      <4> QED
        BY <3>2, <3>3, <4>1
    <3> QED
      BY <3>4
  <2>3. ASSUME Bad # {} PROVE FALSE
    <3>1. Bad \in SUBSET Nat
      BY <1>2
    <3> HIDE DEF Bad
    <3>2. PICK m \in Bad : \A k \in Bad : m <= k
      BY <2>3, <3>1, LeastElement
    <3> USE DEF Bad
    <3>3. m \in 0 .. N /\ ~(r[m] \subseteq A)
      OBVIOUS
    <3> HIDE DEF A
    <3>4. m # 0
      BY <1>4, <2>1, <3>3
    <3>5. m \in 1 .. N /\ m - 1 \in 0 .. N /\ ~(m <= m - 1)
      BY <1>2, <3>3, <3>4
    <3>6. r[m - 1] \subseteq A /\ r[m - 1] \in SUBSET P
      BY <1>6, <3>2, <3>5
    <3>7. \A w \in r[m - 1] : Reads(w) \subseteq A
      BY <2>2, <3>6
    <3>8. r[m] = r[m - 1] \cup UNION {Reads(w) : w \in r[m - 1]}
      BY <1>4, <3>5
    <3> QED
      BY <3>3, <3>6, <3>7, <3>8
  <2> QED
    BY <1>6, <2>3
\* A selected e-node delivers what is wanted of its class.
<1>8. ASSUME NEW n \in SelectedSet, NEW b, <<n[1], b>> \in Wanted
      PROVE  Supports(At(graph, n), b)
  <2>1. Delivers(graph, SelectedSet, <<n[1], b>>, Available(graph, SelectedSet))
    BY <1>7, <1>8, AvailableIsDelivered DEF Typed
  <2>2. PICK m \in SelectedSet : m[1] = n[1] /\ Supports(At(graph, m), b)
    BY <2>1 DEF Delivers
  <2>3. m = n
    BY <2>2 DEF OneFormPerClass
  <2> QED
    BY <2>2, <2>3
<1>9. ASSUME NEW i \in 1 .. N, NEW b, <<selected[i][1], b>> \in r[N - i]
      PROVE  \A k \in DOMAIN At(graph, selected[i]).kids :
               <<At(graph, selected[i]).kids[k], ReadsFrom(At(graph, selected[i]), k, b)>>
                 \in r[N - i + 1]
  <2>1. N - i \in 0 .. N /\ N - i + 1 \in 1 .. N /\ (N - i + 1) - 1 = N - i
    BY <1>2
  <2>2. selected[i] \in SelectedSet
    BY <1>2 DEF SelectedSet
  <2>3. Supports(At(graph, selected[i]), b) /\ <<selected[i][1], b>> \in P
    BY <1>6, <1>8, <1>9, <2>1, <2>2
  <2> DEFINE w == <<selected[i][1], b>>
  <2>4. w[1] = selected[i][1] /\ w[2] = b /\ w \in P /\ w \in r[N - i]
    BY <1>9, <2>3
  <2> HIDE DEF w
  <2>5. \A k \in DOMAIN At(graph, selected[i]).kids :
          <<At(graph, selected[i]).kids[k], ReadsFrom(At(graph, selected[i]), k, b)>> \in Reads(w)
    BY <2>2, <2>3, <2>4, ReadsFacts
  <2>6. r[N - i + 1] = r[N - i] \cup UNION {Reads(v) : v \in r[N - i]}
    BY <1>4, <2>1
  <2> QED
    BY <2>4, <2>5, <2>6
\* Each is wanted, the later in an earlier round.
<1>10. \A j \in 1 .. N : \E b \in Buffers : <<selected[j][1], b>> \in r[N - j]
  <2> DEFINE Bad == {m \in 0 .. N : m < N /\ ~ \E b \in Buffers : <<selected[N - m][1], b>> \in r[m]}
  <2>1. ASSUME Bad # {} PROVE FALSE
    <3>1. Bad \in SUBSET Nat
      BY <1>2
    <3> HIDE DEF Bad
    <3>2. PICK m \in Bad : \A k \in Bad : m <= k
      BY <2>1, <3>1, LeastElement
    <3> USE DEF Bad
    <3>3. m \in 0 .. N /\ m < N /\ ~ \E b \in Buffers : <<selected[N - m][1], b>> \in r[m]
      OBVIOUS
    <3> HIDE DEF Bad
    <3> DEFINE j == N - m
    <3>4. j \in 1 .. N /\ N - j = m
      BY <1>2, <3>3
    <3>5. ASSUME NEW i \in j + 1 .. N, selected[j][1] \in KidSet(At(graph, selected[i]))
          PROVE  FALSE
      <4>1. N - i \in 0 .. N /\ N - i < m /\ N - i < N /\ N - (N - i) = i /\ i \in 1 .. N
            /\ N - i + 1 <= m /\ N - i + 1 \in 0 .. N /\ ~(m <= N - i)
        BY <1>2, <3>3, <3>4
      <4>2. N - i \notin Bad
        BY <3>2, <4>1
      <4>3. PICK b \in Buffers : <<selected[i][1], b>> \in r[N - i]
        BY <4>1, <4>2 DEF Bad
      <4>4. PICK k \in DOMAIN At(graph, selected[i]).kids :
              At(graph, selected[i]).kids[k] = selected[j][1]
        BY <3>5 DEF KidSet
      <4>5. <<selected[j][1], ReadsFrom(At(graph, selected[i]), k, b)>> \in r[N - i + 1]
        BY <1>9, <4>1, <4>3, <4>4
      <4>6. r[N - i + 1] \subseteq r[m] /\ r[m] \in SUBSET P
        BY <1>5, <1>6, <3>3, <4>1
      <4>7. ReadsFrom(At(graph, selected[i]), k, b) \in Buffers
        BY <4>5, <4>6 DEF Pairs
      <4> QED
        BY <3>3, <4>5, <4>6, <4>7
    <3>6. selected[j][1] = graph.root
      <4>1. OneNode(selected)
        <5>1. \A i \in DOMAIN selected : selected[i] \in SelectedSet
          BY DEF SelectedSet
        <5>2. \A i, k \in DOMAIN selected :
                selected[i][1] = selected[k][1] => selected[i] = selected[k]
          BY <5>1 DEF OneFormPerClass
        <5> QED
          BY <5>2 DEF OneNode, Sound
      <4>2. NoJunk(graph, <<>>, 0, selected, {graph.root})
        <5>1. Len(<<>>) = 0
          OBVIOUS
        <5>2. Asked(graph, <<>>, 0)[1] = graph.root
          BY DEF Asked
        <5>3. Found(graph, <<>>, "yes") = {graph.root}
          BY <5>1, <5>2 DEF Found
        <5> QED
          BY <5>1, <5>3 DEF Wants
      <4>3. ~Held(graph, <<>>, 0, selected[j][1])
        BY DEF Held
      <4> QED
        BY <1>2, <3>4, <3>5, <4>1, <4>2, <4>3 DEF NoJunk, N
    <3>7. <<selected[j][1], HBM>> \in r[m]
      BY <1>4, <1>5, <1>6, <3>3, <3>6
    <3> QED
      BY <3>3, <3>7, HBMIsABuffer
  <2>2. \A j \in 1 .. N : N - j \in 0 .. N /\ N - j < N /\ N - (N - j) = j
    BY <1>2
  <2> QED
    BY <2>1, <2>2
<1>11. ASSUME NEW n \in SelectedSet PROVE \E b \in Buffers : <<n[1], b>> \in Wanted
  <2>1. PICK j \in 1 .. N : n = selected[j]
    BY <1>2 DEF SelectedSet
  <2>2. N - j \in 0 .. N
    BY <1>2
  <2> QED
    BY <1>6, <1>10, <2>1, <2>2
<1>12. ASSUME NEW n \in SelectedSet, NEW b, <<n[1], b>> \in Wanted
       PROVE  \A k \in DOMAIN At(graph, n).kids :
                <<At(graph, n).kids[k], ReadsFrom(At(graph, n), k, b)>> \in Wanted
  <2>1. PICK j \in 1 .. N : n = selected[j]
    BY <1>2 DEF SelectedSet
  <2>2. PICK d \in Buffers : <<selected[j][1], d>> \in r[N - j]
    BY <1>10
  <2>3. N - j \in 0 .. N /\ N - j + 1 \in 0 .. N
    BY <1>2
  <2>4. <<n[1], d>> \in Wanted
    BY <1>6, <2>1, <2>2, <2>3
  <2>5. <<n[1], d>> = <<n[1], b>>
    <3> DEFINE v == <<n[1], d>>  w == <<n[1], b>>
    <3>1. v \in Wanted /\ w \in Wanted /\ v[1] = w[1]
      BY <1>12, <2>4
    <3> HIDE DEF v, w
    <3>2. v = w
      BY <3>1 DEF OneFormPerClass
    <3> QED
      BY <3>2 DEF v, w
  <2>6. d = b
    BY <2>5
  <2> QED
    BY <1>6, <1>9, <2>1, <2>2, <2>3, <2>6
<1>13. <<graph.root, HBM>> \in Wanted /\ Wanted \subseteq P
  BY <1>4, <1>6
<1> QED
  BY <1>8, <1>11, <1>12, <1>13

-----------------------------------------------------------------------------
(* The lines of the result.                                                *)

ConvInv ==
  /\ \A t \in DOMAIN pii :
       pii[t].node \in SelectedSet /\ DOMAIN pii[t].rhs = DOMAIN At(graph, pii[t].node).kids
  /\ \A t, u \in DOMAIN pii : pii[t].node = pii[u].node => t = u
  /\ phase = "panic" /\ selected = <<>> => pii = <<>>
  /\ phase = "done" => SelectedSet \subseteq Converted
  /\ OneFormPerClass /\ selected # <<>> =>
       /\ phase # "panic"
       /\ \A t \in DOMAIN pii : <<pii[t].node[1], pii[t].buffer>> \in Wanted

LEMMA WantedStays ==
  ASSUME graph' = graph, selected' = selected
  PROVE  /\ Wanted' = Wanted /\ SelectedSet' = SelectedSet
         /\ OneFormPerClass' <=> OneFormPerClass
<1>1. SelectedSet' = SelectedSet
  BY DEF SelectedSet
<1>2. Wanted' = Wanted
  BY <1>1 DEF Wanted, Reads
<1>3. OneFormPerClass' <=> OneFormPerClass
  BY <1>1, <1>2 DEF OneFormPerClass
<1> QED
  BY <1>1, <1>2, <1>3

\* After the search, what is wanted.
LEMMA WantedNow ==
  ASSUME IInv, SearchInv, JunkInv, OneFormPerClass,
         phase \in {"convert", "done"} \/ (phase = "panic" /\ selected # <<>>)
  PROVE  /\ <<graph.root, HBM>> \in Wanted /\ Wanted \subseteq Pairs(graph)
         /\ \A n \in SelectedSet : \E b \in Buffers : <<n[1], b>> \in Wanted
         /\ \A n \in SelectedSet : \A b : <<n[1], b>> \in Wanted =>
              /\ Supports(At(graph, n), b)
              /\ \A k \in DOMAIN At(graph, n).kids :
                   <<At(graph, n).kids[k], ReadsFrom(At(graph, n), k, b)>> \in Wanted
<1>1. stack = <<>> /\ control = "yes"
  BY DEF SearchInv
<1>2. Typed(graph) /\ selected \in Seq(ENodes(graph)) /\ Sound(graph, selected)
  BY DEF IInv, TypeOK, SearchOK, Selections
<1>3. Has(graph, selected, Asked(graph, <<>>, Len(<<>>)))
  BY <1>1 DEF IInv, SearchOK, Selections
<1>4. Len(<<>>) = 0 /\ Asked(graph, <<>>, 0) = <<graph.root, HBM>>
  BY DEF Asked
<1>5. Wants(graph, <<>>, "yes", selected)
  BY <1>1 DEF JunkInv
<1> QED
  BY <1>2, <1>3, <1>4, <1>5, WantedFacts

\* With one buffer per class, what is wanted of a class says which.
LEMMA OneBuffer ==
  ASSUME OneFormPerClass, NEW c, NEW b, NEW d, <<c, b>> \in Wanted, <<c, d>> \in Wanted
  PROVE  b = d
<1> DEFINE v == <<c, b>>  w == <<c, d>>
<1>1. v[1] = w[1] /\ v \in Wanted /\ w \in Wanted
  OBVIOUS
<1> HIDE DEF v, w
<1>2. v = w
  BY <1>1 DEF OneFormPerClass
<1> QED
  BY <1>2 DEF v, w

\* The line of an e-node has the buffer that is wanted of its class.
LEMMA LineBufferIsWanted ==
  ASSUME IInv, SearchInv, JunkInv, ConvInv, OneFormPerClass, phase = "convert",
         NEW n \in SelectedSet, \A c \in KidSet(At(graph, n)) : eclass_map[c] # 0
  PROVE  \E b \in Buffers : LineBuffers(n) = {b} /\ <<n[1], b>> \in Wanted
<1> DEFINE en == At(graph, n)
<1>1. PICK b \in Buffers : <<n[1], b>> \in Wanted
  BY WantedNow
<1>2. /\ Supports(en, b)
      /\ \A k \in DOMAIN en.kids : <<en.kids[k], ReadsFrom(en, k, b)>> \in Wanted
  BY <1>1, WantedNow
<1>3. CASE en.bufs[1] # ANY
  BY <1>1, <1>2, <1>3 DEF LineBuffers, Supports
<1>4. CASE en.bufs[1] = ANY
  <2>1. selected # <<>>
    BY DEF SelectedSet
  <2>2. /\ n \in ENodes(graph)
        /\ \A k \in DOMAIN Operands(n) :
             /\ Operands(n)[k] \in DOMAIN pii
             /\ pii[Operands(n)[k]].node[1] = en.kids[k]
    BY OperandsAreLines
  <2>3. DOMAIN Operands(n) = DOMAIN en.kids
    BY DEF Operands
  <2>4. ASSUME NEW k \in DOMAIN en.kids
        PROVE  pii[Operands(n)[k]].buffer = b
    <3>1. <<en.kids[k], pii[Operands(n)[k]].buffer>> \in Wanted
      BY <2>1, <2>2, <2>3 DEF ConvInv
    <3>2. <<en.kids[k], b>> \in Wanted
      BY <1>2, <1>4 DEF ReadsFrom
    <3> QED
      BY <3>1, <3>2, OneBuffer
  <2>5. \E k \in DOMAIN en.kids : TRUE
    <3>1. /\ n = <<n[1], n[2]>> /\ n[1] \in Classes(graph) /\ n[2] \in DOMAIN graph.nodes[n[1]]
          /\ en.kids \in Seq(Classes(graph))
      BY <2>2, ENodePairs DEF IInv
    <3>2. en = graph.nodes[n[1]][n[2]]
      BY DEF At
    <3>3. en.kids # <<>>
      BY <1>2, <1>4, <3>1, <3>2 DEF IInv, Typed, Supports
    <3>4. Len(en.kids) \in Nat \ {0}
      BY <3>1, <3>3, Popped
    <3>5. 1 \in DOMAIN en.kids
      BY <3>1, <3>4
    <3> QED
      BY <3>5
  <2>6. LineBuffers(n) = {pii[Operands(n)[k]].buffer : k \in DOMAIN en.kids}
    BY <1>2, <1>4 DEF LineBuffers, Supports
  <2>7. LineBuffers(n) = {b}
    BY <2>4, <2>5, <2>6
  <2> QED
    BY <1>1, <2>7
<1> QED
  BY <1>3, <1>4

LEMMA AddNodeConverts ==
  ASSUME IInv, SearchInv, JunkInv, ConvInv, phase = "convert",
         NEW n \in SelectedSet, n \notin Converted,
         \A c \in KidSet(At(graph, n)) : eclass_map[c] # 0,
         AddNode(n), UNCHANGED <<graph, detection, search>>
  PROVE  ConvInv'
<1>1. graph' = graph /\ selected' = selected
  BY DEF search
<1>2. /\ Wanted' = Wanted /\ SelectedSet' = SelectedSet
      /\ OneFormPerClass' <=> OneFormPerClass
  BY <1>1, WantedStays
<1>3. selected # <<>>
  BY DEF SelectedSet
<1>4. CASE ~ \E b \in Buffers : LineBuffers(n) = {b}
  <2>1. ~OneFormPerClass
    BY <1>4, LineBufferIsWanted
  <2>2. phase' = "panic" /\ pii' = pii
    BY <1>4 DEF AddNode, output
  <2> QED
    BY <1>1, <1>2, <1>3, <2>1, <2>2 DEF ConvInv
<1>5. CASE \E b \in Buffers : LineBuffers(n) = {b}
  <2> DEFINE b == CHOOSE b \in Buffers : LineBuffers(n) = {b}
             line == [node |-> n, buffer |-> b, rhs |-> Operands(n)]
  <2>1. phase' = phase /\ pii' = Append(pii, line)
    BY <1>5 DEF AddNode
  <2>2. LineBuffers(n) = {b} /\ b \in Buffers
    BY <1>5
  <2>3. line.node = n /\ line.buffer = b /\ DOMAIN line.rhs = DOMAIN At(graph, n).kids
    BY DEF Operands
  <2> HIDE DEF b, line
  <2>4. pii \in Seq(Lines(graph))
    BY DEF IInv, TypeOK
  <2>5. PICK m \in Nat : Len(pii) = m /\ DOMAIN pii = 1 .. m
    BY <2>4
  <2>6. /\ DOMAIN pii' = 1 .. m + 1 /\ pii'[m + 1] = line
        /\ \A t \in 1 .. m : pii'[t] = pii[t]
    BY <2>1, <2>4, <2>5
  <2>7. \A t \in 1 .. m + 1 : t \in 1 .. m \/ t = m + 1
    OBVIOUS
  <2>8. \A t \in 1 .. m : pii[t].node # n
    BY <2>5 DEF Converted
  <2>9. \A t \in 1 .. m + 1 :
          pii'[t].node \in SelectedSet /\ DOMAIN pii'[t].rhs = DOMAIN At(graph, pii'[t].node).kids
    BY <2>3, <2>5, <2>6, <2>7 DEF ConvInv
  <2>10. \A t, u \in 1 .. m + 1 : pii'[t].node = pii'[u].node => t = u
    BY <2>3, <2>5, <2>6, <2>7, <2>8 DEF ConvInv
  <2>11. ASSUME OneFormPerClass, NEW t \in 1 .. m + 1
         PROVE  <<pii'[t].node[1], pii'[t].buffer>> \in Wanted
    <3>1. PICK d \in Buffers : LineBuffers(n) = {d} /\ <<n[1], d>> \in Wanted
      BY <2>11, LineBufferIsWanted
    <3>2. d = b
      BY <2>2, <3>1
    <3>3. CASE t = m + 1
      BY <2>3, <2>6, <3>1, <3>2, <3>3
    <3>4. CASE t \in 1 .. m
      BY <1>3, <2>5, <2>6, <2>11, <3>4 DEF ConvInv
    <3> QED
      BY <2>7, <3>3, <3>4
  <2> QED
    BY <1>1, <1>2, <1>3, <2>1, <2>6, <2>9, <2>10, <2>11 DEF ConvInv
<1> QED
  BY <1>4, <1>5

LEMMA NextConverts == IInv /\ SearchInv /\ JunkInv /\ ConvInv /\ [Next]_vars => ConvInv'
<1> SUFFICES ASSUME IInv, SearchInv, JunkInv, ConvInv, [Next]_vars PROVE ConvInv'
  OBVIOUS
<1>1. CASE (\E c \in work : Detect(c)) \/ DetectEnds \/ Annotate \/ EnterLoop \/ SearchEnds
           \/ Refuse \/ Reuse \/ Base \/ Skip \/ Accept \/ CallKid \/ KidFound
           \/ KidFailed \/ Complete \/ Exhausted
  <2>1. /\ phase \in {"detect", "annotate", "search"} /\ pii' = pii
        /\ phase' # "done"
        /\ phase' = "panic" => phase = "annotate" /\ selected' = selected
    BY <1>1 DEF Detect, DetectEnds, Annotate, EnterLoop, SearchEnds, Refuse, Reuse, Base,
                Skip, Accept, CallKid, KidFound, KidFailed, Complete, Exhausted, Searching,
                Search, output
  <2>2. pii = <<>>
    BY <2>1 DEF IInv, MapOK
  <2>3. phase' = "panic" => selected' = <<>>
    BY <2>1 DEF IInv, Idle
  <2> QED
    BY <2>1, <2>2, <2>3 DEF ConvInv
<1>2. ASSUME NEW n \in SelectedSet, ConvertLeaf(n) \/ ConvertNode(n)
      PROVE  ConvInv'
  <2>1. n \notin Converted /\ \A c \in KidSet(At(graph, n)) : eclass_map[c] # 0
    BY <1>2 DEF ConvertLeaf, ConvertNode, Leaves, Ready, KidSet
  <2>2. phase = "convert" /\ AddNode(n) /\ UNCHANGED <<graph, detection, search>>
    BY <1>2 DEF ConvertLeaf, ConvertNode
  <2> QED
    BY <2>1, <2>2, AddNodeConverts
<1>3. CASE ConvertEnds
  <2>1. /\ graph' = graph /\ selected' = selected /\ pii' = pii
        /\ phase' \in {"done", "stuck"}
        /\ phase' = "done" => SelectedSet \subseteq Converted
    BY <1>3 DEF ConvertEnds, search, output
  <2>2. /\ Wanted' = Wanted /\ SelectedSet' = SelectedSet /\ Converted' = Converted
        /\ OneFormPerClass' <=> OneFormPerClass
    BY <2>1, WantedStays DEF Converted
  <2> QED
    BY <2>1, <2>2 DEF ConvInv
<1>4. CASE Finished \/ UNCHANGED vars
  <2>1. graph' = graph /\ selected' = selected /\ pii' = pii /\ phase' = phase
    BY <1>4 DEF Finished, vars, search, output
  <2>2. /\ Wanted' = Wanted /\ SelectedSet' = SelectedSet /\ Converted' = Converted
        /\ OneFormPerClass' <=> OneFormPerClass
    BY <2>1, WantedStays DEF Converted
  <2> QED
    BY <2>1, <2>2 DEF ConvInv
<1> QED
  BY <1>1, <1>2, <1>3, <1>4 DEF Next, Step

LEMMA InitConverts == Init => JunkInv /\ ConvInv
<1> SUFFICES ASSUME Init PROVE JunkInv /\ ConvInv
  OBVIOUS
<1>1. stack = <<>> /\ selected = <<>> /\ pii = <<>> /\ control = "call" /\ phase = "detect"
  BY DEF Init
<1>2. Len(<<>>) = 0 /\ \A d \in 1 .. 0 : FALSE
  OBVIOUS
<1>3. NoJunk(graph, <<>>, 0, <<>>, {})
  BY DEF NoJunk
<1> QED
  BY <1>1, <1>2, <1>3 DEF JunkInv, ConvInv, Wants, Found

LEMMA ConversionInvariant == Spec => [](IInv /\ SearchInv /\ JunkInv /\ ConvInv)
<1> QED
  BY InitInvariant, NextInvariant, InitSearches, NextSearches, InitConverts, NextJunk,
     NextConverts, PTL DEF Spec

\* With one form per class, each line but the last has been selected for a
\* later one, and the last is the root's.
LEMMA InvariantIsWellFormed ==
  ASSUME IInv, SearchInv, JunkInv, ConvInv
  PROVE  WellFormed
<1> SUFFICES ASSUME phase \in {"done", "panic"}, selected # <<>>, OneFormPerClass
             PROVE  /\ phase = "done"
                    /\ \A t \in DOMAIN pii : ReadsRight(t)
                    /\ \A t \in 1 .. Len(pii) - 1 :
                         \E u \in t + 1 .. Len(pii) :
                           \E k \in DOMAIN pii[u].rhs : pii[u].rhs[k] = t
                    /\ pii[Len(pii)].node[1] = graph.root
                    /\ pii[Len(pii)].buffer = HBM
  BY DEF WellFormed
<1>1. /\ phase = "done" /\ SelectedSet \subseteq Converted
      /\ \A t \in DOMAIN pii : <<pii[t].node[1], pii[t].buffer>> \in Wanted
      /\ \A t \in DOMAIN pii : pii[t].node \in SelectedSet
      /\ \A t, u \in DOMAIN pii : pii[t].node = pii[u].node => t = u
  BY DEF ConvInv
<1>2. stack = <<>> /\ control = "yes"
  BY <1>1 DEF SearchInv
<1>3. /\ pii \in Seq(Lines(graph)) /\ selected \in Seq(ENodes(graph)) /\ LinesInOrder
      /\ \A i, j \in DOMAIN selected : selected[i] = selected[j] => i = j
  BY DEF IInv, TypeOK, SearchOK, Selections, Sound
<1>4. PICK L \in Nat : Len(pii) = L /\ DOMAIN pii = 1 .. L
  BY <1>3
<1>5. PICK N \in Nat : Len(selected) = N /\ DOMAIN selected = 1 .. N
  BY <1>3
<1>6. \A i, j \in 1 .. N : selected[i][1] = selected[j][1] => i = j
  <2>1. \A i \in 1 .. N : selected[i] \in SelectedSet
    BY <1>5 DEF SelectedSet
  <2> QED
    BY <1>3, <1>5, <2>1 DEF OneFormPerClass
\* All but the last selected are operands of later ones.
<1>7. /\ \A j \in 1 .. N : \/ \E i \in j + 1 .. N : selected[j][1] \in KidSet(At(graph, selected[i]))
                           \/ selected[j][1] = graph.root
  <2>1. NoJunk(graph, <<>>, 0, selected, {graph.root})
    <3>1. Len(<<>>) = 0
      OBVIOUS
    <3>2. Asked(graph, <<>>, 0)[1] = graph.root
      BY DEF Asked
    <3>3. Found(graph, <<>>, "yes") = {graph.root}
      BY <3>1, <3>2 DEF Found
    <3> QED
      BY <1>2, <3>1, <3>3 DEF JunkInv, Wants
  <2>2. \A c : ~Held(graph, <<>>, 0, c)
    BY DEF Held
  <2>3. OneNode(selected)
    BY <1>5, <1>6 DEF OneNode
  <2> QED
    BY <1>5, <2>1, <2>2, <2>3 DEF NoJunk
<1>8. N \in 1 .. N
  BY <1>3, <1>5
<1>9. selected[N][1] = graph.root
  <2>1. ~ \E i \in N + 1 .. N : TRUE
    BY <1>5
  <2> QED
    BY <1>7, <1>8, <2>1
\* A line that is not the root's is used by a later one.
<1>10. ASSUME NEW t \in 1 .. L, pii[t].node # selected[N]
       PROVE  \E u \in t + 1 .. L : \E k \in DOMAIN pii[u].rhs : pii[u].rhs[k] = t
  <2>1. PICK j \in 1 .. N : selected[j] = pii[t].node
    BY <1>1, <1>4, <1>5 DEF SelectedSet
  <2>2. j # N
    BY <1>10, <2>1
  <2>3. selected[j][1] # graph.root
    BY <1>6, <1>8, <1>9, <2>2
  <2>4. PICK i \in j + 1 .. N : selected[j][1] \in KidSet(At(graph, selected[i]))
    BY <1>7, <2>3
  <2>5. i \in DOMAIN selected
    BY <1>5, <2>4
  <2>6. PICK u \in 1 .. L : pii[u].node = selected[i]
    BY <1>1, <1>4, <2>5 DEF SelectedSet, Converted
  <2>7. PICK k \in DOMAIN At(graph, selected[i]).kids :
          At(graph, selected[i]).kids[k] = selected[j][1]
    BY <2>4 DEF KidSet
  <2>8. DOMAIN pii[u].rhs = DOMAIN At(graph, selected[i]).kids
    BY <1>4, <2>6 DEF ConvInv
  <2>9. pii[u].rhs[k] \in 1 .. u - 1 /\ pii[pii[u].rhs[k]].node[1] = selected[j][1]
    BY <1>3, <1>4, <2>6, <2>7, <2>8 DEF LinesInOrder
  <2>10. pii[u].rhs[k] = t
    <3>1. pii[u].rhs[k] \in 1 .. L
      BY <1>4, <2>9
    <3>2. pii[pii[u].rhs[k]].node \in SelectedSet
      BY <1>1, <1>4, <3>1
    <3>3. pii[pii[u].rhs[k]].node = pii[t].node
      BY <1>1, <1>4, <2>1, <2>9, <3>2 DEF OneFormPerClass
    <3> QED
      BY <1>1, <1>4, <3>1, <3>3
  <2>11. u \in t + 1 .. L
    BY <1>4, <2>9, <2>10
  <2> QED
    BY <2>7, <2>8, <2>10, <2>11
<1>11. L \in 1 .. L
  <2>1. selected[N] \in Converted
    BY <1>1, <1>5, <1>8 DEF SelectedSet
  <2> QED
    BY <1>4, <2>1 DEF Converted
<1>12. pii[L].node = selected[N]
  <2>1. ~ \E u \in L + 1 .. L : TRUE
    BY <1>4
  <2> QED
    BY <1>10, <1>11, <2>1
<1>13. ASSUME NEW t \in 1 .. L - 1
       PROVE  \E u \in t + 1 .. L : \E k \in DOMAIN pii[u].rhs : pii[u].rhs[k] = t
  <2>1. t \in 1 .. L /\ t # L
    BY <1>4
  <2>2. pii[t].node # selected[N]
    BY <1>1, <1>4, <1>11, <1>12, <2>1
  <2> QED
    BY <1>10, <2>1, <2>2
<1>14. /\ <<graph.root, HBM>> \in Wanted
       /\ \A n \in SelectedSet : \A b : <<n[1], b>> \in Wanted =>
            \A k \in DOMAIN At(graph, n).kids :
              <<At(graph, n).kids[k], ReadsFrom(At(graph, n), k, b)>> \in Wanted
  BY <1>1, WantedNow
<1>15. pii[L].node[1] = graph.root /\ pii[L].buffer = HBM
  <2>1. pii[L].node[1] = graph.root
    BY <1>9, <1>12
  <2>2. <<graph.root, pii[L].buffer>> \in Wanted
    BY <1>1, <1>4, <1>11, <2>1
  <2> QED
    BY <1>14, <2>1, <2>2, OneBuffer
<1>16. ASSUME NEW t \in DOMAIN pii PROVE ReadsRight(t)
  <2>1. ASSUME NEW k \in DOMAIN pii[t].rhs
        PROVE  pii[pii[t].rhs[k]].buffer = ReadsFrom(At(graph, pii[t].node), k, pii[t].buffer)
    <3>1. k \in DOMAIN At(graph, pii[t].node).kids
      BY <2>1 DEF ConvInv
    <3>2. <<At(graph, pii[t].node).kids[k], ReadsFrom(At(graph, pii[t].node), k, pii[t].buffer)>> \in Wanted
      BY <1>1, <1>14, <3>1
    <3>3. pii[t].rhs[k] \in 1 .. t - 1 /\ pii[pii[t].rhs[k]].node[1] = At(graph, pii[t].node).kids[k]
      BY <1>3 DEF LinesInOrder
    <3>4. pii[t].rhs[k] \in DOMAIN pii
      BY <1>4, <3>3
    <3>5. <<At(graph, pii[t].node).kids[k], pii[pii[t].rhs[k]].buffer>> \in Wanted
      BY <1>1, <3>3, <3>4
    <3> QED
      BY <3>2, <3>5, OneBuffer
  <2> QED
    BY <2>1 DEF ReadsRight
<1> QED
  BY <1>1, <1>4, <1>13, <1>15, <1>16

\* When the search selects one form per class, the PII graph is one the
\* allocator reads rightly, whatever alternatives failed on the way and in
\* whatever order the HashMap gave its e-nodes: no line is junk, the last is
\* the root in HBM, and every operand is in the buffer that is read.
THEOREM ResultIsWellFormed == Spec => []WellFormed
<1> QED
  BY ConversionInvariant, InvariantIsWellFormed, PTL

=============================================================================
