--------------------------- MODULE EGraphsProofs ---------------------------
(***************************************************************************)
(* Lemmas about e-graphs for the proofs about the extractors: what is      *)
(* computed in rounds is a least fixed point, so a class is derivable      *)
(* exactly when it has a finite term, and a class that has a term has one  *)
(* in which it does not occur again.                                       *)
(***************************************************************************)
EXTENDS EGraphs, FiniteSetTheorems, SequenceTheorems, WellFoundedInduction, TLAPS

-----------------------------------------------------------------------------
(* Numbers.                                                                *)

LEMMA LeastElement ==
  ASSUME NEW S \in SUBSET Nat, S # {}
  PROVE  \E m \in S : \A k \in S : m <= k
<1>1. PICK m \in S : \A k \in S : ~(<<k, m>> \in OpToRel(<, Nat))
  BY NatLessThanWellFounded, WFMin
<1>2. \A k \in S : ~(k < m)
  BY <1>1 DEF OpToRel
<1> QED
  BY <1>2

-----------------------------------------------------------------------------
(* Rounds.                                                                 *)

\* What F makes of S in each of n rounds.
IsRounds(r, n, S, F) == r = [k \in 0 .. n |-> IF k = 0 THEN S ELSE F[r[k - 1]]]

LEMMA RoundsExist ==
  ASSUME NEW P, NEW S \in SUBSET P, NEW F \in [SUBSET P -> SUBSET P], NEW n \in Nat
  PROVE  \E r \in [0 .. n -> SUBSET P] : IsRounds(r, n, S, F)
<1> DEFINE Bad == {m \in Nat : ~ \E r \in [0 .. m -> SUBSET P] : IsRounds(r, m, S, F)}
<1>1. SUFFICES ASSUME Bad # {} PROVE FALSE
  OBVIOUS
<1>2. Bad \in SUBSET Nat
  OBVIOUS
<1> HIDE DEF Bad
<1>3. PICK m \in Bad : \A k \in Bad : m <= k
  BY <1>1, <1>2, LeastElement
<1> USE DEF Bad
<1>4. m \in Nat
  OBVIOUS
<1>5. CASE m = 0
  <2> DEFINE r == [k \in 0 .. 0 |-> S]
  <2>1. r \in [0 .. 0 -> SUBSET P]
    OBVIOUS
  <2>2. \A k \in 0 .. 0 : k = 0
    OBVIOUS
  <2>3. r = [k \in 0 .. 0 |-> IF k = 0 THEN S ELSE F[r[k - 1]]]
    BY <2>2
  <2> QED
    BY <1>5, <2>1, <2>3 DEF IsRounds
<1>6. CASE m # 0
  <2>1. m - 1 \in Nat /\ ~(m <= m - 1)
    BY <1>4, <1>6
  <2>2. m - 1 \notin Bad
    BY <1>3, <2>1
  <2>3. PICK q \in [0 .. m - 1 -> SUBSET P] : IsRounds(q, m - 1, S, F)
    BY <2>1, <2>2
  <2> DEFINE r == [k \in 0 .. m |-> IF k = m THEN F[q[m - 1]] ELSE q[k]]
  <2>4. /\ m - 1 \in 0 .. m - 1
        /\ \A k \in 0 .. m : k # m => k \in 0 .. m - 1
        /\ \A k \in 0 .. m : k # 0 => k - 1 \in 0 .. m - 1 /\ k - 1 # m /\ k - 1 \in 0 .. m
    BY <1>4, <1>6
  <2>5. r \in [0 .. m -> SUBSET P]
    BY <2>3, <2>4
  <2>6. ASSUME NEW k \in 0 .. m
        PROVE  r[k] = IF k = 0 THEN S ELSE F[r[k - 1]]
    <3>1. CASE k = m
      BY <1>6, <2>4, <3>1
    <3>2. CASE k # m
      <4>1. q[k] = IF k = 0 THEN S ELSE F[q[k - 1]]
        BY <2>3, <2>4, <3>2 DEF IsRounds
      <4> QED
        BY <2>4, <3>2, <4>1
    <3> QED
      BY <3>1, <3>2
  <2>7. r = [k \in 0 .. m |-> IF k = 0 THEN S ELSE F[r[k - 1]]]
    BY <2>6
  <2> QED
    BY <2>5, <2>7 DEF IsRounds
<1> QED
  BY <1>5, <1>6

\* Rounds that only add to a finite set come to an end in as many of them as
\* it has elements.
LEMMA RoundsReachFixedPoint ==
  ASSUME NEW P, IsFiniteSet(P), NEW F \in [SUBSET P -> SUBSET P],
         \A H \in SUBSET P : H \subseteq F[H],
         NEW r \in [0 .. Cardinality(P) -> SUBSET P], IsRounds(r, Cardinality(P), {}, F)
  PROVE  F[r[Cardinality(P)]] = r[Cardinality(P)]
<1> DEFINE N == Cardinality(P)
<1>1. N \in Nat
  BY FS_CardinalityType
<1>2. \A k \in 1 .. N : k - 1 \in 0 .. N /\ k \in 0 .. N /\ k # 0
  BY <1>1
<1> HIDE DEF N
<1>3. /\ r[0] = {}
      /\ \A k \in 1 .. N : r[k] = F[r[k - 1]] /\ r[k - 1] \in SUBSET P /\ r[k - 1] \subseteq r[k]
  <2>1. \A k \in 0 .. N : r[k] = IF k = 0 THEN {} ELSE F[r[k - 1]]
    BY DEF IsRounds, N
  <2>2. 0 \in 0 .. N
    BY <1>1
  <2>3. \A k \in 0 .. N : r[k] \in SUBSET P
    BY DEF N
  <2> QED
    BY <1>2, <2>1, <2>2, <2>3
\* The first round that adds nothing: the later ones add nothing either.
<1>4. ASSUME NEW j \in 1 .. N, r[j] = r[j - 1]
      PROVE  \A k \in j .. N : r[k] = r[j - 1]
  <2> DEFINE Bad == {k \in j .. N : r[k] # r[j - 1]}
  <2>1. SUFFICES ASSUME Bad # {} PROVE FALSE
    OBVIOUS
  <2>2. Bad \in SUBSET Nat
    BY <1>1
  <2> HIDE DEF Bad
  <2>3. PICK m \in Bad : \A k \in Bad : m <= k
    BY <2>1, <2>2, LeastElement
  <2> USE DEF Bad
  <2>4. m \in j .. N /\ r[m] # r[j - 1] /\ m # j
    BY <1>4
  <2>5. m - 1 \in j .. N /\ m \in 1 .. N /\ ~(m <= m - 1)
    BY <1>1, <2>4
  <2>6. r[m - 1] = r[j - 1]
    BY <2>3, <2>5
  <2>7. r[m] = F[r[j - 1]]
    BY <1>3, <2>5, <2>6
  <2> QED
    BY <1>3, <1>4, <2>4, <2>7
<1>5. CASE \E j \in 1 .. N : r[j] = r[j - 1]
  <2>1. PICK j \in 1 .. N : r[j] = r[j - 1]
    BY <1>5
  <2>2. r[N] = r[j - 1]
    BY <1>1, <1>4, <2>1
  <2>3. r[j] = F[r[j - 1]]
    BY <1>3
  <2> QED
    BY <2>1, <2>2, <2>3 DEF N
<1>6. CASE \A j \in 1 .. N : r[j] # r[j - 1]
  <2>1. \A k \in 0 .. N : IsFiniteSet(r[k]) /\ Cardinality(r[k]) \in Nat
    <3>1. \A k \in 0 .. N : r[k] \in SUBSET P
      BY DEF N
    <3> QED
      BY <3>1, FS_Subset, FS_CardinalityType
  <2> DEFINE Bad == {k \in 0 .. N : ~(k <= Cardinality(r[k]))}
  <2>2. ASSUME Bad # {} PROVE FALSE
    <3>1. Bad \in SUBSET Nat
      BY <1>1
    <3> HIDE DEF Bad
    <3>2. PICK m \in Bad : \A k \in Bad : m <= k
      BY <2>2, <3>1, LeastElement
    <3> USE DEF Bad
    <3>3. m \in 0 .. N /\ ~(m <= Cardinality(r[m]))
      OBVIOUS
    <3>4. m # 0
      BY <2>1, <3>3
    <3>5. m \in 1 .. N /\ m - 1 \in 0 .. N /\ ~(m <= m - 1)
      BY <1>1, <3>3, <3>4
    <3>6. m - 1 <= Cardinality(r[m - 1])
      BY <3>2, <3>5
    <3>7. r[m - 1] \subseteq r[m] /\ r[m - 1] # r[m]
      BY <1>3, <1>6, <3>5
    <3>8. Cardinality(r[m - 1]) <= Cardinality(r[m]) /\ Cardinality(r[m - 1]) # Cardinality(r[m])
      BY <2>1, <3>5, <3>7, FS_Subset
    <3> QED
      BY <1>1, <2>1, <3>3, <3>5, <3>6, <3>8
  <2>3. N <= Cardinality(r[N])
    BY <1>1, <2>2
  <2>4. r[N] \in SUBSET P /\ Cardinality(r[N]) <= N /\ Cardinality(r[N]) \in Nat
    BY <1>1, <2>1, FS_Subset DEF N
  <2>5. r[N] = P
    BY <1>1, <2>3, <2>4, FS_Subset DEF N
  <2>6. P \subseteq F[P] /\ F[P] \subseteq P
    OBVIOUS
  <2> QED
    BY <2>5, <2>6 DEF N
<1> QED
  BY <1>5, <1>6

\* What satisfies the recursion as far as it is typed is typed.
LEMMA RoundsAreTyped ==
  ASSUME NEW P, NEW S \in SUBSET P, NEW F \in [SUBSET P -> SUBSET P], NEW n \in Nat,
         NEW r, r = [k \in 0 .. n |-> r[k]],
         r[0] = S,
         \A k \in 1 .. n : r[k - 1] \in SUBSET P => r[k] = F[r[k - 1]]
  PROVE  r \in [0 .. n -> SUBSET P] /\ IsRounds(r, n, S, F)
<1>1. \A k \in 0 .. n : r[k] \in SUBSET P
  <2> DEFINE Bad == {k \in 0 .. n : r[k] \notin SUBSET P}
  <2>1. SUFFICES ASSUME Bad # {} PROVE FALSE
    OBVIOUS
  <2>2. Bad \in SUBSET Nat
    OBVIOUS
  <2> HIDE DEF Bad
  <2>3. PICK m \in Bad : \A k \in Bad : m <= k
    BY <2>1, <2>2, LeastElement
  <2> USE DEF Bad
  <2>4. m # 0
    OBVIOUS
  <2>5. m \in 1 .. n /\ m - 1 \in 0 .. n /\ ~(m <= m - 1)
    BY <2>4
  <2>6. r[m - 1] \in SUBSET P
    BY <2>3, <2>5
  <2> QED
    BY <2>5, <2>6
<1>2. r \in [0 .. n -> SUBSET P]
  BY <1>1
<1>3. ASSUME NEW k \in 0 .. n
      PROVE  r[k] = IF k = 0 THEN S ELSE F[r[k - 1]]
  <2>1. k # 0 => k \in 1 .. n /\ k - 1 \in 0 .. n
    OBVIOUS
  <2> QED
    BY <1>1, <2>1
<1>4. r = [k \in 0 .. n |-> IF k = 0 THEN S ELSE F[r[k - 1]]]
  BY <1>3
<1> QED
  BY <1>2, <1>4 DEF IsRounds

\* F does not leave X.
Stays(F, P, X) == \A H \in SUBSET P : H \subseteq X => F[H] \subseteq X

\* Rounds stay within every set that F does not leave.
LEMMA RoundsAreLeast ==
  ASSUME NEW P, NEW F \in [SUBSET P -> SUBSET P], NEW n \in Nat,
         NEW r \in [0 .. n -> SUBSET P], IsRounds(r, n, {}, F),
         NEW X, Stays(F, P, X)
  PROVE  r[n] \subseteq X
<1> DEFINE Bad == {k \in 0 .. n : ~(r[k] \subseteq X)}
<1>1. SUFFICES ASSUME Bad # {} PROVE FALSE
  <2>1. n \in 0 .. n
    OBVIOUS
  <2> QED
    BY <1>1, <2>1
<1>2. Bad \in SUBSET Nat
  OBVIOUS
<1> HIDE DEF Bad
<1>3. PICK m \in Bad : \A k \in Bad : m <= k
  BY <1>1, <1>2, LeastElement
<1> USE DEF Bad
<1>4. r[m] = IF m = 0 THEN {} ELSE F[r[m - 1]]
  BY DEF IsRounds
<1>5. m # 0
  BY <1>4
<1>6. m - 1 \in 0 .. n /\ ~(m <= m - 1)
  BY <1>5
<1>7. r[m - 1] \subseteq X
  BY <1>3, <1>6
<1> QED
  BY <1>4, <1>5, <1>6, <1>7 DEF Stays

-----------------------------------------------------------------------------
(* Derivable.                                                              *)

\* One round of Derivable.
Derive(g, out) ==
  [H \in SUBSET Classes(g) |->
     H \cup {c \in Classes(g) \ out :
               \E i \in DOMAIN g.nodes[c] : KidSet(g.nodes[c][i]) \subseteq H}]

\* The set X has every class outside out that has an e-node with its operands
\* in X.
ClosedUnder(g, out, X) ==
  \A c \in Classes(g) \ out :
    (\E i \in DOMAIN g.nodes[c] : KidSet(g.nodes[c][i]) \subseteq X) => c \in X

LEMMA DerivableInRounds ==
  ASSUME NEW g, IsFiniteSet(Classes(g)), NEW out
  PROVE  \E r \in [0 .. Cardinality(Classes(g)) -> SUBSET Classes(g)] :
           /\ IsRounds(r, Cardinality(Classes(g)), {}, Derive(g, out))
           /\ Derivable(g, out) = r[Cardinality(Classes(g))]
<1> DEFINE N == Cardinality(Classes(g))
           P == Classes(g)
           Body(r) == [k \in 0 .. N |->
                         IF k = 0 THEN {}
                         ELSE LET have == r[k - 1] IN
                              have \cup {c \in P \ out :
                                 \E i \in DOMAIN g.nodes[c] : KidSet(g.nodes[c][i]) \subseteq have}]
           r == CHOOSE r : r = Body(r)
<1>1. N \in Nat
  BY FS_CardinalityType
<1>2. Derive(g, out) \in [SUBSET P -> SUBSET P]
  BY DEF Derive
<1>3. Derivable(g, out) = r[N]
  BY DEF Derivable
<1>4. ASSUME NEW H \in SUBSET P
      PROVE  Derive(g, out)[H] = H \cup {c \in P \ out :
               \E i \in DOMAIN g.nodes[c] : KidSet(g.nodes[c][i]) \subseteq H}
  BY DEF Derive
<1> HIDE DEF N, P
<1>5. \A k \in 0 .. N : k # 0 => k - 1 \in 0 .. N
  BY <1>1
<1>6. \E q : q = Body(q)
  <2>1. PICK q \in [0 .. N -> SUBSET P] : IsRounds(q, N, {}, Derive(g, out))
    BY <1>1, <1>2, RoundsExist
  <2>2. \A k \in 0 .. N : k # 0 => q[k - 1] \in SUBSET P
    BY <1>5
  <2>3. q = [k \in 0 .. N |-> IF k = 0 THEN {} ELSE Derive(g, out)[q[k - 1]]]
    BY <2>1 DEF IsRounds
  <2>4. \A k \in 0 .. N : (IF k = 0 THEN {} ELSE Derive(g, out)[q[k - 1]]) = Body(q)[k]
    BY <1>4, <2>2
  <2>5. q = Body(q)
    BY <2>3, <2>4
  <2> QED
    BY <2>5
<1>7. r = Body(r)
  <2> HIDE DEF Body
  <2> QED
    BY <1>6
<1> HIDE DEF r
<1>8. ASSUME NEW k \in 0 .. N
      PROVE  r[k] = IF k = 0 THEN {}
                    ELSE LET have == r[k - 1] IN
                         have \cup {c \in P \ out :
                            \E i \in DOMAIN g.nodes[c] : KidSet(g.nodes[c][i]) \subseteq have}
  BY <1>7
<1>9. r = [k \in 0 .. N |-> r[k]]
  BY <1>7
<1>10. r[0] = {}
  <2>1. 0 \in 0 .. N
    BY <1>1
  <2> QED
    BY <1>8, <2>1
<1>11. \A k \in 1 .. N : r[k - 1] \in SUBSET P => r[k] = Derive(g, out)[r[k - 1]]
  <2>1. \A k \in 1 .. N : k \in 0 .. N /\ k # 0
    BY <1>1
  <2> QED
    BY <1>4, <1>8, <2>1
<1>12. r \in [0 .. N -> SUBSET P] /\ IsRounds(r, N, {}, Derive(g, out))
  BY <1>1, <1>2, <1>9, <1>10, <1>11, RoundsAreTyped
<1> QED
  BY <1>3, <1>12 DEF N, P

\* Derivable is the least set of classes that its rule does not leave.
LEMMA DerivableIsLeast ==
  ASSUME NEW g, IsFiniteSet(Classes(g)), NEW out
  PROVE  /\ Derivable(g, out) \subseteq Classes(g)
         /\ ClosedUnder(g, out, Derivable(g, out))
         /\ \A X : ClosedUnder(g, out, X) => Derivable(g, out) \subseteq X
<1> DEFINE N == Cardinality(Classes(g))
           P == Classes(g)
<1>1. PICK r \in [0 .. N -> SUBSET P] :
        IsRounds(r, N, {}, Derive(g, out)) /\ Derivable(g, out) = r[N]
  BY DerivableInRounds
<1>2. N \in Nat /\ N \in 0 .. N
  BY FS_CardinalityType
<1>3. /\ Derive(g, out) \in [SUBSET P -> SUBSET P]
      /\ \A H \in SUBSET P : H \subseteq Derive(g, out)[H]
  BY DEF Derive
<1>4. r[N] \in SUBSET P /\ Derive(g, out)[r[N]] = r[N]
  BY <1>1, <1>2, <1>3, RoundsReachFixedPoint
<1>5. ClosedUnder(g, out, r[N])
  <2>1. r[N] = r[N] \cup {c \in P \ out :
               \E i \in DOMAIN g.nodes[c] : KidSet(g.nodes[c][i]) \subseteq r[N]}
    BY <1>4 DEF Derive
  <2> QED
    BY <2>1 DEF ClosedUnder
<1>6. ASSUME NEW X, ClosedUnder(g, out, X) PROVE r[N] \subseteq X
  <2>1. ASSUME NEW H \in SUBSET P, H \subseteq X PROVE Derive(g, out)[H] \subseteq X
    BY <1>6, <2>1 DEF Derive, ClosedUnder
  <2>2. Stays(Derive(g, out), P, X)
    BY <2>1 DEF Stays
  <2> QED
    BY <1>1, <1>2, <1>3, <2>2, RoundsAreLeast
<1> QED
  BY <1>1, <1>4, <1>5, <1>6

\* A derivable class is not left out and has an e-node of derivable operands.
LEMMA DerivableIsSupported ==
  ASSUME NEW g, IsFiniteSet(Classes(g)), NEW out, NEW c \in Derivable(g, out)
  PROVE  /\ c \in Classes(g) \ out
         /\ \E i \in DOMAIN g.nodes[c] : KidSet(g.nodes[c][i]) \subseteq Derivable(g, out)
<1> DEFINE X == {x \in Derivable(g, out) :
                   /\ x \notin out
                   /\ \E i \in DOMAIN g.nodes[x] : KidSet(g.nodes[x][i]) \subseteq Derivable(g, out)}
<1>1. ClosedUnder(g, out, X)
  BY DerivableIsLeast DEF ClosedUnder
<1>2. Derivable(g, out) \subseteq X
  BY <1>1, DerivableIsLeast
<1> QED
  BY <1>2, DerivableIsLeast

\* What can be had without more classes can be had without fewer.
LEMMA DerivableIsMonotone ==
  ASSUME NEW g, IsFiniteSet(Classes(g)), NEW out, NEW less \in SUBSET out
  PROVE  Derivable(g, out) \subseteq Derivable(g, less)
<1>1. ClosedUnder(g, out, Derivable(g, less))
  BY DerivableIsLeast DEF ClosedUnder
<1> QED
  BY <1>1, DerivableIsLeast

\* A class that has a term has one in which it does not occur again.
LEMMA DerivableWithoutItself ==
  ASSUME NEW g, IsFiniteSet(Classes(g)), NEW out, NEW c \in Classes(g)
  PROVE  c \in Derivable(g, out) <=>
           /\ c \notin out
           /\ \E i \in DOMAIN g.nodes[c] :
                KidSet(g.nodes[c][i]) \subseteq Derivable(g, out \cup {c})
<1> DEFINE D == Derivable(g, out \cup {c})
<1>1. ASSUME c \in Derivable(g, out)
      PROVE  \E i \in DOMAIN g.nodes[c] : KidSet(g.nodes[c][i]) \subseteq D
  <2>1. SUFFICES ASSUME ~ \E i \in DOMAIN g.nodes[c] : KidSet(g.nodes[c][i]) \subseteq D
                 PROVE  FALSE
    OBVIOUS
  <2>2. ClosedUnder(g, out \cup {c}, D)
    BY DerivableIsLeast
  <2> HIDE DEF D
  <2>3. ClosedUnder(g, out, D)
    BY <2>1, <2>2 DEF ClosedUnder
  <2>4. c \in D
    BY <1>1, <2>3, DerivableIsLeast
  <2>5. c \notin out \cup {c}
    BY <2>4, DerivableIsSupported DEF D
  <2> QED
    BY <2>5
<1>2. D \subseteq Derivable(g, out)
  BY DerivableIsMonotone
<1>3. ClosedUnder(g, out, Derivable(g, out))
  BY DerivableIsLeast
<1>4. c \in Derivable(g, out) => c \notin out
  BY DerivableIsSupported
<1> HIDE DEF D
<1>5. c \in Derivable(g, out) <=>
        c \notin out /\ \E i \in DOMAIN g.nodes[c] : KidSet(g.nodes[c][i]) \subseteq D
  BY <1>1, <1>2, <1>3, <1>4 DEF ClosedUnder
<1> QED
  BY <1>5 DEF D

-----------------------------------------------------------------------------
(* The e-graphs that are extracted from.                                   *)

LEMMA ValidClasses ==
  ASSUME NEW g \in Graphs
  PROVE  /\ Classes(g) = 1 .. Len(g.nodes) /\ Len(g.nodes) \in Nat
         /\ IsFiniteSet(Classes(g))
         /\ \A c \in Classes(g) : g.nodes[c] \in Seq(ENodeSet(g))
<1>1. g.nodes \in Seq(Seq(ENodeSet(g)))
  BY GraphAssumption DEF ValidGraph
<1>2. Classes(g) = 1 .. Len(g.nodes) /\ Len(g.nodes) \in Nat
  BY <1>1 DEF Classes
<1>3. \A c \in Classes(g) : g.nodes[c] \in Seq(ENodeSet(g))
  BY <1>1, <1>2
<1>4. IsFiniteSet(1 .. Len(g.nodes))
  BY <1>2, FS_Interval
<1> QED
  BY <1>2, <1>3, <1>4

LEMMA FiniteBuffers == IsFiniteSet(Buffers)
BY GraphAssumption, FS_AddElement DEF Buffers

=============================================================================
