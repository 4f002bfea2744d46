---------------------------- MODULE TensorProofs ----------------------------
(***************************************************************************)
(* Proofs about the operations on tensors: of which shape and type their   *)
(* results are, which element of an operand an element of the result is,   *)
(* which operations undo one another; of the instructions of a typed       *)
(* module, that their e-nodes compute what HLO means by them; and of an    *)
(* e-graph whose classes are given tensors, that adding e-nodes and        *)
(* uniting equal ones keeps to them, and what the right-hand side of each  *)
(* rule makes of the tensors it is given.                                  *)
(***************************************************************************)
EXTENDS FrontEndProofs, TypedModules

-----------------------------------------------------------------------------
(* Products, strides, indices and places.                                  *)

Pos == Nat \ {0}

LEMMA TimesIsPos ==
  ASSUME NEW a \in Pos, NEW b \in Pos
  PROVE  a * b \in Pos
BY DEF Pos

\* f runs through the partial products of s.
Multiplies(f, s) == f[0] = 1 /\ \A k \in 1 .. Len(s) : f[k] = f[k - 1] * s[k]

\* A product is the last of the partial products.
LEMMA ProductMultiplies ==
  ASSUME NEW s \in Seq(Nat)
  PROVE  \E f : Multiplies(f, s) /\ f \in [0 .. Len(s) -> Nat] /\ Product(s) = f[Len(s)]
<1> DEFINE n == Len(s)
           Body(f) == [k \in 0 .. n |-> IF k = 0 THEN 1 ELSE f[k - 1] * s[k]]
           upto == CHOOSE f : f = Body(f)
           X == (0 .. n) \X Nat
           F == [w \in X |-> w[2] * s[w[1] + 1]]
<1>1. Product(s) = upto[n]
  BY DEF Product
<1>2. n \in Nat /\ <<0, 1>> \in X
  OBVIOUS
<1>3. ASSUME NEW k \in 1 .. n, NEW x, <<k - 1, x>> \in X
      PROVE  /\ F[<<k - 1, x>>] = x * s[k]
             /\ <<k, F[<<k - 1, x>>]>> \in X
  <2>1. x \in Nat /\ s[k] \in Nat /\ (k - 1) + 1 = k /\ k \in 0 .. n
    BY <1>3
  <2>2. F[<<k - 1, x>>] = x * s[k]
    BY <1>3, <2>1
  <2> QED
    BY <2>1, <2>2, TimesIsNat
<1> HIDE DEF F, X
<1>4. StaysIn(n, F, X)
  BY <1>3 DEF StaysIn
<1>5. PICK f : Follows(f, n, 1, F, X) /\ AllIn(f, n, X)
  <2> HIDE DEF n
  <2> QED
    BY <1>2, <1>4, FollowersExist
<1>6. \A k \in 1 .. n : k \in 0 .. n /\ k - 1 \in 0 .. n /\ k # 0
  OBVIOUS
<1>7. f = Body(f)
  <2>1. ASSUME NEW k \in 0 .. n
        PROVE  f[k] = IF k = 0 THEN 1 ELSE f[k - 1] * s[k]
    <3>1. k = 0 \/ k \in 1 .. n
      OBVIOUS
    <3>2. ASSUME k \in 1 .. n PROVE f[k] = f[k - 1] * s[k]
      BY <1>3, <1>5, <1>6, <3>2 DEF Follows, AllIn
    <3> QED
      BY <1>5, <1>6, <3>1, <3>2, Zenon DEF Follows
  <2> QED
    BY <1>5, <2>1 DEF Follows
<1>8. upto = Body(upto)
  <2> HIDE DEF Body
  <2> QED
    BY <1>7
<1> HIDE DEF upto
<1>9. upto = [k \in 0 .. n |-> upto[k]] /\ Multiplies(upto, s)
  <2>1. upto = [k \in 0 .. n |-> upto[k]] /\ upto[0] = 1
    BY <1>8, <1>2
  <2>2. \A k \in 1 .. n : upto[k] = upto[k - 1] * s[k]
    BY <1>6, <1>8, Zenon
  <2> QED
    BY <2>1, <2>2 DEF Multiplies
<1>10. Follows(upto, n, 1, F, X)
  BY <1>3, <1>9 DEF Follows, Multiplies
<1>11. AllIn(upto, n, X)
  <2> HIDE DEF n
  <2> QED
    BY <1>2, <1>4, <1>10, FollowersStay
<1>12. upto \in [0 .. n -> Nat]
  BY <1>9, <1>11 DEF AllIn, X
<1> QED
  BY <1>1, <1>9, <1>12

\* ... and the partial products are unique.
LEMMA ProductIs ==
  ASSUME NEW s \in Seq(Nat), NEW h, Multiplies(h, s)
  PROVE  Product(s) = h[Len(s)]
<1>1. PICK f : Multiplies(f, s) /\ f \in [0 .. Len(s) -> Nat] /\ Product(s) = f[Len(s)]
  BY ProductMultiplies
<1> DEFINE Bad == {k \in 0 .. Len(s) : h[k] # f[k]}
<1>2. ASSUME Bad # {} PROVE FALSE
  <2>1. Bad \in SUBSET Nat
    OBVIOUS
  <2> HIDE DEF Bad
  <2>2. PICK k \in Bad : \A j \in Bad : k <= j
    BY <1>2, <2>1, LeastElement
  <2>3. k \in 0 .. Len(s) /\ h[k] # f[k]
    BY DEF Bad
  <2>4. k # 0
    BY <1>1, <2>3 DEF Multiplies
  <2>5. k \in 1 .. Len(s) /\ k - 1 \in 0 .. Len(s) /\ ~(k <= k - 1)
    BY <2>3, <2>4
  <2>6. h[k - 1] = f[k - 1]
    BY <2>2, <2>5 DEF Bad
  <2> QED
    BY <1>1, <2>3, <2>5, <2>6 DEF Multiplies
<1>3. Len(s) \in 0 .. Len(s)
  OBVIOUS
<1> QED
  BY <1>1, <1>2, <1>3

LEMMA ProductIsPos ==
  ASSUME NEW s \in Seq(Pos)
  PROVE  Product(s) \in Pos /\ s \in Seq(Nat)
<1>1. s \in Seq(Nat) /\ Len(s) \in Nat /\ \A k \in 1 .. Len(s) : s[k] \in Pos
  BY DEF Pos
<1>2. PICK f : Multiplies(f, s) /\ f \in [0 .. Len(s) -> Nat] /\ Product(s) = f[Len(s)]
  BY <1>1, ProductMultiplies
<1> DEFINE Bad == {k \in 0 .. Len(s) : f[k] = 0}
<1>3. ASSUME Bad # {} PROVE FALSE
  <2>1. Bad \in SUBSET Nat
    OBVIOUS
  <2> HIDE DEF Bad
  <2>2. PICK k \in Bad : \A j \in Bad : k <= j
    BY <1>3, <2>1, LeastElement
  <2>3. k \in 0 .. Len(s) /\ f[k] = 0
    BY DEF Bad
  <2>4. k # 0
    BY <1>2, <2>3 DEF Multiplies
  <2>5. k \in 1 .. Len(s) /\ k - 1 \in 0 .. Len(s) /\ ~(k <= k - 1)
    BY <1>1, <2>3, <2>4
  <2>6. f[k - 1] # 0 /\ f[k - 1] \in Nat
    BY <1>2, <2>2, <2>5 DEF Bad
  <2>7. f[k] = f[k - 1] * s[k] /\ s[k] \in Pos /\ f[k - 1] \in Pos
    BY <1>1, <1>2, <2>5, <2>6 DEF Multiplies, Pos
  <2> QED
    BY <2>3, <2>7, TimesIsPos DEF Pos
<1>4. Len(s) \in 0 .. Len(s)
  BY <1>1
<1> QED
  BY <1>1, <1>2, <1>3, <1>4 DEF Pos

LEMMA ProductOfNone == Product(<<>>) = 1
<1> DEFINE h == [k \in 0 .. 0 |-> 1]
<1>1. <<>> \in Seq(Nat) /\ Len(<<>>) = 0 /\ Multiplies(h, <<>>)
  BY DEF Multiplies
<1>2. Product(<<>>) = h[0]
  BY <1>1, ProductIs
<1> QED
  BY <1>2

LEMMA ProductOfAppend ==
  ASSUME NEW s \in Seq(Nat), NEW n \in Nat
  PROVE  Product(Append(s, n)) = Product(s) * n
<1>1. PICK f : Multiplies(f, s) /\ f \in [0 .. Len(s) -> Nat] /\ Product(s) = f[Len(s)]
  BY ProductMultiplies
<1> DEFINE t == Append(s, n)
           m == Len(s) + 1
           h == [k \in 0 .. m |-> IF k = m THEN f[Len(s)] * n ELSE f[k]]
<1>2. Len(s) \in Nat /\ m \in Nat /\ t \in Seq(Nat) /\ Len(t) = m /\ t[m] = n /\ \A k \in 1 .. Len(s) : t[k] = s[k]
  OBVIOUS
<1> HIDE DEF t
<1>3. h[m] = f[Len(s)] * n /\ \A k \in 0 .. Len(s) : h[k] = f[k]
  BY <1>2
<1> HIDE DEF h
<1>4. Multiplies(h, t)
  <2>1. h[0] = 1
    BY <1>1, <1>2, <1>3 DEF Multiplies
  <2>2. ASSUME NEW k \in 1 .. Len(t) PROVE h[k] = h[k - 1] * t[k]
    <3>1. CASE k = m
      BY <1>2, <1>3, <3>1
    <3>2. CASE k # m
      <4>1. k \in 1 .. Len(s) /\ k \in 0 .. Len(s) /\ k - 1 \in 0 .. Len(s)
        BY <1>2, <3>2
      <4> QED
        BY <1>1, <1>2, <1>3, <4>1 DEF Multiplies
    <3> QED
      BY <3>1, <3>2
  <2> QED
    BY <2>1, <2>2 DEF Multiplies
<1>5. Product(t) = h[m]
  BY <1>2, <1>4, ProductIs
<1> QED
  BY <1>1, <1>3, <1>5 DEF t

LEMMA ProductOfPair ==
  ASSUME NEW a \in Nat, NEW b \in Nat
  PROVE  Product(<<a, b>>) = a * b
<1>1. <<a>> \in Seq(Nat) /\ <<a, b>> = Append(<<a>>, b)
  OBVIOUS
<1>2. Product(<<a, b>>) = Product(<<a>>) * b
  BY <1>1, ProductOfAppend
<1> QED
  BY <1>2, ProductOfOne

\* The dimensions from k on.
LEMMA StrideSteps ==
  ASSUME NEW s \in Seq(Pos)
  PROVE  /\ Stride(s, 0) = Product(s) /\ Stride(s, Len(s)) = 1
         /\ \A k \in 0 .. Len(s) : Stride(s, k) \in Pos
         /\ \A k \in 1 .. Len(s) : Stride(s, k - 1) = s[k] * Stride(s, k)
<1> DEFINE n == Len(s)
<1>1. n \in Nat /\ s \in Seq(Nat) /\ \A k \in 1 .. n : s[k] \in Pos
  BY DEF Pos
<1>2. Stride(s, 0) = Product(s)
  <2>1. SubSeq(s, 0 + 1, Len(s)) = s
    BY <1>1
  <2> QED
    BY <2>1 DEF Stride
<1>3. Stride(s, n) = 1
  <2>1. SubSeq(s, n + 1, n) = <<>>
    BY <1>1
  <2> QED
    BY <2>1, ProductOfNone DEF Stride
<1>4. ASSUME NEW k \in 0 .. n PROVE Stride(s, k) \in Pos
  <2>1. SubSeq(s, k + 1, n) \in Seq(Pos)
    BY <1>1
  <2> QED
    BY <2>1, ProductIsPos DEF Stride
<1>5. ASSUME NEW k \in 1 .. n PROVE Stride(s, k - 1) = s[k] * Stride(s, k)
  <2> DEFINE t == SubSeq(s, k, n)
             u == SubSeq(s, k + 1, n)
             m == n - k
  <2>1. /\ m \in Nat /\ u \in Seq(Nat) /\ Len(u) = m /\ \A j \in 1 .. m : u[j] = s[k + j]
        /\ t \in Seq(Nat) /\ Len(t) = m + 1 /\ \A j \in 1 .. m + 1 : t[j] = s[k + j - 1]
    BY <1>1
  <2>2. Stride(s, k) = Product(u) /\ Stride(s, k - 1) = Product(t)
    BY <1>1 DEF Stride
  <2> HIDE DEF t, u
  <2>3. PICK f : Multiplies(f, u) /\ f \in [0 .. m -> Nat] /\ Product(u) = f[m]
    BY <2>1, ProductMultiplies
  <2> DEFINE h == [j \in 0 .. m + 1 |-> IF j = 0 THEN 1 ELSE s[k] * f[j - 1]]
  <2>4. h[0] = 1 /\ \A j \in 1 .. m + 1 : h[j] = s[k] * f[j - 1]
    BY <2>1
  <2> HIDE DEF h
  <2>5. s[k] \in Nat /\ k + 1 - 1 = k
    BY <1>1 DEF Pos
  <2>6. ASSUME NEW j \in 1 .. m + 1 PROVE h[j] = h[j - 1] * t[j]
    <3>1. CASE j = 1
      <4>1. h[1] = s[k] * f[0] /\ f[0] = 1 /\ t[1] = s[k + 1 - 1]
        BY <2>1, <2>3, <2>4, <3>1 DEF Multiplies
      <4>2. h[1] = s[k] /\ t[1] = s[k] /\ h[0] = 1
        BY <2>4, <2>5, <4>1
      <4> QED
        BY <2>5, <3>1, <4>2
    <3>2. CASE j # 1
      <4>1. j - 1 \in 1 .. m + 1 /\ j - 1 \in 1 .. m /\ j - 1 \in 0 .. m /\ (j - 1) - 1 \in 0 .. m /\ k + (j - 1) = k + j - 1 /\ k + (j - 1) \in 1 .. n
        BY <2>1, <3>2
      <4>2. h[j] = s[k] * f[j - 1] /\ h[j - 1] = s[k] * f[(j - 1) - 1]
        BY <2>4, <4>1
      <4>3. f[j - 1] = f[(j - 1) - 1] * u[j - 1] /\ u[j - 1] = s[k + (j - 1)] /\ t[j] = s[k + (j - 1)]
        BY <2>1, <2>3, <4>1 DEF Multiplies
      <4>4. f[(j - 1) - 1] \in Nat /\ t[j] \in Nat
        BY <1>1, <2>3, <4>1, <4>3 DEF Pos
      <4> QED
        BY <2>5, <4>2, <4>3, <4>4
    <3> QED
      BY <3>1, <3>2
  <2>7. Multiplies(h, t)
    BY <2>1, <2>4, <2>6 DEF Multiplies
  <2>8. Product(t) = h[m + 1]
    BY <2>1, <2>7, ProductIs
  <2>9. h[m + 1] = s[k] * f[m]
    BY <2>1, <2>4
  <2> QED
    BY <2>2, <2>3, <2>8, <2>9
<1> QED
  BY <1>2, <1>3, <1>4, <1>5

-----------------------------------------------------------------------------
(* Division.                                                               *)

LEMMA DivFacts ==
  ASSUME NEW a \in Nat, NEW b \in Pos
  PROVE  /\ a \div b \in Nat /\ a % b \in Nat /\ a % b < b
         /\ a = b * (a \div b) + (a % b)
BY DEF Pos

LEMMA DivIs ==
  ASSUME NEW b \in Pos, NEW q \in Nat, NEW r \in Nat, r < b
  PROVE  (b * q + r) \div b = q /\ (b * q + r) % b = r
<1> DEFINE a == b * q + r
           d == a \div b
           e == a % b
<1>1. b \in Nat /\ a \in Nat
  BY TimesIsNat DEF Pos
<1> HIDE DEF a
<1>2. d \in Nat /\ e \in Nat /\ e < b /\ a = b * d + e
  BY <1>1, DivFacts
<1> HIDE DEF d, e
<1>3. a = b * q + r
  BY DEF a
<1>4. ASSUME d < q PROVE FALSE
  <2>1. d + 1 <= q /\ q - (d + 1) \in Nat
    BY <1>2, <1>4
  <2>2. b * (q - (d + 1)) \in Nat
    BY <1>1, <2>1, TimesIsNat
  <2>3. b * q = b * (q - (d + 1)) + b * d + b
    BY <1>1, <1>2
  <2>4. b * d \in Nat /\ b * q \in Nat
    BY <1>1, <1>2, TimesIsNat
  <2> QED
    BY <1>1, <1>2, <1>3, <2>2, <2>3, <2>4
<1>5. ASSUME q < d PROVE FALSE
  <2>1. q + 1 <= d /\ d - (q + 1) \in Nat
    BY <1>2, <1>5
  <2>2. b * (d - (q + 1)) \in Nat
    BY <1>1, <2>1, TimesIsNat
  <2>3. b * d = b * (d - (q + 1)) + b * q + b
    BY <1>1, <1>2
  <2>4. b * d \in Nat /\ b * q \in Nat
    BY <1>1, <1>2, TimesIsNat
  <2> QED
    BY <1>1, <1>2, <1>3, <2>2, <2>3, <2>4
<1>6. d = q
  BY <1>2, <1>4, <1>5
<1>7. e = r
  <2>1. b * q \in Nat
    BY <1>1, TimesIsNat
  <2> QED
    BY <1>2, <1>3, <1>6, <2>1
<1> QED
  BY <1>6, <1>7 DEF a, d, e

LEMMA DivDiv ==
  ASSUME NEW a \in Nat, NEW b \in Pos, NEW c \in Pos
  PROVE  a \div (c * b) = (a \div b) \div c
<1> DEFINE q == a \div b
           r == a % b
           u == q \div c
           w == q % c
           m == c * b
<1>1. q \in Nat /\ r \in Nat /\ r < b /\ a = b * q + r
  BY DivFacts
<1> HIDE DEF q, r
<1>2. u \in Nat /\ w \in Nat /\ w < c /\ q = c * u + w
  BY <1>1, DivFacts
<1> HIDE DEF u, w
<1>3. m \in Pos /\ b \in Nat /\ c \in Nat
  BY TimesIsPos DEF Pos
<1> DEFINE t == b * w + r
<1>4. t \in Nat /\ t < m
  <2>1. b * w \in Nat
    BY <1>2, <1>3, TimesIsNat
  <2>2. w + 1 <= c /\ c - (w + 1) \in Nat
    BY <1>2, <1>3
  <2>3. b * (c - (w + 1)) \in Nat
    BY <1>3, <2>2, TimesIsNat
  <2>4. c * b = b * (c - (w + 1)) + b * w + b
    BY <1>2, <1>3
  <2> QED
    BY <1>1, <1>3, <2>1, <2>3, <2>4
<1>5. a = m * u + t
  <2>1. b * (c * u + w) = (c * b) * u + b * w
    BY <1>2, <1>3
  <2>2. b * w \in Nat /\ m * u \in Nat
    BY <1>2, <1>3, TimesIsNat DEF Pos
  <2> QED
    BY <1>1, <1>2, <2>1, <2>2
<1> HIDE DEF m, t
<1>6. a \div m = u
  BY <1>2, <1>3, <1>4, <1>5, DivIs
<1> QED
  BY <1>6 DEF m, u, q

-----------------------------------------------------------------------------
(* Where an element is.                                                    *)

\* index is that of an element of a tensor with shape s.
InShape(s, index) ==
  /\ index = [k \in 1 .. Len(s) |-> index[k]]
  /\ \A k \in 1 .. Len(s) : index[k] \in Nat /\ index[k] < s[k]

\* f runs through the partial sums of Place.
AddsUp(f, s, index) ==
  f[0] = 1 /\ \A k \in 1 .. Len(s) : f[k] = f[k - 1] + index[k] * Stride(s, k)

LEMMA PlaceAddsUp ==
  ASSUME NEW s \in Seq(Pos), NEW index, \A k \in 1 .. Len(s) : index[k] \in Nat
  PROVE  \E f : AddsUp(f, s, index) /\ f \in [0 .. Len(s) -> Nat] /\ Place(s, index) = f[Len(s)]
<1> DEFINE n == Len(s)
           Body(f) == [k \in 0 .. n |-> IF k = 0 THEN 1 ELSE f[k - 1] + index[k] * Stride(s, k)]
           upto == CHOOSE f : f = Body(f)
           X == (0 .. n) \X Nat
           F == [w \in X |-> w[2] + index[w[1] + 1] * Stride(s, w[1] + 1)]
<1>1. Place(s, index) = upto[n]
  BY DEF Place
<1>2. n \in Nat /\ <<0, 1>> \in X
  OBVIOUS
<1>3. ASSUME NEW k \in 1 .. n, NEW x, <<k - 1, x>> \in X
      PROVE  /\ F[<<k - 1, x>>] = x + index[k] * Stride(s, k)
             /\ <<k, F[<<k - 1, x>>]>> \in X
  <2>1. x \in Nat /\ (k - 1) + 1 = k /\ k \in 0 .. n
    BY <1>3
  <2>2. Stride(s, k) \in Nat
    BY <2>1, StrideSteps DEF Pos
  <2>3. F[<<k - 1, x>>] = x + index[k] * Stride(s, k)
    BY <1>3, <2>1
  <2>4. index[k] * Stride(s, k) \in Nat
    BY <2>2, TimesIsNat
  <2> QED
    BY <2>1, <2>3, <2>4, TimesIsNat
<1> HIDE DEF F, X
<1>4. StaysIn(n, F, X)
  BY <1>3 DEF StaysIn
<1>5. PICK f : Follows(f, n, 1, F, X) /\ AllIn(f, n, X)
  <2> HIDE DEF n
  <2> QED
    BY <1>2, <1>4, FollowersExist
<1>6. \A k \in 1 .. n : k \in 0 .. n /\ k - 1 \in 0 .. n /\ k # 0
  OBVIOUS
<1>7. f = Body(f)
  <2>1. ASSUME NEW k \in 0 .. n
        PROVE  f[k] = IF k = 0 THEN 1 ELSE f[k - 1] + index[k] * Stride(s, k)
    <3>1. k = 0 \/ k \in 1 .. n
      OBVIOUS
    <3>2. ASSUME k \in 1 .. n PROVE f[k] = f[k - 1] + index[k] * Stride(s, k)
      BY <1>3, <1>5, <1>6, <3>2 DEF Follows, AllIn
    <3> QED
      BY <1>5, <1>6, <3>1, <3>2, Zenon DEF Follows
  <2> QED
    BY <1>5, <2>1 DEF Follows
<1>8. upto = Body(upto)
  <2> HIDE DEF Body
  <2> QED
    BY <1>7
<1> HIDE DEF upto
<1>9. upto = [k \in 0 .. n |-> upto[k]] /\ AddsUp(upto, s, index)
  <2>1. upto = [k \in 0 .. n |-> upto[k]] /\ upto[0] = 1
    BY <1>8, <1>2
  <2>2. \A k \in 1 .. n : upto[k] = upto[k - 1] + index[k] * Stride(s, k)
    BY <1>6, <1>8, Zenon
  <2> QED
    BY <2>1, <2>2 DEF AddsUp
<1>10. Follows(upto, n, 1, F, X)
  BY <1>3, <1>9 DEF Follows, AddsUp
<1>11. AllIn(upto, n, X)
  <2> HIDE DEF n
  <2> QED
    BY <1>2, <1>4, <1>10, FollowersStay
<1>12. upto \in [0 .. n -> Nat]
  BY <1>9, <1>11 DEF AllIn, X
<1> QED
  BY <1>1, <1>9, <1>12

LEMMA PlaceIs ==
  ASSUME NEW s \in Seq(Pos), NEW index, \A k \in 1 .. Len(s) : index[k] \in Nat,
         NEW h, AddsUp(h, s, index)
  PROVE  Place(s, index) = h[Len(s)]
<1>1. PICK f : AddsUp(f, s, index) /\ f \in [0 .. Len(s) -> Nat] /\ Place(s, index) = f[Len(s)]
  BY PlaceAddsUp
<1> DEFINE Bad == {k \in 0 .. Len(s) : h[k] # f[k]}
<1>2. ASSUME Bad # {} PROVE FALSE
  <2>1. Bad \in SUBSET Nat
    OBVIOUS
  <2> HIDE DEF Bad
  <2>2. PICK k \in Bad : \A j \in Bad : k <= j
    BY <1>2, <2>1, LeastElement
  <2>3. k \in 0 .. Len(s) /\ h[k] # f[k]
    BY DEF Bad
  <2>4. k # 0
    BY <1>1, <2>3 DEF AddsUp
  <2>5. k \in 1 .. Len(s) /\ k - 1 \in 0 .. Len(s) /\ ~(k <= k - 1)
    BY <2>3, <2>4
  <2>6. h[k - 1] = f[k - 1]
    BY <2>2, <2>5 DEF Bad
  <2> QED
    BY <1>1, <2>3, <2>5, <2>6 DEF AddsUp
<1>3. Len(s) \in 0 .. Len(s)
  OBVIOUS
<1> QED
  BY <1>1, <1>2, <1>3

LEMMA PlaceInRange ==
  ASSUME NEW s \in Seq(Pos), NEW index, InShape(s, index)
  PROVE  Place(s, index) \in 1 .. Product(s)
<1> DEFINE n == Len(s)
           p == Product(s)
<1>1. n \in Nat /\ p \in Nat /\ \A k \in 1 .. n : index[k] \in Nat /\ index[k] < s[k] /\ s[k] \in Nat
  BY ProductIsPos DEF InShape, Pos
<1>2. PICK f : AddsUp(f, s, index) /\ f \in [0 .. n -> Nat] /\ Place(s, index) = f[n]
  BY <1>1, PlaceAddsUp
<1> DEFINE Fine(k) == f[k] >= 1 /\ f[k] - 1 + Stride(s, k) <= p
           Bad == {k \in 0 .. n : ~Fine(k)}
<1>3. ASSUME Bad # {} PROVE FALSE
  <2>1. Bad \in SUBSET Nat
    OBVIOUS
  <2> HIDE DEF Bad
  <2>2. PICK k \in Bad : \A j \in Bad : k <= j
    BY <1>3, <2>1, LeastElement
  <2>3. k \in 0 .. n /\ ~Fine(k)
    BY DEF Bad
  <2>4. k # 0
    <3>1. Stride(s, 0) = p /\ f[0] = 1
      BY <1>2, StrideSteps DEF AddsUp
    <3>2. Fine(0)
      BY <1>1, <3>1
    <3> QED
      BY <2>3, <3>2
  <2>5. k \in 1 .. n /\ k - 1 \in 0 .. n /\ ~(k <= k - 1)
    BY <1>1, <2>3, <2>4
  <2>6. Fine(k - 1)
    BY <2>2, <2>5 DEF Bad
  <2> DEFINE S == Stride(s, k)
             S1 == Stride(s, k - 1)
             i == index[k]
             d == s[k]
             a == f[k - 1]
  <2>7. S \in Nat /\ S1 = d * S
    BY <2>3, <2>5, StrideSteps DEF Pos
  <2>8. f[k] = a + i * S /\ a \in Nat /\ i \in Nat /\ d \in Nat /\ i < d
    BY <1>1, <1>2, <2>5 DEF AddsUp
  <2>9. a >= 1 /\ a - 1 + S1 <= p
    BY <2>6
  <2>10. ~(f[k] >= 1 /\ f[k] - 1 + S <= p)
    BY <2>3
  <2> HIDE DEF S, S1, i, d, a, Fine, n, p
  <2>11. d - (i + 1) \in Nat
    BY <2>8
  <2>12. (d - (i + 1)) * S \in Nat /\ i * S \in Nat /\ d * S \in Nat
    BY <2>7, <2>8, <2>11, TimesIsNat
  <2>13. d * S = (d - (i + 1)) * S + i * S + S
    BY <2>7, <2>8
  <2> QED
    BY <1>1, <2>7, <2>8, <2>9, <2>10, <2>12, <2>13
<1>4. Fine(n)
  BY <1>1, <1>3
<1>5. Stride(s, n) = 1 /\ f[n] \in Nat
  BY <1>1, <1>2, StrideSteps
<1> QED
  BY <1>1, <1>2, <1>4, <1>5

LEMMA PlaceOfIndex ==
  ASSUME NEW s \in Seq(Pos), NEW m \in 1 .. Product(s)
  PROVE  InShape(s, Index(s, m)) /\ Place(s, Index(s, m)) = m
<1> DEFINE n == Len(s)
           a == m - 1
           index == Index(s, m)
           h == [k \in 0 .. n |-> 1 + Stride(s, k) * (a \div Stride(s, k))]
<1>1. n \in Nat /\ Product(s) \in Pos /\ a \in Nat /\ a < Product(s) /\ DOMAIN s = 1 .. n
  BY ProductIsPos DEF Pos
<1>2. \A k \in 0 .. n : Stride(s, k) \in Pos
  BY StrideSteps
<1>3. index = [k \in 1 .. n |-> index[k]] /\ \A k \in 1 .. n : index[k] = (a \div Stride(s, k)) % s[k]
  BY <1>1 DEF Index
<1>4. ASSUME NEW k \in 1 .. n
      PROVE  /\ index[k] \in Nat /\ index[k] < s[k]
             /\ Stride(s, k) * (a \div Stride(s, k)) =
                  Stride(s, k - 1) * (a \div Stride(s, k - 1)) + index[k] * Stride(s, k)
  <2> DEFINE S == Stride(s, k)
             d == s[k]
             q == a \div S
             u == q \div d
             r == q % d
  <2>1. S \in Pos /\ d \in Pos /\ Stride(s, k - 1) = d * S /\ S \in Nat /\ d \in Nat
    BY <1>2, StrideSteps DEF Pos
  <2>2. q \in Nat
    BY <1>1, <2>1, DivFacts
  <2>3. a \div (d * S) = u
    BY <1>1, <2>1, DivDiv
  <2>4. index[k] = r
    BY <1>3
  <2> HIDE DEF q
  <2>5. u \in Nat /\ r \in Nat /\ r < d /\ q = d * u + r
    BY <2>1, <2>2, DivFacts
  <2> HIDE DEF u, r, S, d
  <2>6. S * (d * u + r) = (d * S) * u + r * S
    BY <2>1, <2>5
  <2> QED
    BY <2>1, <2>3, <2>4, <2>5, <2>6 DEF q, S, d
<1>5. InShape(s, index)
  BY <1>3, <1>4 DEF InShape
<1>6. h[0] = 1
  <2> DEFINE p == Product(s)
  <2>1. Stride(s, 0) = p /\ 0 \in 0 .. n
    BY <1>1, StrideSteps
  <2>2. a \div p = 0
    <3>1. a = p * 0 + a /\ 0 \in Nat
      BY <1>1 DEF Pos
    <3> HIDE DEF p, a
    <3>2. (p * 0 + a) \div p = 0
      BY <1>1, DivIs DEF p
    <3> QED
      BY <3>1, <3>2
  <2>3. h[0] = 1 + p * 0
    BY <2>1, <2>2
  <2> QED
    BY <1>1, <2>3 DEF Pos
<1>7. ASSUME NEW k \in 1 .. n PROVE h[k] = h[k - 1] + index[k] * Stride(s, k)
  <2> DEFINE A == Stride(s, k) * (a \div Stride(s, k))
             B == Stride(s, k - 1) * (a \div Stride(s, k - 1))
             C == index[k] * Stride(s, k)
  <2>1. k \in 0 .. n /\ k - 1 \in 0 .. n
    BY <1>1
  <2>2. h[k] = 1 + A /\ h[k - 1] = 1 + B
    BY <2>1
  <2>3. A = B + C
    BY <1>4
  <2>4. B \in Nat /\ C \in Nat
    <3>1. a \div Stride(s, k - 1) \in Nat
      BY <1>1, <1>2, <2>1, DivFacts
    <3> QED
      BY <1>2, <1>4, <2>1, <3>1, TimesIsNat DEF Pos
  <2> HIDE DEF A, B, C, h
  <2>5. h[k] = h[k - 1] + C
    BY <2>2, <2>3, <2>4
  <2> QED
    BY <2>5 DEF C
<1>8. h[n] = m
  <2>1. Stride(s, n) = 1 /\ n \in 0 .. n
    BY <1>1, StrideSteps
  <2>2. a \div 1 = a
    BY <1>1
  <2>3. h[n] = 1 + 1 * a
    BY <2>1, <2>2
  <2> QED
    BY <1>1, <2>3
<1> HIDE DEF h
<1>9. AddsUp(h, s, index)
  BY <1>6, <1>7 DEF AddsUp
<1>10. Place(s, index) = h[n]
  BY <1>4, <1>9, PlaceIs
<1> QED
  BY <1>5, <1>8, <1>10

\* Rows and columns.
LEMMA IndexOfPair ==
  ASSUME NEW a \in Pos, NEW b \in Pos, NEW i \in Nat, NEW j \in Nat, i < a, j < b
  PROVE  /\ InShape(<<a, b>>, <<i, j>>)
         /\ Index(<<a, b>>, Place(<<a, b>>, <<i, j>>)) = <<i, j>>
<1> DEFINE s == <<a, b>>
           index == <<i, j>>
           h == [k \in 0 .. 2 |-> IF k = 0 THEN 1 ELSE IF k = 1 THEN 1 + i * b ELSE 1 + i * b + j]
<1>1. /\ s \in Seq(Pos) /\ Len(s) = 2 /\ s[1] = a /\ s[2] = b /\ index[1] = i /\ index[2] = j
      /\ DOMAIN s = {1, 2} /\ index = [k \in 1 .. 2 |-> index[k]] /\ a \in Nat /\ b \in Nat
      /\ 1 .. 2 = {1, 2}
  BY DEF Pos
<1>2. Stride(s, 2) = 1 /\ Stride(s, 1) = b
  <2>1. Stride(s, 2) = 1 /\ Stride(s, 2 - 1) = s[2] * Stride(s, 2)
    BY <1>1, StrideSteps
  <2> QED
    BY <1>1, <2>1
<1> HIDE DEF s, index
<1>3. i * b \in Nat
  BY <1>1, TimesIsNat
<1>4. h[0] = 1 /\ h[1] = 1 + i * b /\ h[2] = 1 + i * b + j
  OBVIOUS
<1> HIDE DEF h
<1>5. AddsUp(h, s, index)
  <2>1. h[1] = h[1 - 1] + index[1] * Stride(s, 1)
    BY <1>1, <1>2, <1>3, <1>4
  <2>2. h[2] = h[2 - 1] + index[2] * Stride(s, 2)
    BY <1>1, <1>2, <1>3, <1>4
  <2> QED
    BY <1>1, <1>4, <2>1, <2>2 DEF AddsUp
<1>6. Place(s, index) = 1 + i * b + j
  BY <1>1, <1>4, <1>5, PlaceIs
<1>7. InShape(s, index)
  BY <1>1 DEF InShape
<1>8. Index(s, 1 + i * b + j) = <<i, j>>
  <2> DEFINE w == b * i + j
             x == Index(s, 1 + i * b + j)
  <2>1. (1 + i * b + j) - 1 = w
    BY <1>1, <1>3
  <2>2. w \div b = i /\ w % b = j
    BY DivIs
  <2>3. w \div 1 = w
    BY <1>1, TimesIsNat
  <2>4. i % a = i
    BY DEF Pos
  <2>5. x = [k \in {1, 2} |-> ((((1 + i * b + j) - 1) \div Stride(s, k)) % s[k])]
    BY <1>1 DEF Index
  <2> HIDE DEF w, x
  <2>6. x = [k \in {1, 2} |-> x[k]] /\ x[1] = i /\ x[2] = j
    BY <1>1, <1>2, <2>1, <2>2, <2>3, <2>4, <2>5
  <2>7. x = [k \in 1 .. 2 |-> <<i, j>>[k]]
    BY <1>1, <2>6
  <2> QED
    BY <2>7 DEF x
<1> QED
  BY <1>6, <1>7, <1>8 DEF s, index

-----------------------------------------------------------------------------
(* Terms that can be read as bytes, and narrowed, and are what they were.  *)

\* The bytes of a scalar of n bytes that was put together of bytes are those.
Whole(e, n) ==
  n # 1 /\ e[1] = "word" =>
    /\ Len(e[2]) = n /\ e[2] = [k \in 1 .. n |-> e[2][k]]
    /\ Word(e[2]) = e

\* With a term the set has the terms that an operation may take out of it.
Coherent(G) ==
  \A e \in G :
    /\ e[1] = "convert" /\ SizeInBytes(e[2]) < SizeInBytes(e[3]) =>
         e[4] \in G /\ Whole(e[4], SizeInBytes(e[2]))
    /\ e[1] = "add" => e[2] \in G /\ e[3] \in G
    /\ e[1] = "byte" => e[3] \in G
    /\ e[1] = "word" => \A k \in DOMAIN e[2] : e[2][k] \in G

Coh(e)     == \E G : Coherent(G) /\ e \in G
Good(e, n) == Coh(e) /\ Whole(e, n)

\* The tags of the terms that something is taken out of.
Tags == {"convert", "add", "byte", "word"}

LEMMA CohPlain ==
  ASSUME NEW e, e[1] \notin Tags
  PROVE  Coh(e) /\ \A n : Good(e, n)
<1> DEFINE G == {e}
<1>1. Coherent(G) /\ e \in G
  BY DEF Coherent, Tags
<1>2. \A n : Whole(e, n)
  BY DEF Whole, Tags
<1> QED
  BY <1>1, <1>2 DEF Coh, Good

LEMMA CoherentJoined ==
  ASSUME NEW G, NEW H, Coherent(G), Coherent(H)
  PROVE  Coherent(G \cup H)
BY DEF Coherent

LEMMA CohAdd ==
  ASSUME NEW e, NEW f, Coh(e), Coh(f)
  PROVE  Coh(<<"add", e, f>>) /\ \A n : Good(<<"add", e, f>>, n)
<1> DEFINE t == <<"add", e, f>>
<1>1. PICK G : Coherent(G) /\ e \in G
  BY DEF Coh
<1>2. PICK H : Coherent(H) /\ f \in H
  BY DEF Coh
<1> DEFINE J == G \cup H
           K == J \cup {t}
<1>3. Coherent(J) /\ e \in J /\ f \in J
  BY <1>1, <1>2, CoherentJoined
<1>4. t[1] = "add" /\ t[2] = e /\ t[3] = f
  OBVIOUS
<1> HIDE DEF t, J
<1>5. Coherent(K)
  BY <1>3, <1>4 DEF Coherent
<1>6. Coh(t)
  BY <1>5 DEF Coh
<1>7. \A n : Whole(t, n)
  BY <1>4 DEF Whole
<1> QED
  BY <1>6, <1>7 DEF Good, t

LEMMA CohByte ==
  ASSUME NEW e, NEW k, Coh(e)
  PROVE  Coh(<<"byte", k, e>>)
<1> DEFINE t == <<"byte", k, e>>
<1>1. PICK G : Coherent(G) /\ e \in G
  BY DEF Coh
<1> DEFINE K == G \cup {t}
<1>4. t[1] = "byte" /\ t[3] = e
  OBVIOUS
<1> HIDE DEF t
<1>5. Coherent(K)
  BY <1>1, <1>4 DEF Coherent
<1> QED
  BY <1>5 DEF Coh, t

LEMMA CohConvert ==
  ASSUME NEW e, NEW from, NEW to, Coh(e),
         SizeInBytes(from) < SizeInBytes(to) => Whole(e, SizeInBytes(from))
  PROVE  Coh(<<"convert", from, to, e>>) /\ \A n : Good(<<"convert", from, to, e>>, n)
<1> DEFINE t == <<"convert", from, to, e>>
<1>1. PICK G : Coherent(G) /\ e \in G
  BY DEF Coh
<1> DEFINE K == G \cup {t}
<1>4. t[1] = "convert" /\ t[2] = from /\ t[3] = to /\ t[4] = e
  OBVIOUS
<1> HIDE DEF t
<1>5. Coherent(K)
  BY <1>1, <1>4 DEF Coherent
<1>6. \A n : Whole(t, n)
  BY <1>4 DEF Whole
<1> QED
  BY <1>5, <1>6 DEF Coh, Good, t

LEMMA CohWord ==
  ASSUME NEW n, NEW s, s = [k \in 1 .. n |-> s[k]], \A k \in 1 .. n : Coh(s[k])
  PROVE  Coh(<<"word", s>>)
<1> DEFINE t == <<"word", s>>
           g == [k \in 1 .. n |-> CHOOSE G : Coherent(G) /\ s[k] \in G]
           J == UNION {g[k] : k \in 1 .. n}
           K == J \cup {t}
<1>1. ASSUME NEW k \in 1 .. n PROVE Coherent(g[k]) /\ s[k] \in g[k]
  BY DEF Coh
<1> HIDE DEF g
<1>2. Coherent(J)
  BY <1>1 DEF Coherent
<1>3. \A k \in 1 .. n : s[k] \in J
  BY <1>1
<1>4. t[1] = "word" /\ t[2] = s /\ DOMAIN s = 1 .. n
  OBVIOUS
<1> HIDE DEF t, J
<1>5. Coherent(K)
  BY <1>2, <1>3, <1>4 DEF Coherent
<1> QED
  BY <1>5 DEF Coh, t

LEMMA CohParts ==
  ASSUME NEW e, Coh(e)
  PROVE  /\ e[1] = "convert" /\ SizeInBytes(e[2]) < SizeInBytes(e[3]) =>
              Good(e[4], SizeInBytes(e[2]))
         /\ e[1] = "add" => Coh(e[2]) /\ Coh(e[3])
         /\ e[1] = "byte" => Coh(e[3])
         /\ e[1] = "word" => \A k \in DOMAIN e[2] : Coh(e[2][k])
<1>1. PICK G : Coherent(G) /\ e \in G
  BY DEF Coh
<1> QED
  BY <1>1 DEF Coherent, Coh, Good

Sizes1248 == {1, 2, 4, 8}

LEMMA SizeIs ==
  ASSUME NEW dtype \in Dtypes
  PROVE  SizeInBytes(dtype) \in Sizes1248 /\ SizeInBytes(dtype) \in Pos
BY DEF Dtypes, SizeInBytes, Sizes1248, Pos

LEMMA BytesOfIs ==
  ASSUME NEW e, NEW n
  PROVE  /\ n = 1 => BytesOf(e, n) = <<e>>
         /\ n # 1 /\ e[1] = "word" => BytesOf(e, n) = e[2]
         /\ n # 1 /\ e[1] # "word" => BytesOf(e, n) = [k \in 1 .. n |-> <<"byte", k, e>>]
BY DEF BytesOf

LEMMA WordIs ==
  ASSUME NEW bytes
  PROVE  /\ Len(bytes) = 1 => Word(bytes) = bytes[1]
         /\ Len(bytes) # 1 /\ bytes[1][1] = "byte" /\ bytes = BytesOf(bytes[1][3], Len(bytes)) =>
              Word(bytes) = bytes[1][3]
         /\ Len(bytes) # 1 /\ ~(bytes[1][1] = "byte" /\ bytes = BytesOf(bytes[1][3], Len(bytes))) =>
              Word(bytes) = <<"word", bytes>>
BY DEF Word

LEMMA BytesAreGood ==
  ASSUME NEW n \in Sizes1248, NEW e, Good(e, n), NEW b, b = BytesOf(e, n)
  PROVE  /\ b = [k \in 1 .. n |-> b[k]] /\ \A k \in 1 .. n : Good(b[k], 1)
         /\ Word(b) = e
<1>1. n \in Nat /\ n >= 1
  BY DEF Sizes1248
<1>2. \A x : Whole(x, 1)
  BY DEF Whole
<1>3. CASE n = 1
  <2>1. b = <<e>> /\ Len(b) = 1 /\ b[1] = e
    BY <1>3, BytesOfIs
  <2> QED
    BY <1>2, <1>3, <2>1, WordIs DEF Good
<1>4. CASE n # 1 /\ e[1] = "word"
  <2>1. b = e[2] /\ Len(b) = n /\ b = [k \in 1 .. n |-> b[k]] /\ Word(b) = e
    BY <1>4, BytesOfIs DEF Good, Whole
  <2>2. \A k \in 1 .. n : Coh(b[k])
    <3>1. Coh(e) /\ DOMAIN b = 1 .. n
      BY <2>1 DEF Good
    <3> QED
      BY <1>4, <2>1, <3>1, CohParts
  <2> QED
    BY <1>2, <2>1, <2>2 DEF Good
<1>5. CASE n # 1 /\ e[1] # "word"
  <2>1. b = [k \in 1 .. n |-> <<"byte", k, e>>]
    BY <1>5, BytesOfIs
  <2>2. Len(b) = n /\ b[1] = <<"byte", 1, e>> /\ b = [k \in 1 .. n |-> b[k]]
    BY <1>1, <2>1
  <2>3. b[1][1] = "byte" /\ b[1][3] = e
    BY <2>2
  <2>4. Word(b) = e
    BY <1>5, <2>2, <2>3, WordIs
  <2>5. \A k \in 1 .. n : Coh(b[k])
    BY <2>1, CohByte DEF Good
  <2> QED
    BY <1>2, <2>2, <2>4, <2>5 DEF Good
<1> QED
  BY <1>3, <1>4, <1>5

LEMMA WordIsGood ==
  ASSUME NEW n \in Sizes1248, NEW b, b = [k \in 1 .. n |-> b[k]], \A k \in 1 .. n : Coh(b[k])
  PROVE  Good(Word(b), n)
<1>1. n \in Nat /\ n >= 1 /\ Len(b) = n /\ DOMAIN b = 1 .. n /\ 1 \in 1 .. n
  BY DEF Sizes1248
<1>2. CASE n = 1
  BY <1>1, <1>2, WordIs DEF Good, Whole
<1>3. CASE n # 1 /\ b[1][1] = "byte" /\ b = BytesOf(b[1][3], n)
  <2> DEFINE e == b[1][3]
  <2>1. Word(b) = e
    BY <1>1, <1>3, WordIs
  <2>2. Coh(e)
    BY <1>1, <1>3, CohParts
  <2>3. ASSUME e[1] = "word" PROVE e[2] = b
    BY <1>3, <2>3, BytesOfIs
  <2> HIDE DEF e
  <2>4. Whole(e, n)
    BY <1>1, <2>1, <2>3 DEF Whole
  <2> QED
    BY <2>1, <2>2, <2>4 DEF Good
<1>4. CASE n # 1 /\ ~(b[1][1] = "byte" /\ b = BytesOf(b[1][3], n))
  <2> DEFINE t == <<"word", b>>
  <2>1. Word(b) = t /\ t[1] = "word" /\ t[2] = b
    BY <1>1, <1>4, WordIs
  <2>2. Coh(t)
    BY <1>1, CohWord
  <2> HIDE DEF t
  <2>3. Whole(t, n)
    BY <1>1, <2>1 DEF Whole
  <2> QED
    BY <2>1, <2>2, <2>3 DEF Good
<1> QED
  BY <1>2, <1>3, <1>4

NarrowedIs(r, f, from, to) ==
  r = IF f[1] = "convert" /\ f[2] = to /\ f[3] = from THEN f[4] ELSE <<"convert", from, to, f>>

LEMMA ConvertedIs ==
  ASSUME NEW e, NEW from, NEW to, NEW r, r = Converted(e, from, to)
  PROVE  /\ from = to => r = e
         /\ from # to /\ SizeInBytes(to) < SizeInBytes(from) =>
              IF e[1] = "add"
              THEN \E a, b : /\ r = <<"add", a, b>>
                             /\ NarrowedIs(a, e[2], from, to) /\ NarrowedIs(b, e[3], from, to)
              ELSE NarrowedIs(r, e, from, to)
         /\ from # to /\ ~(SizeInBytes(to) < SizeInBytes(from)) => r = <<"convert", from, to, e>>
<1>1. from = to => r = e
  BY DEF Converted
<1>2. from # to /\ ~(SizeInBytes(to) < SizeInBytes(from)) => r = <<"convert", from, to, e>>
  BY DEF Converted
<1>3. from # to /\ SizeInBytes(to) < SizeInBytes(from) => r = Narrowed(e, from, to)
  BY DEF Converted
<1>4. e[1] # "add" => NarrowedIs(Narrowed(e, from, to), e, from, to)
  BY DEF Narrowed, NarrowedIs
<1>5. e[1] = "add" => \E a, b : /\ Narrowed(e, from, to) = <<"add", a, b>>
                             /\ NarrowedIs(a, e[2], from, to) /\ NarrowedIs(b, e[3], from, to)
  BY DEF Narrowed, NarrowedIs
<1> QED
  BY <1>1, <1>2, <1>3, <1>4, <1>5

LEMMA NarrowedIsGood ==
  ASSUME NEW from \in Dtypes, NEW to \in Dtypes, SizeInBytes(to) < SizeInBytes(from),
         NEW f, Coh(f), NEW r, NarrowedIs(r, f, from, to)
  PROVE  Good(r, SizeInBytes(to))
<1>1. CASE f[1] = "convert" /\ f[2] = to /\ f[3] = from
  BY <1>1, CohParts DEF NarrowedIs
<1>2. CASE ~(f[1] = "convert" /\ f[2] = to /\ f[3] = from)
  <2>1. r = <<"convert", from, to, f>>
    BY <1>2 DEF NarrowedIs
  <2>2. ~(SizeInBytes(from) < SizeInBytes(to))
    BY SizeIs DEF Pos
  <2> QED
    BY <2>1, <2>2, CohConvert
<1> QED
  BY <1>1, <1>2

LEMMA ConvertedIsGood ==
  ASSUME NEW from \in Dtypes, NEW to \in Dtypes, NEW e, Good(e, SizeInBytes(from))
  PROVE  Good(Converted(e, from, to), SizeInBytes(to))
<1> DEFINE r == Converted(e, from, to)
<1>1. CASE from = to
  <2>1. r = e
    BY <1>1, ConvertedIs
  <2> QED
    BY <1>1, <2>1
<1>2. CASE from # to /\ SizeInBytes(to) < SizeInBytes(from) /\ e[1] # "add"
  <2>1. NarrowedIs(r, e, from, to)
    BY <1>2, ConvertedIs
  <2> QED
    BY <1>2, <2>1, NarrowedIsGood DEF Good
<1>3. CASE from # to /\ SizeInBytes(to) < SizeInBytes(from) /\ e[1] = "add"
  <2>1. PICK a, b : /\ r = <<"add", a, b>>
                    /\ NarrowedIs(a, e[2], from, to) /\ NarrowedIs(b, e[3], from, to)
    BY <1>3, ConvertedIs
  <2>2. Coh(e[2]) /\ Coh(e[3])
    BY <1>3, CohParts DEF Good
  <2>3. Coh(a) /\ Coh(b)
    BY <1>3, <2>1, <2>2, NarrowedIsGood DEF Good
  <2> QED
    BY <2>1, <2>3, CohAdd
<1>4. CASE from # to /\ ~(SizeInBytes(to) < SizeInBytes(from))
  <2>1. r = <<"convert", from, to, e>>
    BY <1>4, ConvertedIs
  <2> QED
    BY <2>1, CohConvert DEF Good
<1> QED
  BY <1>1, <1>2, <1>3, <1>4

LEMMA CombinedIsGood ==
  ASSUME NEW op \in BinaryOps, NEW n, NEW e, Good(e, n), NEW f, Coh(f)
  PROVE  Good(Combined(op, e, f), n)
<1>1. CASE Combined(op, e, f) = e
  BY <1>1
<1>2. CASE Combined(op, e, f) = <<op, e, f>> /\ op = "add"
  BY <1>2, CohAdd DEF Good
<1>3. CASE Combined(op, e, f) = <<op, e, f>> /\ op # "add"
  <2>1. <<op, e, f>>[1] = op /\ op \notin Tags
    BY <1>3 DEF BinaryOps, Tags
  <2> QED
    BY <1>3, <2>1, CohPlain
<1> QED
  BY <1>1, <1>2, <1>3 DEF Combined

LEMMA InnerProductIsGood ==
  ASSUME NEW m, NEW n, NEW row, DOMAIN row = 1 .. m, \A k \in 1 .. m : Good(row[k], n), NEW column
  PROVE  Good(InnerProduct(row, column), n)
<1> DEFINE terms == {k \in DOMAIN row : column[k] # Zero}
           times(k) == IF column[k] = One THEN row[k] ELSE <<"multiply", row[k], column[k]>>
           p == InnerProduct(row, column)
           s == [k \in DOMAIN row |-> IF k \in terms THEN times(k) ELSE Zero]
           j == CHOOSE k \in terms : TRUE
<1>1. p = IF \E k \in terms : terms = {k} THEN times(j) ELSE <<"sum", s>>
  BY DEF InnerProduct
<1>2. CASE \E k \in terms : terms = {k}
  <2>1. j \in 1 .. m
    BY <1>2
  <2>2. p = times(j)
    BY <1>1, <1>2
  <2> HIDE DEF terms, p, j
  <2>3. <<"multiply", row[j], column[j]>>[1] \notin Tags
    BY DEF Tags
  <2>4. Good(p, n)
    BY <2>1, <2>2, <2>3, CohPlain
  <2> QED
    BY <2>4 DEF p
<1>3. CASE ~ \E k \in terms : terms = {k}
  <2>1. p = <<"sum", s>>
    BY <1>1, <1>3
  <2> HIDE DEF p, s
  <2>2. <<"sum", s>>[1] \notin Tags
    BY DEF Tags
  <2>3. Good(p, n)
    BY <2>1, <2>2, CohPlain
  <2> QED
    BY <2>3 DEF p
<1> QED
  BY <1>2, <1>3

-----------------------------------------------------------------------------
(* Tensors.                                                                *)

IsShapePos(s) == s \in Seq(Pos) /\ s # <<>>

\* A tensor whose elements are scalars of the type home, or their bytes.
IsTensor(v, home) ==
  /\ v = [shape |-> v.shape, dtype |-> v.dtype, elems |-> v.elems]
  /\ IsShapePos(v.shape)
  /\ home \in Dtypes /\ v.dtype \in {home, "U8"}
  /\ v.elems = [n \in 1 .. Product(v.shape) |-> v.elems[n]]
  /\ \A n \in 1 .. Product(v.shape) : Good(v.elems[n], SizeInBytes(v.dtype))

LEMMA TupleIs ==
  ASSUME NEW n \in Nat, NEW s, s = [k \in 1 .. n |-> s[k]]
  PROVE  Tuple(s) = s
<1>1. s \in Seq({s[k] : k \in 1 .. n})
  OBVIOUS
<1> QED
  BY <1>1 DEF Tuple

LEMMA PosShapeFacts ==
  ASSUME NEW s, IsShapePos(s)
  PROVE  /\ s \in Seq(Nat) /\ Len(s) \in Nat \ {0} /\ Len(s) \in Nat /\ DOMAIN s = 1 .. Len(s)
         /\ s = [k \in 1 .. Len(s) |-> s[k]]
         /\ \A k \in 1 .. Len(s) : s[k] \in Pos /\ s[k] \in Nat
         /\ Product(s) \in Pos /\ Product(s) \in Nat /\ Product(s) >= 1
         /\ Tuple(s) = s
<1>1. s \in Seq(Pos) /\ s # <<>>
  BY DEF IsShapePos
<1>2. s \in Seq(Nat) /\ Product(s) \in Pos
  BY <1>1, ProductIsPos
<1>3. Tuple(s) = s
  BY <1>1 DEF Tuple
<1> QED
  BY <1>1, <1>2, <1>3 DEF Pos

LEMMA TensorFacts ==
  ASSUME NEW v, NEW home, IsTensor(v, home)
  PROVE  /\ IsShapePos(v.shape) /\ v.dtype \in Dtypes /\ home \in Dtypes
         /\ SizeInBytes(v.dtype) \in Sizes1248
         /\ Product(v.shape) \in Nat /\ Product(v.shape) >= 1
         /\ Len(v.elems) = Product(v.shape) /\ DOMAIN v.elems = 1 .. Product(v.shape)
<1>1. IsShapePos(v.shape) /\ v.elems = [n \in 1 .. Product(v.shape) |-> v.elems[n]]
  BY DEF IsTensor
<1>2. v.dtype \in Dtypes /\ home \in Dtypes
  BY DEF IsTensor, Dtypes
<1>3. Product(v.shape) \in Nat /\ Product(v.shape) >= 1
  BY <1>1, PosShapeFacts
<1> QED
  BY <1>1, <1>2, <1>3, SizeIs

LEMMA ElementIsGood ==
  ASSUME NEW v, NEW home, IsTensor(v, home), NEW index, InShape(v.shape, index)
  PROVE  Good(Element(v, index), SizeInBytes(v.dtype))
<1>1. Place(v.shape, index) \in 1 .. Product(v.shape)
  BY PlaceInRange DEF IsTensor, IsShapePos
<1> QED
  BY <1>1 DEF Element, IsTensor

IsArray(E, n) == E = [k \in 1 .. n |-> E[k]]

\* What Tensor makes.
MadeOf(v, shape, dtype, E) == v = [shape |-> Tuple(shape), dtype |-> dtype, elems |-> Tuple(E)]

LEMMA BuiltTensor ==
  ASSUME NEW shape, IsShapePos(shape), NEW home \in Dtypes, NEW dtype \in {home, "U8"},
         NEW E, IsArray(E, Product(shape)),
         \A n \in 1 .. Product(shape) : Good(E[n], SizeInBytes(dtype)),
         NEW v, MadeOf(v, shape, dtype, E)
  PROVE  IsTensor(v, home) /\ v.shape = shape /\ v.dtype = dtype /\ v.elems = E
<1>1. Tuple(shape) = shape /\ Product(shape) \in Nat
  BY PosShapeFacts
<1>2. Tuple(E) = E /\ E = [k \in 1 .. Product(shape) |-> E[k]]
  BY <1>1, TupleIs DEF IsArray
<1>3. v.shape = shape /\ v.dtype = dtype /\ v.elems = E /\ v = [shape |-> shape, dtype |-> dtype, elems |-> E]
  BY <1>1, <1>2 DEF MadeOf
<1> QED
  BY <1>2, <1>3 DEF IsTensor

\* Tensors are equal when their parts are.
LEMMA SameTensor ==
  ASSUME NEW v, NEW h, IsTensor(v, h), NEW w, NEW k, IsTensor(w, k),
         v.shape = w.shape, v.dtype = w.dtype,
         \A n \in 1 .. Product(v.shape) : v.elems[n] = w.elems[n]
  PROVE  v = w
<1>1. v.elems = [n \in 1 .. Product(v.shape) |-> v.elems[n]] /\ w.elems = [n \in 1 .. Product(v.shape) |-> w.elems[n]]
  BY DEF IsTensor
<1>2. v.elems = w.elems
  BY <1>1
<1> QED
  BY <1>2 DEF IsTensor

\* The elements of a tensor that is used as one.
LEMMA NothingIsNone == ~IsShapePos(Nothing.shape)
<1>1. Nothing.shape = <<0>>
  BY DEF Nothing
<1>2. <<0>>[1] = 0 /\ Len(<<0>>) = 1
  OBVIOUS
<1> QED
  BY <1>1, <1>2, PosShapeFacts DEF Pos

-----------------------------------------------------------------------------
(* Operations.                                                             *)

LEMMA EyeIs ==
  ASSUME NEW S \in Pos, NEW dtype \in Dtypes, NEW v, v = Eye(S, dtype)
  PROVE  /\ IsTensor(v, dtype) /\ v.shape = <<S, S>> /\ v.dtype = dtype
         /\ \A n \in 1 .. Product(<<S, S>>) :
              v.elems[n] = IF Index(<<S, S>>, n)[1] = Index(<<S, S>>, n)[2] THEN One ELSE Zero
<1> DEFINE shape == <<S, S>>
           E == [n \in 1 .. Product(shape) |->
                  IF Index(shape, n)[1] = Index(shape, n)[2] THEN One ELSE Zero]
<1>1. MadeOf(v, shape, dtype, E)
  BY DEF MadeOf, Eye, Tensor
<1>2. IsShapePos(shape)
  BY DEF IsShapePos
<1>3. One[1] \notin Tags /\ Zero[1] \notin Tags
  BY DEF One, Zero, Tags
<1>4. \A n \in 1 .. Product(shape) : Good(E[n], SizeInBytes(dtype))
  BY <1>3, CohPlain
<1>5. IsArray(E, Product(shape))
  BY DEF IsArray
<1>6. \A n \in 1 .. Product(shape) : E[n] = IF Index(shape, n)[1] = Index(shape, n)[2] THEN One ELSE Zero
  OBVIOUS
<1> HIDE DEF E
<1>7. IsTensor(v, dtype) /\ v.shape = shape /\ v.dtype = dtype /\ v.elems = E
  BY <1>1, <1>2, <1>4, <1>5, BuiltTensor
<1> QED
  BY <1>6, <1>7

LEMMA PairIs ==
  ASSUME NEW s \in Seq(Pos), Len(s) = 2
  PROVE  s = <<s[1], s[2]>> /\ s[1] \in Pos /\ s[2] \in Pos
OBVIOUS

\* Row and column of an element of a product.
DotRow(x, y, n) ==
  [k \in 1 .. x.shape[2] |-> Element(x, <<Index(<<x.shape[1], y.shape[2]>>, n)[1], k - 1>>)]
DotColumn(x, y, n) ==
  [k \in 1 .. x.shape[2] |-> Element(y, <<k - 1, Index(<<x.shape[1], y.shape[2]>>, n)[2]>>)]

LEMMA IndexInPair ==
  ASSUME NEW a \in Pos, NEW b \in Pos, NEW n \in 1 .. Product(<<a, b>>),
         NEW i, NEW j, i = Index(<<a, b>>, n)[1], j = Index(<<a, b>>, n)[2]
  PROVE  i \in Nat /\ j \in Nat /\ i < a /\ j < b /\ Index(<<a, b>>, n) = <<i, j>>
<1>1. <<a, b>> \in Seq(Pos) /\ Len(<<a, b>>) = 2
  OBVIOUS
<1>2. InShape(<<a, b>>, Index(<<a, b>>, n))
  BY <1>1, PlaceOfIndex
<1> DEFINE x == Index(<<a, b>>, n)
<1>3. x = [k \in 1 .. 2 |-> x[k]] /\ \A k \in 1 .. 2 : x[k] \in Nat /\ x[k] < <<a, b>>[k]
  BY <1>1, <1>2 DEF InShape
<1> HIDE DEF x
<1> QED
  BY <1>3 DEF x

LEMMA DotIs ==
  ASSUME NEW x, NEW h, IsTensor(x, h), NEW y, NEW k0, IsTensor(y, k0),
         Len(x.shape) = 2, Len(y.shape) = 2, x.shape[2] = y.shape[1],
         NEW v, v = Dot(x, y)
  PROVE  /\ IsTensor(v, h) /\ v.shape = <<x.shape[1], y.shape[2]>> /\ v.dtype = x.dtype
         /\ \A n \in 1 .. Product(v.shape) :
              v.elems[n] = InnerProduct(DotRow(x, y, n), DotColumn(x, y, n))
<1> DEFINE shape == <<x.shape[1], y.shape[2]>>
           E == [n \in 1 .. Product(shape) |-> InnerProduct(DotRow(x, y, n), DotColumn(x, y, n))]
<1>1. MadeOf(v, shape, x.dtype, E)
  BY DEF MadeOf, Dot, Tensor, DotRow, DotColumn
<1>2. /\ x.shape \in Seq(Pos) /\ y.shape \in Seq(Pos) /\ h \in Dtypes /\ x.dtype \in {h, "U8"}
  BY DEF IsTensor, IsShapePos
<1>3. /\ x.shape = <<x.shape[1], x.shape[2]>> /\ x.shape[1] \in Pos /\ x.shape[2] \in Pos
      /\ y.shape[2] \in Pos
  BY <1>2, PairIs
<1>4. IsShapePos(shape)
  BY <1>3 DEF IsShapePos
<1>5. ASSUME NEW n \in 1 .. Product(shape)
      PROVE  Good(InnerProduct(DotRow(x, y, n), DotColumn(x, y, n)), SizeInBytes(x.dtype))
  <2> DEFINE i == Index(shape, n)[1]
             row == DotRow(x, y, n)
  <2>1. i \in Nat /\ i < x.shape[1]
    BY <1>3, IndexInPair
  <2>2. row = [k \in 1 .. x.shape[2] |-> Element(x, <<i, k - 1>>)]
    BY DEF DotRow
  <2> HIDE DEF i, row
  <2>3. ASSUME NEW k \in 1 .. x.shape[2] PROVE Good(row[k], SizeInBytes(x.dtype))
    <3>1. k - 1 \in Nat /\ k - 1 < x.shape[2]
      BY <1>3 DEF Pos
    <3>2. InShape(x.shape, <<i, k - 1>>)
      BY <1>3, <2>1, <3>1, IndexOfPair
    <3> QED
      BY <2>2, <3>2, ElementIsGood
  <2>4. DOMAIN row = 1 .. x.shape[2]
    BY <2>2
  <2> QED
    BY <2>3, <2>4, InnerProductIsGood DEF row
<1>6. IsArray(E, Product(shape))
      /\ \A n \in 1 .. Product(shape) : E[n] = InnerProduct(DotRow(x, y, n), DotColumn(x, y, n))
  BY DEF IsArray
<1> HIDE DEF E, shape
<1>7. IsTensor(v, h) /\ v.shape = shape /\ v.dtype = x.dtype /\ v.elems = E
  BY <1>1, <1>2, <1>4, <1>5, <1>6, BuiltTensor
<1> QED
  BY <1>6, <1>7 DEF shape

\* The first and the end of what a slice keeps of a dimension.
SliceFrom(ranges, k)  == IF 2 * k <= Len(ranges) THEN ranges[2 * k - 1] ELSE 0
SliceTo(x, ranges, k) == IF 2 * k <= Len(ranges) THEN ranges[2 * k] ELSE x.shape[k]

SliceShape(x, ranges) ==
  [k \in DOMAIN x.shape |-> (SliceTo(x, ranges, k) - SliceFrom(ranges, k) + 1 - 1) \div 1]

SliceIndex(x, ranges, n) ==
  LET index == Index(SliceShape(x, ranges), n)
  IN  [k \in DOMAIN index |-> SliceFrom(ranges, k) + 1 * index[k]]

LEMMA SliceIs ==
  ASSUME NEW x, NEW h, IsTensor(x, h), NEW ranges \in Seq(Nat), NEW v, v = Slice(x, ranges, 1),
         IsShapePos(v.shape)
  PROVE  /\ IsTensor(v, h) /\ v.shape = SliceShape(x, ranges) /\ v.dtype = x.dtype
         /\ \A n \in 1 .. Product(v.shape) :
              /\ v.elems[n] = Element(x, SliceIndex(x, ranges, n))
              /\ InShape(x.shape, SliceIndex(x, ranges, n))
         /\ \A k \in DOMAIN x.shape : SliceTo(x, ranges, k) <= x.shape[k]
<1> DEFINE shape == SliceShape(x, ranges)
           E == [n \in 1 .. Product(shape) |-> Element(x, SliceIndex(x, ranges, n))]
           d == Len(x.shape)
<1>1. \A k \in DOMAIN x.shape : ~(SliceTo(x, ranges, k) > x.shape[k])
  <2>1. ASSUME NEW k \in DOMAIN x.shape, SliceTo(x, ranges, k) > x.shape[k] PROVE FALSE
    <3>1. v = Nothing
      BY <2>1 DEF Slice, SliceTo
    <3> QED
      BY <3>1, NothingIsNone
  <2> QED
    BY <2>1
<1>2. MadeOf(v, shape, x.dtype, E)
  BY <1>1 DEF MadeOf, Slice, Tensor, SliceShape, SliceIndex, SliceTo, SliceFrom
<1>3. IsShapePos(x.shape) /\ h \in Dtypes /\ x.dtype \in {h, "U8"}
  BY DEF IsTensor
<1>4. /\ d \in Nat /\ DOMAIN x.shape = 1 .. d
      /\ \A k \in 1 .. d : x.shape[k] \in Nat
  BY <1>3, PosShapeFacts
<1>5. shape = [k \in 1 .. d |-> shape[k]]
  BY <1>4 DEF SliceShape
<1>6. v.shape = shape /\ Len(shape) = d
  <2> HIDE DEF E, shape
  <2>1. Tuple(shape) = shape
    BY <1>4, <1>5, TupleIs
  <2> QED
    BY <1>2, <1>4, <1>5, <2>1 DEF MadeOf
<1>7. ASSUME NEW k \in 1 .. d
      PROVE  /\ SliceFrom(ranges, k) \in Nat /\ SliceTo(x, ranges, k) \in Nat
             /\ SliceTo(x, ranges, k) <= x.shape[k]
             /\ shape[k] = SliceTo(x, ranges, k) - SliceFrom(ranges, k)
  <2>1. SliceFrom(ranges, k) \in Nat
    <3>1. 2 * k <= Len(ranges) => 2 * k - 1 \in 1 .. Len(ranges)
      BY <1>4
    <3> QED
      BY <3>1 DEF SliceFrom
  <2>2. SliceTo(x, ranges, k) \in Nat
    <3>1. 2 * k <= Len(ranges) => 2 * k \in 1 .. Len(ranges)
      BY <1>4
    <3> QED
      BY <1>4, <3>1 DEF SliceTo
  <2> DEFINE f == SliceFrom(ranges, k)
             t == SliceTo(x, ranges, k)
  <2>3. shape[k] = (t - f + 1 - 1) \div 1
    BY <1>4 DEF SliceShape
  <2>4. t <= x.shape[k]
    <3>1. ~(t > x.shape[k]) /\ x.shape[k] \in Nat
      BY <1>1, <1>4
    <3> HIDE DEF t
    <3> QED
      BY <2>2, <3>1 DEF t
  <2> HIDE DEF f, t, shape
  <2>5. shape[k] = t - f
    BY <2>1, <2>2, <2>3 DEF f, t
  <2> QED
    BY <2>1, <2>2, <2>4, <2>5 DEF f, t
<1>8. ASSUME NEW n \in 1 .. Product(shape)
      PROVE  InShape(x.shape, SliceIndex(x, ranges, n))
  <2> DEFINE index == Index(shape, n)
             i == SliceIndex(x, ranges, n)
  <2>1. InShape(shape, index)
    BY <1>6, PlaceOfIndex DEF IsShapePos
  <2>2. index = [k \in 1 .. d |-> index[k]] /\ \A k \in 1 .. d : index[k] \in Nat /\ index[k] < shape[k]
    BY <1>6, <2>1 DEF InShape
  <2>3. i = [k \in DOMAIN index |-> SliceFrom(ranges, k) + 1 * index[k]]
    BY DEF SliceIndex
  <2> HIDE DEF index, i
  <2>4. i = [k \in 1 .. d |-> SliceFrom(ranges, k) + 1 * index[k]]
    BY <2>2, <2>3
  <2>5. i = [k \in 1 .. d |-> i[k]] /\ \A k \in 1 .. d : i[k] = SliceFrom(ranges, k) + 1 * index[k]
    BY <2>4
  <2>6. ASSUME NEW k \in 1 .. d PROVE i[k] \in Nat /\ i[k] < x.shape[k]
    <3> DEFINE f == SliceFrom(ranges, k)
               t == SliceTo(x, ranges, k)
    <3>1. f \in Nat /\ t \in Nat /\ t <= x.shape[k] /\ shape[k] = t - f /\ x.shape[k] \in Nat
      BY <1>4, <1>7
    <3>2. i[k] = f + 1 * index[k] /\ index[k] \in Nat /\ index[k] < shape[k]
      BY <2>2, <2>5
    <3> HIDE DEF f, t, shape
    <3> QED
      BY <3>1, <3>2
  <2> QED
    BY <2>5, <2>6 DEF InShape, i
<1>9. IsArray(E, Product(shape))
      /\ \A n \in 1 .. Product(shape) : E[n] = Element(x, SliceIndex(x, ranges, n))
  BY DEF IsArray
<1> HIDE DEF E, shape
<1>10. \A n \in 1 .. Product(shape) : Good(E[n], SizeInBytes(x.dtype))
  BY <1>8, <1>9, ElementIsGood
<1>11. IsTensor(v, h) /\ v.shape = shape /\ v.dtype = x.dtype /\ v.elems = E
  BY <1>2, <1>3, <1>6, <1>9, <1>10, BuiltTensor
<1> QED
  BY <1>4, <1>7, <1>8, <1>9, <1>11 DEF shape

LEMMA ReshapeIs ==
  ASSUME NEW x, NEW h, IsTensor(x, h), NEW shape, IsShapePos(shape),
         NEW v, v = Reshape(x, shape), IsShapePos(v.shape)
  PROVE  /\ IsTensor(v, h) /\ v.shape = shape /\ v.dtype = x.dtype /\ v.elems = x.elems
         /\ Product(shape) = Product(x.shape)
<1>1. Product(shape) = Len(x.elems)
  BY NothingIsNone DEF Reshape
<1>2. v = [x EXCEPT !.shape = shape]
  BY <1>1 DEF Reshape
<1>3. Product(shape) = Product(x.shape)
  BY <1>1, TensorFacts
<1>4. v.shape = shape /\ v.dtype = x.dtype /\ v.elems = x.elems /\ v = [shape |-> v.shape, dtype |-> v.dtype, elems |-> v.elems]
  BY <1>2 DEF IsTensor
<1> QED
  BY <1>3, <1>4 DEF IsTensor

LEMMA ConvertIs ==
  ASSUME NEW x, NEW h, IsTensor(x, h), NEW to \in Dtypes, NEW v, v = Convert(x, to)
  PROVE  /\ IsTensor(v, to) /\ v.shape = x.shape /\ v.dtype = to
         /\ \A n \in 1 .. Product(x.shape) : v.elems[n] = Converted(x.elems[n], x.dtype, to)
<1> DEFINE E == [n \in 1 .. Product(x.shape) |-> Converted(x.elems[n], x.dtype, to)]
<1>1. /\ x = [shape |-> x.shape, dtype |-> x.dtype, elems |-> x.elems] /\ DOMAIN x.elems = 1 .. Product(x.shape)
      /\ IsShapePos(x.shape) /\ x.dtype \in Dtypes
  BY TensorFacts DEF IsTensor
<1>2. Tuple(x.shape) = x.shape
  BY <1>1, PosShapeFacts
<1>3. MadeOf(v, x.shape, to, E)
  BY <1>1, <1>2 DEF MadeOf, Convert
<1>4. IsArray(E, Product(x.shape))
      /\ \A n \in 1 .. Product(x.shape) : E[n] = Converted(x.elems[n], x.dtype, to)
  BY DEF IsArray
<1> HIDE DEF E
<1>5. \A n \in 1 .. Product(x.shape) : Good(E[n], SizeInBytes(to))
  BY <1>1, <1>4, ConvertedIsGood DEF IsTensor
<1> QED
  BY <1>1, <1>3, <1>4, <1>5, BuiltTensor

LEMMA UnaryIs ==
  ASSUME NEW x, NEW h, IsTensor(x, h), NEW op \in UnaryOps, NEW v, v = Unary(op, x)
  PROVE  /\ IsTensor(v, h) /\ v.shape = x.shape /\ v.dtype = x.dtype
<1> DEFINE E == [n \in 1 .. Product(x.shape) |-> <<op, x.elems[n]>>]
<1>1. /\ x = [shape |-> x.shape, dtype |-> x.dtype, elems |-> x.elems] /\ DOMAIN x.elems = 1 .. Product(x.shape)
      /\ IsShapePos(x.shape) /\ x.dtype \in {h, "U8"} /\ h \in Dtypes
  BY TensorFacts DEF IsTensor
<1>2. Tuple(x.shape) = x.shape
  BY <1>1, PosShapeFacts
<1>3. MadeOf(v, x.shape, x.dtype, E)
  BY <1>1, <1>2 DEF MadeOf, Unary
<1>4. IsArray(E, Product(x.shape))
      /\ \A n \in 1 .. Product(x.shape) : E[n] = <<op, x.elems[n]>>
  BY DEF IsArray
<1> HIDE DEF E
<1>5. op \notin Tags
  BY DEF Tags, UnaryOps
<1>6. \A n \in 1 .. Product(x.shape) : Good(E[n], SizeInBytes(x.dtype))
  <2>1. ASSUME NEW n \in 1 .. Product(x.shape) PROVE Good(<<op, x.elems[n]>>, SizeInBytes(x.dtype))
    BY <1>5, CohPlain
  <2> QED
    BY <1>4, <2>1
<1> QED
  BY <1>1, <1>3, <1>4, <1>6, BuiltTensor

\* What a binary operation makes, element by element.
IsCombined(v, home, op, x, y) ==
  /\ IsTensor(v, home) /\ v.shape = x.shape /\ v.dtype = x.dtype
  /\ \A n \in 1 .. Product(x.shape) : v.elems[n] = Combined(op, x.elems[n], y.elems[n])

LEMMA BinaryIs ==
  ASSUME NEW x, NEW h, IsTensor(x, h), NEW y, NEW k0, IsTensor(y, k0), NEW op \in BinaryOps,
         x.shape = y.shape, NEW v, v = Binary(op, x, y)
  PROVE  IsCombined(v, h, op, x, y)
<1> DEFINE E == [n \in 1 .. Product(x.shape) |-> Combined(op, x.elems[n], y.elems[n])]
<1>1. /\ x = [shape |-> x.shape, dtype |-> x.dtype, elems |-> x.elems] /\ DOMAIN x.elems = 1 .. Product(x.shape)
      /\ IsShapePos(x.shape) /\ x.dtype \in {h, "U8"} /\ h \in Dtypes
  BY TensorFacts DEF IsTensor
<1>2. Tuple(x.shape) = x.shape
  BY <1>1, PosShapeFacts
<1>3. MadeOf(v, x.shape, x.dtype, E)
  BY <1>1, <1>2 DEF MadeOf, Binary
<1>4. IsArray(E, Product(x.shape))
      /\ \A n \in 1 .. Product(x.shape) : E[n] = Combined(op, x.elems[n], y.elems[n])
  BY DEF IsArray
<1> HIDE DEF E
<1>6. \A n \in 1 .. Product(x.shape) : Good(E[n], SizeInBytes(x.dtype))
  BY <1>4, CombinedIsGood DEF IsTensor, Good
<1>7. IsTensor(v, h) /\ v.shape = x.shape /\ v.dtype = x.dtype /\ v.elems = E
  BY <1>1, <1>3, <1>4, <1>6, BuiltTensor
<1> QED
  BY <1>4, <1>7 DEF IsCombined

LEMMA ConstantIs ==
  ASSUME NEW dtype \in Dtypes, NEW text, NEW v, v = Scalar(<<"constant", text>>, dtype)
  PROVE  IsTensor(v, dtype) /\ v.shape = <<1>> /\ v.dtype = dtype
<1> DEFINE e == <<"constant", text>>
<1>1. v = [shape |-> <<1>>, dtype |-> dtype, elems |-> <<e>>]
  BY DEF Scalar
<1>2. e[1] \notin Tags
  BY DEF Tags
<1> HIDE DEF e
<1>3. Good(e, SizeInBytes(dtype))
  BY <1>2, CohPlain
<1>4. Product(<<1>>) = 1
  BY ProductOfOne
<1>5. IsShapePos(<<1>>)
  BY DEF IsShapePos, Pos
<1>6. v.shape = <<1>> /\ v.dtype = dtype /\ v.elems = <<e>> /\ v = [shape |-> v.shape, dtype |-> v.dtype, elems |-> v.elems]
  BY <1>1
<1>7. <<e>> = [n \in 1 .. 1 |-> <<e>>[n]] /\ \A n \in 1 .. 1 : <<e>>[n] = e
  OBVIOUS
<1> QED
  BY <1>3, <1>4, <1>5, <1>6, <1>7 DEF IsTensor

\* The bytes of an input.
InputBytes(shape, text) == Tensor(shape, "U8", LAMBDA index : <<"input", text, index[1]>>)

LEMMA ArrayIsSeq ==
  ASSUME NEW S, NEW n \in Nat, NEW f, IsArray(f, n), \A k \in 1 .. n : f[k] \in S
  PROVE  f \in Seq(S) /\ Len(f) = n /\ DOMAIN f = 1 .. n
<1>1. f = [k \in 1 .. n |-> f[k]]
  BY DEF IsArray
<1> QED
  BY <1>1

VarElement(shape, text, m) == <<"input", text, Index(shape, m)[1]>>

LEMMA VarElementIs ==
  ASSUME NEW n \in Pos, NEW text, NEW m \in 1 .. n
  PROVE  VarElement(<<n>>, text, m) = <<"input", text, m - 1>>
<1> DEFINE shape == <<n>>
<1>1. n \in Nat /\ shape \in Seq(Pos) /\ Len(shape) = 1 /\ shape[1] = n /\ 1 \in DOMAIN shape
  BY DEF Pos
<1> HIDE DEF shape
<1>2. Stride(shape, 1) = 1
  BY <1>1, StrideSteps
<1>3. Index(shape, m)[1] = ((m - 1) \div 1) % n
  BY <1>1, <1>2 DEF Index
<1>4. ((m - 1) \div 1) % n = m - 1
  BY <1>1
<1>5. VarElement(shape, text, m) = <<"input", text, m - 1>>
  BY <1>3, <1>4 DEF VarElement
<1> QED
  BY <1>5 DEF shape

LEMMA VarMakes ==
  ASSUME NEW n \in Pos, NEW home \in Dtypes, NEW text, NEW v,
         v = InputBytes(<<n>>, text)
  PROVE  /\ IsTensor(v, home) /\ v.shape = <<n>> /\ v.dtype = "U8"
         /\ \A m \in 1 .. n : v.elems[m] = <<"input", text, m - 1>>
<1> DEFINE E == [m \in 1 .. Product(<<n>>) |-> VarElement(<<n>>, text, m)]
<1>1. MadeOf(v, <<n>>, "U8", E)
  BY DEF MadeOf, Tensor, InputBytes, VarElement
<1>2. IsShapePos(<<n>>) /\ n \in Nat
  BY DEF IsShapePos, Pos
<1>3. Product(<<n>>) = n
  BY <1>2, ProductOfOne
<1>4. IsArray(E, Product(<<n>>))
      /\ \A m \in 1 .. Product(<<n>>) : E[m] = VarElement(<<n>>, text, m)
  BY DEF IsArray
<1> HIDE DEF E
<1>5. ASSUME NEW m \in 1 .. Product(<<n>>)
      PROVE  E[m] = <<"input", text, m - 1>> /\ Good(E[m], SizeInBytes("U8"))
  <2>1. E[m] = <<"input", text, m - 1>>
    BY <1>3, <1>4, VarElementIs
  <2>2. <<"input", text, m - 1>>[1] \notin Tags
    BY DEF Tags
  <2> QED
    BY <2>1, <2>2, CohPlain
<1>6. \A m \in 1 .. Product(<<n>>) : Good(E[m], SizeInBytes("U8"))
  BY <1>5
<1>7. "U8" \in {home, "U8"}
  OBVIOUS
<1>8. IsTensor(v, home) /\ v.shape = <<n>> /\ v.dtype = "U8" /\ v.elems = E
  BY <1>1, <1>2, <1>4, <1>6, <1>7, BuiltTensor
<1> QED
  BY <1>3, <1>5, <1>8

-----------------------------------------------------------------------------

\* The element of an input that an element of a broadcast is.
BroadcastElement(x, shape, dims, n) ==
  IF Len(x.elems) = 1 THEN x.elems[1]
  ELSE Element(x, [k \in DOMAIN dims |-> Index(shape, n)[dims[k] + 1]])

LEMMA BroadcastMakes ==
  ASSUME NEW x, NEW shape, NEW dims, NEW v, v = Broadcast(x, shape, dims)
  PROVE  \E E : /\ MadeOf(v, shape, x.dtype, E) /\ IsArray(E, Product(shape))
                /\ \A n \in 1 .. Product(shape) : E[n] = BroadcastElement(x, shape, dims, n)
<1> DEFINE E == [n \in 1 .. Product(shape) |-> BroadcastElement(x, shape, dims, n)]
<1>1. MadeOf(v, shape, x.dtype, E)
  BY DEF MadeOf, Broadcast, Tensor, BroadcastElement
<1>2. IsArray(E, Product(shape))
      /\ \A n \in 1 .. Product(shape) : E[n] = BroadcastElement(x, shape, dims, n)
  BY DEF IsArray
<1> QED
  BY <1>1, <1>2

Leading(x) == [k \in DOMAIN x.shape |-> k - 1]

LEMMA BroadcastIs ==
  ASSUME NEW x, NEW h, IsTensor(x, h), NEW shape, IsShapePos(shape),
         Product(x.shape) = 1 \/ \A k \in DOMAIN x.shape : k \in DOMAIN shape /\ x.shape[k] = shape[k],
         NEW v, v = Broadcast(x, shape, Leading(x))
  PROVE  /\ IsTensor(v, h) /\ v.shape = shape /\ v.dtype = x.dtype
         /\ \A n \in 1 .. Product(shape) : v.elems[n] = BroadcastElement(x, shape, Leading(x), n)
<1>1. /\ h \in Dtypes /\ x.dtype \in {h, "U8"} /\ IsShapePos(x.shape) /\ DOMAIN x.shape = 1 .. Len(x.shape)
      /\ Len(x.elems) = Product(x.shape)
  BY TensorFacts, PosShapeFacts DEF IsTensor
<1>2. PICK E : /\ MadeOf(v, shape, x.dtype, E) /\ IsArray(E, Product(shape))
               /\ \A n \in 1 .. Product(shape) : E[n] = BroadcastElement(x, shape, Leading(x), n)
  BY BroadcastMakes
<1>3. ASSUME NEW n \in 1 .. Product(shape)
      PROVE  Good(BroadcastElement(x, shape, Leading(x), n), SizeInBytes(x.dtype))
  <2>1. CASE Len(x.elems) = 1
    <3>1. 1 \in 1 .. Product(x.shape)
      BY <1>1, <2>1
    <3> QED
      BY <2>1, <3>1 DEF BroadcastElement, IsTensor
  <2>2. CASE Len(x.elems) # 1
    <3> DEFINE index == Index(shape, n)
               i == [k \in DOMAIN Leading(x) |-> index[Leading(x)[k] + 1]]
    <3>1. InShape(shape, index)
      BY PlaceOfIndex DEF IsShapePos
    <3>2. \A k \in 1 .. Len(shape) : index[k] \in Nat /\ index[k] < shape[k]
      BY <3>1 DEF InShape
    <3>3. \A k \in DOMAIN x.shape : k \in 1 .. Len(shape) /\ x.shape[k] = shape[k]
      BY <1>1, <2>2, PosShapeFacts
    <3>4. DOMAIN Leading(x) = 1 .. Len(x.shape) /\ \A k \in 1 .. Len(x.shape) : Leading(x)[k] + 1 = k
      BY <1>1 DEF Leading
    <3>5. i = [k \in 1 .. Len(x.shape) |-> i[k]] /\ \A k \in 1 .. Len(x.shape) : i[k] = index[k]
      BY <3>4
    <3> HIDE DEF i, index
    <3>6. InShape(x.shape, i)
      BY <1>1, <3>2, <3>3, <3>5 DEF InShape
    <3>7. Good(Element(x, i), SizeInBytes(x.dtype))
      BY <3>6, ElementIsGood
    <3> QED
      BY <2>2, <3>7 DEF BroadcastElement, i, index
  <2> QED
    BY <2>1, <2>2
<1>4. IsTensor(v, h) /\ v.shape = shape /\ v.dtype = x.dtype /\ v.elems = E
  BY <1>1, <1>2, <1>3, BuiltTensor
<1> QED
  BY <1>2, <1>4

\* A broadcast to the same shape changes nothing.
LEMMA BroadcastToSame ==
  ASSUME NEW x, NEW h, IsTensor(x, h)
  PROVE  Broadcast(x, x.shape, Leading(x)) = x
<1> DEFINE v == Broadcast(x, x.shape, Leading(x))
<1>1. /\ IsShapePos(x.shape) /\ DOMAIN x.shape = 1 .. Len(x.shape) /\ Len(x.elems) = Product(x.shape)
      /\ Product(x.shape) \in Nat
  BY TensorFacts, PosShapeFacts DEF IsTensor
<1>2. /\ IsTensor(v, h) /\ v.shape = x.shape /\ v.dtype = x.dtype
      /\ \A n \in 1 .. Product(x.shape) : v.elems[n] = BroadcastElement(x, x.shape, Leading(x), n)
  BY <1>1, BroadcastIs
<1>3. ASSUME NEW n \in 1 .. Product(x.shape)
      PROVE  BroadcastElement(x, x.shape, Leading(x), n) = x.elems[n]
  <2>1. CASE Len(x.elems) = 1
    <3>1. n = 1
      BY <1>1, <2>1
    <3> QED
      BY <2>1, <3>1 DEF BroadcastElement
  <2>2. CASE Len(x.elems) # 1
    <3> DEFINE index == Index(x.shape, n)
               i == [k \in DOMAIN Leading(x) |-> index[Leading(x)[k] + 1]]
    <3>1. InShape(x.shape, index) /\ Place(x.shape, index) = n
      BY PlaceOfIndex DEF IsTensor, IsShapePos
    <3>2. index = [k \in 1 .. Len(x.shape) |-> index[k]]
      BY <3>1 DEF InShape
    <3>3. DOMAIN Leading(x) = 1 .. Len(x.shape) /\ \A k \in 1 .. Len(x.shape) : Leading(x)[k] + 1 = k
      BY <1>1 DEF Leading
    <3>4. i = [k \in 1 .. Len(x.shape) |-> index[k]]
      BY <3>3
    <3> HIDE DEF i, index
    <3>5. Element(x, i) = x.elems[n]
      BY <3>1, <3>2, <3>4 DEF Element
    <3> QED
      BY <2>2, <3>5 DEF BroadcastElement, i, index
  <2> QED
    BY <2>1, <2>2
<1> HIDE DEF v
<1>4. v = x
  BY <1>2, <1>3, SameTensor
<1> QED
  BY <1>4 DEF v

-----------------------------------------------------------------------------

ConcatElement(x, y, d, n, shape) ==
  LET index == Index(shape, n)
  IN  IF index[d] < x.shape[d] THEN Element(x, index)
      ELSE Element(y, [index EXCEPT ![d] = @ - x.shape[d]])

LEMMA ConcatIs ==
  ASSUME NEW x, NEW h, IsTensor(x, h), NEW y, NEW k0, IsTensor(y, k0), y.dtype = x.dtype,
         NEW dim \in Nat, dim + 1 \in DOMAIN x.shape, Len(x.shape) = Len(y.shape),
         \A k \in DOMAIN x.shape : k # dim + 1 => x.shape[k] = y.shape[k],
         NEW v, v = Concat(x, y, dim)
  PROVE  /\ IsTensor(v, h) /\ v.dtype = x.dtype
         /\ v.shape = [x.shape EXCEPT ![dim + 1] = @ + y.shape[dim + 1]]
<1> DEFINE d == dim + 1
           shape == [x.shape EXCEPT ![d] = @ + y.shape[d]]
           E == [n \in 1 .. Product(shape) |-> ConcatElement(x, y, d, n, shape)]
           m == Len(x.shape)
<1>1. /\ h \in Dtypes /\ x.dtype \in {h, "U8"} /\ IsShapePos(x.shape) /\ IsShapePos(y.shape)
  BY DEF IsTensor
<1>2. /\ m \in Nat /\ m # 0 /\ DOMAIN x.shape = 1 .. m /\ DOMAIN y.shape = 1 .. m
      /\ IsArray(x.shape, m)
      /\ \A k \in 1 .. m : x.shape[k] \in Nat /\ x.shape[k] # 0 /\ y.shape[k] \in Nat /\ y.shape[k] # 0
  BY <1>1, PosShapeFacts DEF Pos, IsArray
<1>3. MadeOf(v, shape, x.dtype, E)
  BY DEF MadeOf, Concat, Tensor, ConcatElement
<1>4. /\ IsArray(shape, m)
      /\ \A k \in 1 .. m : shape[k] = IF k = d THEN x.shape[d] + y.shape[d] ELSE x.shape[k]
  <2>1. x.shape = [k \in 1 .. m |-> x.shape[k]]
    BY <1>2 DEF IsArray
  <2>2. d \in 1 .. m
    BY <1>2
  <2> QED
    BY <2>1, <2>2 DEF IsArray
<1>5. IsArray(E, Product(shape))
      /\ \A n \in 1 .. Product(shape) : E[n] = ConcatElement(x, y, d, n, shape)
  BY DEF IsArray
<1>6. d \in 1 .. m /\ d \in Nat
  BY <1>2
<1> HIDE DEF shape, E, d
<1>7. shape \in Seq(Pos) /\ Len(shape) = m /\ IsShapePos(shape)
  <2>1. ASSUME NEW k \in 1 .. m PROVE shape[k] \in Pos
    <3>1. x.shape[k] \in Nat /\ x.shape[k] # 0 /\ x.shape[d] \in Nat /\ y.shape[d] \in Nat /\ y.shape[d] # 0
      BY <1>2, <1>6
    <3>2. shape[k] = IF k = d THEN x.shape[d] + y.shape[d] ELSE x.shape[k]
      BY <1>4
    <3> QED
      BY <3>1, <3>2 DEF Pos
  <2>2. shape \in Seq(Pos) /\ Len(shape) = m
    <3>1. m \in Nat /\ IsArray(shape, m)
      BY <1>2, <1>4
    <3> HIDE DEF m
    <3> QED
      BY <2>1, <3>1, ArrayIsSeq
  <2> QED
    BY <1>2, <2>2 DEF IsShapePos
<1>8. ASSUME NEW n \in 1 .. Product(shape)
      PROVE  Good(ConcatElement(x, y, d, n, shape), SizeInBytes(x.dtype))
  <2> DEFINE index == Index(shape, n)
             moved == [index EXCEPT ![d] = @ - x.shape[d]]
  <2>1. InShape(shape, index)
    BY <1>7, PlaceOfIndex
  <2>2. index = [k \in 1 .. m |-> index[k]] /\ \A k \in 1 .. m : index[k] \in Nat /\ index[k] < shape[k]
    BY <1>7, <2>1 DEF InShape
  <2> HIDE DEF index
  <2>3. ASSUME index[d] < x.shape[d] PROVE InShape(x.shape, index)
    <3>1. \A k \in 1 .. m : index[k] < x.shape[k]
      BY <1>4, <2>2, <2>3
    <3> QED
      BY <1>2, <2>2, <3>1 DEF InShape
  <2>4. ASSUME ~(index[d] < x.shape[d]) PROVE InShape(y.shape, moved)
    <3>1. moved = [k \in 1 .. m |-> moved[k]]
          /\ \A k \in 1 .. m : moved[k] = IF k = d THEN index[d] - x.shape[d] ELSE index[k]
      BY <2>2
    <3> HIDE DEF moved
    <3>2. ASSUME NEW k \in 1 .. m PROVE moved[k] \in Nat /\ moved[k] < y.shape[k]
      <4>1. CASE k = d
        <5> DEFINE a == x.shape[d]
                   b == y.shape[d]
                   c == index[d]
        <5>1. shape[d] = a + b /\ a \in Nat /\ b \in Nat /\ c \in Nat /\ c < shape[d] /\ ~(c < a)
          BY <1>2, <1>4, <1>6, <2>2, <2>4
        <5>2. moved[k] = c - a /\ y.shape[k] = b
          BY <3>1, <4>1
        <5> HIDE DEF a, b, c
        <5> QED
          BY <5>1, <5>2
      <4>2. CASE k # d
        <5>1. x.shape[k] = y.shape[k]
          BY <1>2, <4>2 DEF d
        <5> QED
          BY <1>4, <2>2, <3>1, <4>2, <5>1
      <4> QED
        BY <4>1, <4>2
    <3>3. Len(y.shape) = m
      OBVIOUS
    <3> QED
      BY <3>1, <3>2, <3>3 DEF InShape
  <2> HIDE DEF moved
  <2>5. index[d] < x.shape[d] => Good(Element(x, index), SizeInBytes(x.dtype))
    BY <2>3, ElementIsGood
  <2>6. ~(index[d] < x.shape[d]) => Good(Element(y, moved), SizeInBytes(x.dtype))
    BY <2>4, ElementIsGood
  <2> QED
    BY <2>5, <2>6 DEF ConcatElement, index, moved
<1>10. \A n \in 1 .. Product(shape) : Good(E[n], SizeInBytes(x.dtype))
  BY <1>5, <1>8
<1>11. IsShapePos(shape) /\ IsArray(E, Product(shape))
  BY <1>5, <1>7
<1>9. IsTensor(v, h) /\ v.shape = shape /\ v.dtype = x.dtype /\ v.elems = E
  BY <1>1, <1>3, <1>10, <1>11, BuiltTensor
<1> QED
  BY <1>9 DEF shape, d

-----------------------------------------------------------------------------

TransposeShape(x, perm) == [k \in DOMAIN perm |-> x.shape[perm[k]]]

TransposeAt(perm, j) == CHOOSE k \in DOMAIN perm : perm[k] = j

TransposeIndex(x, perm, n) ==
  [j \in DOMAIN perm |-> Index(TransposeShape(x, perm), n)[TransposeAt(perm, j)]]

OrdersAxes(perm, s) ==
  /\ perm \in Seq(Nat) /\ Len(perm) = Len(s)
  /\ \A k \in DOMAIN perm : perm[k] \in DOMAIN s
  /\ \A j \in DOMAIN s : \E k \in DOMAIN perm : perm[k] = j

LEMMA TransposeIs ==
  ASSUME NEW x, NEW h, IsTensor(x, h), NEW perm, OrdersAxes(perm, x.shape),
         NEW v, v = Transpose(x, perm)
  PROVE  IsTensor(v, h) /\ v.shape = TransposeShape(x, perm) /\ v.dtype = x.dtype
<1> DEFINE shape == TransposeShape(x, perm)
           E == [n \in 1 .. Product(shape) |-> Element(x, TransposeIndex(x, perm, n))]
           m == Len(x.shape)
<1>0. /\ perm \in Seq(Nat) /\ Len(perm) = Len(x.shape)
      /\ \A k \in DOMAIN perm : perm[k] \in DOMAIN x.shape
      /\ \A j \in DOMAIN x.shape : \E k \in DOMAIN perm : perm[k] = j
  BY DEF OrdersAxes
<1>1. /\ h \in Dtypes /\ x.dtype \in {h, "U8"} /\ IsShapePos(x.shape)
  BY DEF IsTensor
<1>2. /\ m \in Nat /\ m # 0 /\ DOMAIN x.shape = 1 .. m /\ DOMAIN perm = 1 .. m
      /\ \A k \in 1 .. m : x.shape[k] \in Pos
  BY <1>0, <1>1, PosShapeFacts DEF Pos
<1>3. MadeOf(v, shape, x.dtype, E)
  BY <1>0 DEF MadeOf, Transpose, Tensor, TransposeShape, TransposeIndex, TransposeAt
<1>4. /\ IsArray(shape, m) /\ \A k \in 1 .. m : shape[k] = x.shape[perm[k]]
  BY <1>0, <1>2 DEF TransposeShape, IsArray
<1>5. IsArray(E, Product(shape))
      /\ \A n \in 1 .. Product(shape) : E[n] = Element(x, TransposeIndex(x, perm, n))
  BY DEF IsArray
<1> HIDE DEF shape, E
<1>7. shape \in Seq(Pos) /\ Len(shape) = m /\ IsShapePos(shape)
  <2>1. \A k \in 1 .. m : shape[k] \in Pos
    BY <1>0, <1>2, <1>4
  <2>2. shape \in Seq(Pos) /\ Len(shape) = m
    <3>1. m \in Nat /\ IsArray(shape, m)
      BY <1>0, <1>2, <1>4
    <3> HIDE DEF m
    <3> QED
      BY <2>1, <3>1, ArrayIsSeq
  <2> QED
    BY <1>2, <2>2 DEF IsShapePos
<1>8. ASSUME NEW n \in 1 .. Product(shape)
      PROVE  Good(Element(x, TransposeIndex(x, perm, n)), SizeInBytes(x.dtype))
  <2> DEFINE index == Index(shape, n)
             i == TransposeIndex(x, perm, n)
  <2>1. InShape(shape, index)
    BY <1>7, PlaceOfIndex
  <2>2. \A k \in 1 .. m : index[k] \in Nat /\ index[k] < shape[k]
    BY <1>7, <2>1 DEF InShape
  <2>3. i = [j \in 1 .. m |-> index[TransposeAt(perm, j)]]
    BY <1>0, <1>2 DEF TransposeIndex, shape
  <2>4. \A j \in 1 .. m : TransposeAt(perm, j) \in 1 .. m /\ perm[TransposeAt(perm, j)] = j
    BY <1>0, <1>2 DEF TransposeAt
  <2> HIDE DEF index, i
  <2>5. IsArray(i, m) /\ \A j \in 1 .. m : i[j] = index[TransposeAt(perm, j)]
    BY <2>3 DEF IsArray
  <2>7. ASSUME NEW j \in 1 .. m PROVE i[j] \in Nat /\ i[j] < x.shape[j]
    <3> DEFINE k == TransposeAt(perm, j)
    <3>1. k \in 1 .. m /\ perm[k] = j
      BY <2>4
    <3> HIDE DEF k
    <3>2. i[j] = index[k]
      BY <2>5 DEF k
    <3>3. shape[k] = x.shape[j]
      BY <1>4, <3>1
    <3>4. index[k] \in Nat /\ index[k] < shape[k]
      BY <2>2, <3>1
    <3> QED
      BY <3>2, <3>3, <3>4
  <2>6. InShape(x.shape, i)
    BY <2>5, <2>7 DEF InShape, IsArray
  <2> QED
    BY <2>6, ElementIsGood DEF i
<1>10. \A n \in 1 .. Product(shape) : Good(E[n], SizeInBytes(x.dtype))
  BY <1>5, <1>8
<1>11. IsShapePos(shape) /\ IsArray(E, Product(shape))
  BY <1>5, <1>7
<1>9. IsTensor(v, h) /\ v.shape = shape /\ v.dtype = x.dtype /\ v.elems = E
  BY <1>1, <1>3, <1>10, <1>11, BuiltTensor
<1> QED
  BY <1>9 DEF shape

-----------------------------------------------------------------------------

ReduceShape(x, d) ==
  LET kept == [k \in 1 .. Len(x.shape) - 1 |-> x.shape[IF k < d THEN k ELSE k + 1]]
  IN  IF kept = <<>> THEN <<1>> ELSE kept

ReduceElement(kind, x, d, n) ==
  <<kind, [j \in 1 .. x.shape[d] |->
             Element(x, [k \in DOMAIN x.shape |->
                           CASE k = d -> j - 1 [] k < d -> Index(ReduceShape(x, d), n)[k]
                             [] OTHER -> Index(ReduceShape(x, d), n)[k - 1]])]>>

LEMMA ReduceIs ==
  ASSUME NEW x, NEW h, IsTensor(x, h), NEW kind \in Reductions, NEW dim,
         IsShapePos(ReduceShape(x, dim + 1)), NEW v, v = Reduce(kind, x, dim)
  PROVE  IsTensor(v, h) /\ v.shape = ReduceShape(x, dim + 1) /\ v.dtype = x.dtype
<1> DEFINE d == dim + 1
           shape == ReduceShape(x, d)
           E == [n \in 1 .. Product(shape) |-> ReduceElement(kind, x, d, n)]
<1>1. /\ h \in Dtypes /\ x.dtype \in {h, "U8"}
  BY DEF IsTensor
<1>2. MadeOf(v, shape, x.dtype, E)
  BY DEF MadeOf, Reduce, Tensor, ReduceShape, ReduceElement
<1>3. IsArray(E, Product(shape))
      /\ \A n \in 1 .. Product(shape) : E[n] = ReduceElement(kind, x, d, n)
  BY DEF IsArray
<1> HIDE DEF shape, E
<1>4. kind \notin Tags
  BY DEF Tags, Reductions
<1>5. ASSUME NEW n \in 1 .. Product(shape)
      PROVE  Good(ReduceElement(kind, x, d, n), SizeInBytes(x.dtype))
  <2>1. ReduceElement(kind, x, d, n)[1] = kind
    BY DEF ReduceElement
  <2> QED
    BY <1>4, <2>1, CohPlain
<1>6. IsTensor(v, h) /\ v.shape = shape /\ v.dtype = x.dtype /\ v.elems = E
  BY <1>1, <1>2, <1>3, <1>5, BuiltTensor DEF shape
<1> QED
  BY <1>6 DEF shape

-----------------------------------------------------------------------------
(* Bitcasts: to bytes and back.                                            *)

BytesPart(x, n, m) == BytesOf(x.elems[1 + (m - 1) \div n], n)[1 + ((m - 1) % n)]

WordPart(x, n, m) == Word([k \in 1 .. n |-> x.elems[(m - 1) * n + k]])

LEMMA WithSizeIs ==
  ASSUME NEW s, IsShapePos(s), NEW dtype \in Dtypes
  PROVE  /\ IsShapePos(WithSize(s, dtype))
         /\ Product(WithSize(s, dtype)) = Product(s) * SizeInBytes(dtype)
         /\ SizeInBytes(dtype) = 1 => WithSize(s, dtype) = s
         /\ SizeInBytes(dtype) # 1 => WithSize(s, dtype) = Append(s, SizeInBytes(dtype))
<1>1. s \in Seq(Pos) /\ s \in Seq(Nat) /\ Product(s) \in Nat
  BY PosShapeFacts DEF IsShapePos
<1>2. SizeInBytes(dtype) \in Pos /\ SizeInBytes(dtype) \in Nat
  BY SizeIs DEF Pos
<1>3. CASE SizeInBytes(dtype) = 1
  BY <1>1, <1>3 DEF WithSize
<1>4. CASE SizeInBytes(dtype) # 1
  <2>1. WithSize(s, dtype) = Append(s, SizeInBytes(dtype))
    BY <1>4 DEF WithSize
  <2>2. Append(s, SizeInBytes(dtype)) \in Seq(Pos) /\ Append(s, SizeInBytes(dtype)) # <<>>
    BY <1>1, <1>2
  <2>3. Product(Append(s, SizeInBytes(dtype))) = Product(s) * SizeInBytes(dtype)
    BY <1>1, <1>2, ProductOfAppend
  <2> QED
    BY <1>4, <2>1, <2>2, <2>3 DEF IsShapePos
<1> QED
  BY <1>3, <1>4

\* The place of a byte of a scalar.
LEMMA BytePlace ==
  ASSUME NEW n \in Pos, NEW p \in Nat, NEW m \in 1 .. p, NEW k \in 1 .. n,
         NEW at, at = (m - 1) * n + k
  PROVE  /\ at \in 1 .. p * n
         /\ 1 + (at - 1) \div n = m /\ 1 + ((at - 1) % n) = k
<1>1. n \in Nat /\ n > 0 /\ m - 1 \in Nat /\ k - 1 \in Nat /\ k - 1 < n
  BY DEF Pos
<1>2. (n * (m - 1) + (k - 1)) \div n = m - 1 /\ (n * (m - 1) + (k - 1)) % n = k - 1
  BY <1>1, DivIs
<1>3. at - 1 = n * (m - 1) + (k - 1)
  BY <1>1
<1>4. (m - 1) * n <= (p - 1) * n /\ (p - 1) * n + n = p * n /\ (m - 1) * n \in Nat /\ p * n \in Nat
  <2>1. m - 1 <= p - 1 /\ p - 1 \in Nat
    OBVIOUS
  <2> QED
    BY <1>1, <2>1, SMTT(30)
<1>5. at \in 1 .. p * n
  <2> DEFINE a == (m - 1) * n
             b == (p - 1) * n
             c == p * n
  <2>3. b \in Nat
    BY <1>1
  <2>1. a <= b /\ b + n = c /\ a \in Nat /\ b \in Nat /\ c \in Nat /\ at = a + k
    BY <1>4, <2>3
  <2> HIDE DEF a, b, c
  <2>2. at \in 1 .. c
    BY <1>1, <2>1
  <2> QED
    BY <2>2 DEF c
<1> QED
  BY <1>1, <1>2, <1>3, <1>5

LEMMA PlaceOfByte ==
  ASSUME NEW n \in Pos, NEW p \in Nat, NEW at \in 1 .. p * n
  PROVE  1 + (at - 1) \div n \in 1 .. p /\ 1 + ((at - 1) % n) \in 1 .. n
<1>1. n \in Nat /\ n > 0 /\ p * n \in Nat /\ at - 1 \in Nat /\ at - 1 < p * n
  BY DEF Pos
<1> DEFINE q == (at - 1) \div n
           r == (at - 1) % n
<1>2. q \in Nat /\ r \in Nat /\ r < n /\ at - 1 = n * q + r
  BY <1>1, DivFacts
<1> HIDE DEF q, r
<1>3. q < p
  <2>1. ASSUME q >= p PROVE FALSE
    <3>1. n * q >= n * p
      BY <1>1, <1>2, <2>1, SMTT(30)
    <3>2. n * p = p * n /\ n * q \in Nat
      BY <1>1, <1>2
    <3> QED
      BY <1>1, <1>2, <3>1, <3>2
  <2> QED
    BY <1>2, <2>1
<1>4. 1 + q \in 1 .. p /\ 1 + r \in 1 .. n
  BY <1>1, <1>2, <1>3
<1> QED
  BY <1>4 DEF q, r

BytesTensor(x, n) ==
  [shape |-> Append(x.shape, n), dtype |-> "U8",
   elems |-> Tuple([m \in 1 .. Len(x.elems) * n |-> BytesPart(x, n, m)])]

WordsTensor(x, n, dtype) ==
  [shape |-> SubSeq(x.shape, 1, Len(x.shape) - 1), dtype |-> dtype,
   elems |-> Tuple([m \in 1 .. Len(x.elems) \div n |-> WordPart(x, n, m)])]

Unsized(x, dtype) == [x EXCEPT !.dtype = dtype]

IsSized(x, n) == x.dtype = "U8" /\ Len(x.shape) > 1 /\ x.shape[Len(x.shape)] = n

\* Bitcast, given the size.
BitcastBy(x, dtype, n) ==
  LET rank == Len(x.shape)
      bytes(m) == [k \in 1 .. n |-> x.elems[(m - 1) * n + k]]
  IN  CASE n = 1 -> [x EXCEPT !.dtype = dtype]
        [] n # 1 /\ dtype = "U8" ->
             [shape |-> Append(x.shape, n), dtype |-> dtype,
              elems |-> Tuple([m \in 1 .. Len(x.elems) * n |->
                           BytesOf(x.elems[1 + (m - 1) \div n], n)[1 + ((m - 1) % n)]])]
        [] n # 1 /\ x.dtype = "U8" /\ rank > 1 /\ x.shape[rank] = n ->
             [shape |-> SubSeq(x.shape, 1, rank - 1), dtype |-> dtype,
              elems |-> Tuple([m \in 1 .. Len(x.elems) \div n |-> Word(bytes(m))])]
        [] OTHER -> Nothing

LEMMA BitcastByCases ==
  ASSUME NEW x, NEW dtype, NEW n
  PROVE  /\ n = 1 => BitcastBy(x, dtype, n) = Unsized(x, dtype)
         /\ n # 1 /\ x.dtype # "U8" => BitcastBy(x, "U8", n) = BytesTensor(x, n)
         /\ n # 1 /\ dtype # "U8" /\ IsSized(x, n) => BitcastBy(x, dtype, n) = WordsTensor(x, n, dtype)
<1>1. CASE n = 1
  BY <1>1 DEF BitcastBy, Unsized
<1>2. n # 1 /\ x.dtype # "U8" => BitcastBy(x, "U8", n) = BytesTensor(x, n)
  BY DEF BitcastBy, BytesTensor, BytesPart
<1>3. n # 1 /\ dtype # "U8" /\ IsSized(x, n) => BitcastBy(x, dtype, n) = WordsTensor(x, n, dtype)
  BY DEF BitcastBy, WordsTensor, WordPart, IsSized
<1> QED
  BY <1>1, <1>2, <1>3

LEMMA BitcastCases ==
  ASSUME NEW x, NEW dtype, NEW n, n = SizeInBytes(IF dtype = "U8" THEN x.dtype ELSE dtype)
  PROVE  Bitcast(x, dtype) = BitcastBy(x, dtype, n)
<1>1. Bitcast(x, dtype) = BitcastBy(x, dtype, SizeInBytes(IF dtype = "U8" THEN x.dtype ELSE dtype))
  BY Zenon DEF Bitcast, BitcastBy
<1> QED
  BY <1>1, Zenon

LEMMA BytesMake ==
  ASSUME NEW x, NEW h, IsTensor(x, h), x.dtype = h, SizeInBytes(h) # 1, NEW v, v = Bitcast(x, "U8")
  PROVE  \E E : /\ MadeOf(v, Append(x.shape, SizeInBytes(h)), "U8", E)
                /\ IsArray(E, Product(x.shape) * SizeInBytes(h))
                /\ \A m \in 1 .. Product(x.shape) * SizeInBytes(h) : E[m] = BytesPart(x, SizeInBytes(h), m)
<1> DEFINE n == SizeInBytes(h)
           shape == Append(x.shape, n)
           E == [m \in 1 .. Len(x.elems) * n |-> BytesPart(x, n, m)]
<1>1. Len(x.elems) = Product(x.shape) /\ IsShapePos(x.shape) /\ n \in Pos /\ h \in Dtypes
  BY TensorFacts, SizeIs
<1>2. shape \in Seq(Pos)
  BY <1>1 DEF IsShapePos
<1>3. Tuple(shape) = shape
  BY <1>2 DEF Tuple
<1>4. v = [shape |-> shape, dtype |-> "U8", elems |-> Tuple(E)]
  <2>1. n = SizeInBytes(IF "U8" = "U8" THEN x.dtype ELSE "U8")
    OBVIOUS
  <2>2. Bitcast(x, "U8") = BitcastBy(x, "U8", n)
    BY <2>1, BitcastCases
  <2>3. BitcastBy(x, "U8", n) = BytesTensor(x, n)
    <3>1. x.dtype # "U8"
      BY DEF SizeInBytes
    <3> QED
      BY <3>1, BitcastByCases
  <2> QED
    BY <2>2, <2>3 DEF BytesTensor
<1>5. MadeOf(v, shape, "U8", E)
  BY <1>3, <1>4 DEF MadeOf
<1>6. E = [m \in 1 .. Product(x.shape) * n |-> E[m]]
      /\ \A m \in 1 .. Product(x.shape) * n : E[m] = BytesPart(x, n, m)
  BY <1>1
<1> QED
  BY <1>5, <1>6 DEF IsArray

LEMMA BytesAre ==
  ASSUME NEW x, NEW h, IsTensor(x, h), x.dtype = h, NEW v, v = Bitcast(x, "U8")
  PROVE  /\ IsTensor(v, h) /\ v.shape = WithSize(x.shape, h) /\ v.dtype = "U8"
         /\ \A m \in 1 .. Product(x.shape) : \A k \in 1 .. SizeInBytes(h) :
              v.elems[(m - 1) * SizeInBytes(h) + k] = BytesOf(x.elems[m], SizeInBytes(h))[k]
<1> DEFINE n == SizeInBytes(h)
           p == Product(x.shape)
<1>1. /\ IsShapePos(x.shape) /\ h \in Dtypes /\ p \in Nat /\ p >= 1
      /\ n \in Sizes1248 /\ n \in Pos /\ n \in Nat
      /\ x = [shape |-> x.shape, dtype |-> x.dtype, elems |-> x.elems]
      /\ x.elems = [m \in 1 .. p |-> x.elems[m]]
      /\ \A m \in 1 .. p : Good(x.elems[m], n)
  BY TensorFacts, SizeIs DEF IsTensor, Pos
<1>2. IsShapePos(WithSize(x.shape, h)) /\ Product(WithSize(x.shape, h)) = p * n
      /\ (n = 1 => WithSize(x.shape, h) = x.shape) /\ (n # 1 => WithSize(x.shape, h) = Append(x.shape, n))
  BY <1>1, WithSizeIs
<1>3. SizeInBytes("U8") = 1
  BY DEF SizeInBytes
<1>4. CASE n = 1
  <2>1. v = [x EXCEPT !.dtype = "U8"]
    BY <1>4 DEF Bitcast
  <2>2. v = [shape |-> x.shape, dtype |-> "U8", elems |-> x.elems]
    BY <1>1, <2>1
  <2>3. v.shape = x.shape /\ v.dtype = "U8" /\ v.elems = x.elems
    BY <2>2
  <2>4. \A m \in 1 .. p : Good(v.elems[m], SizeInBytes(v.dtype))
    BY <1>1, <1>3, <1>4, <2>3
  <2>5. IsTensor(v, h)
    BY <1>1, <2>2, <2>3, <2>4 DEF IsTensor
  <2>6. ASSUME NEW m \in 1 .. p, NEW k \in 1 .. n
        PROVE  v.elems[(m - 1) * n + k] = BytesOf(x.elems[m], n)[k]
    <3>1. k = 1 /\ (m - 1) * n + k = m
      BY <1>1, <1>4
    <3>2. BytesOf(x.elems[m], n) = <<x.elems[m]>>
      BY <1>4, BytesOfIs
    <3> QED
      BY <2>3, <3>1, <3>2
  <2> QED
    BY <1>2, <1>4, <2>3, <2>5, <2>6
<1>5. CASE n # 1
  <2>1. PICK E : /\ MadeOf(v, Append(x.shape, n), "U8", E) /\ IsArray(E, p * n)
                 /\ \A m \in 1 .. p * n : E[m] = BytesPart(x, n, m)
    BY <1>5, BytesMake
  <2>2. ASSUME NEW m \in 1 .. p * n
        PROVE  Good(E[m], SizeInBytes("U8"))
    <3> DEFINE q == 1 + (m - 1) \div n
               r == 1 + ((m - 1) % n)
    <3>1. q \in 1 .. p /\ r \in 1 .. n
      BY <1>1, PlaceOfByte
    <3>2. E[m] = BytesOf(x.elems[q], n)[r]
      BY <2>1 DEF BytesPart
    <3> HIDE DEF q, r
    <3>3. Good(x.elems[q], n)
      BY <1>1, <3>1
    <3>4. Good(BytesOf(x.elems[q], n)[r], 1)
      BY <1>1, <3>1, <3>3, BytesAreGood
    <3> QED
      BY <1>3, <3>2, <3>4
  <2> DEFINE shape == Append(x.shape, n)
  <2>3. IsShapePos(shape) /\ Product(shape) = p * n
    BY <1>2, <1>5
  <2> HIDE DEF shape
  <2>4. MadeOf(v, shape, "U8", E)
    BY <2>1 DEF shape
  <2>5. IsArray(E, Product(shape)) /\ \A m \in 1 .. Product(shape) : Good(E[m], SizeInBytes("U8"))
    BY <2>1, <2>2, <2>3
  <2>6. "U8" \in {h, "U8"}
    OBVIOUS
  <2>7. IsTensor(v, h) /\ v.shape = shape /\ v.dtype = "U8" /\ v.elems = E
    BY <1>1, <2>3, <2>4, <2>5, <2>6, BuiltTensor
  <2>8. ASSUME NEW m \in 1 .. p, NEW k \in 1 .. n
        PROVE  v.elems[(m - 1) * n + k] = BytesOf(x.elems[m], n)[k]
    <3> DEFINE at == (m - 1) * n + k
    <3>1. at \in 1 .. p * n /\ 1 + (at - 1) \div n = m /\ 1 + ((at - 1) % n) = k
      BY <1>1, BytePlace
    <3> HIDE DEF at
    <3>2. v.elems[at] = BytesOf(x.elems[m], n)[k]
      BY <2>1, <2>7, <3>1 DEF BytesPart
    <3> QED
      BY <3>2 DEF at
  <2> QED
    BY <1>2, <1>5, <2>7, <2>8 DEF shape
<1> QED
  BY <1>4, <1>5

LEMMA WordsMake ==
  ASSUME NEW x, NEW h, IsTensor(x, h), x.dtype = "U8", SizeInBytes(h) # 1,
         NEW s, IsShapePos(s), x.shape = Append(s, SizeInBytes(h)), NEW v, v = Bitcast(x, h)
  PROVE  \E E : /\ MadeOf(v, s, h, E) /\ IsArray(E, Product(s))
                /\ \A m \in 1 .. Product(s) : E[m] = WordPart(x, SizeInBytes(h), m)
<1> DEFINE n == SizeInBytes(h)
           p == Product(s)
           E == [m \in 1 .. Len(x.elems) \div n |-> WordPart(x, n, m)]
<1>1. /\ Len(x.elems) = Product(x.shape) /\ n \in Pos /\ n \in Nat /\ n > 0 /\ h \in Dtypes
      /\ s \in Seq(Nat) /\ Len(s) \in Nat \ {0} /\ p \in Nat /\ Tuple(s) = s
  <2>1. Len(x.elems) = Product(x.shape) /\ h \in Dtypes
    BY TensorFacts
  <2>2. n \in Pos
    BY <2>1, SizeIs
  <2>3. s \in Seq(Nat) /\ Len(s) \in Nat \ {0} /\ p \in Nat /\ Tuple(s) = s
    BY PosShapeFacts
  <2> QED
    BY <2>1, <2>2, <2>3 DEF Pos
<1>2. Product(x.shape) = p * n
  BY <1>1, ProductOfAppend
<1>3. (n * p + 0) \div n = p
  BY <1>1, DivIs
<1>4. Len(x.elems) \div n = p
  <2>1. p * n = n * p + 0
    BY <1>1
  <2> QED
    BY <1>1, <1>2, <1>3, <2>1
<1>5. h # "U8"
  BY DEF SizeInBytes
<1>6. n = SizeInBytes(IF h = "U8" THEN x.dtype ELSE h)
  BY <1>5
<1>7. Bitcast(x, h) = BitcastBy(x, h, n)
  BY <1>6, BitcastCases
<1>8. Len(x.shape) = Len(s) + 1 /\ x.shape[Len(s) + 1] = n /\ Len(x.shape) > 1
      /\ SubSeq(x.shape, 1, Len(x.shape) - 1) = s
  BY <1>1
<1>9. IsSized(x, n)
  BY <1>8 DEF IsSized
<1>10. BitcastBy(x, h, n) = WordsTensor(x, n, h)
  BY <1>5, <1>9, BitcastByCases
<1>11. MadeOf(v, s, h, E)
  BY <1>1, <1>7, <1>8, <1>10 DEF MadeOf, WordsTensor
<1>12. E = [m \in 1 .. p |-> E[m]] /\ \A m \in 1 .. p : E[m] = WordPart(x, n, m)
  BY <1>4
<1> QED
  BY <1>11, <1>12 DEF IsArray

LEMMA WordsAre ==
  ASSUME NEW x, NEW h, IsTensor(x, h), x.dtype = "U8", NEW s, IsShapePos(s),
         x.shape = WithSize(s, h), NEW v, v = Bitcast(x, h)
  PROVE  /\ IsTensor(v, h) /\ v.shape = s /\ v.dtype = h
         /\ \A m \in 1 .. Product(s) : v.elems[m] = WordPart(x, SizeInBytes(h), m)
<1> DEFINE n == SizeInBytes(h)
           p == Product(s)
<1>1. /\ h \in Dtypes /\ p \in Nat /\ p >= 1
      /\ n \in Sizes1248 /\ n \in Pos /\ n \in Nat
      /\ x = [shape |-> x.shape, dtype |-> x.dtype, elems |-> x.elems]
      /\ x.elems = [m \in 1 .. Product(x.shape) |-> x.elems[m]]
      /\ \A m \in 1 .. Product(x.shape) : Good(x.elems[m], SizeInBytes("U8"))
  BY TensorFacts, SizeIs, PosShapeFacts DEF IsTensor, Pos
<1>2. Product(x.shape) = p * n
      /\ (n = 1 => x.shape = s) /\ (n # 1 => x.shape = Append(s, n))
  BY <1>1, WithSizeIs
<1>3. SizeInBytes("U8") = 1
  BY DEF SizeInBytes
<1>4. CASE n = 1
  <2>1. n = SizeInBytes(IF h = "U8" THEN x.dtype ELSE h)
    OBVIOUS
  <2>2. v = Unsized(x, h)
    BY <1>4, <2>1, BitcastCases, BitcastByCases
  <2>3. v = [shape |-> x.shape, dtype |-> h, elems |-> x.elems]
    BY <1>1, <2>2 DEF Unsized
  <2>4. v.shape = s /\ v.dtype = h /\ v.elems = x.elems /\ v = [shape |-> v.shape, dtype |-> v.dtype, elems |-> v.elems]
    BY <1>2, <1>4, <2>3
  <2>5. \A m \in 1 .. p : Good(v.elems[m], SizeInBytes(v.dtype))
    BY <1>1, <1>2, <1>3, <1>4, <2>4
  <2>6. v.dtype \in {h, "U8"} /\ v.elems = [m \in 1 .. Product(v.shape) |-> v.elems[m]]
    BY <1>1, <1>2, <1>4, <2>4
  <2>7. IsTensor(v, h)
    BY <1>1, <2>4, <2>5, <2>6 DEF IsTensor
  <2>8. ASSUME NEW m \in 1 .. p
        PROVE  v.elems[m] = WordPart(x, n, m)
    <3> DEFINE bytes == [k \in 1 .. n |-> x.elems[(m - 1) * n + k]]
    <3>1. (m - 1) * n + 1 = m
      BY <1>1, <1>4
    <3>2. bytes[1] = x.elems[m] /\ Len(bytes) = 1
      <4>1. 1 \in 1 .. n
        BY <1>4
      <4>2. Len(bytes) = n
        BY <1>1
      <4> QED
        BY <1>4, <3>1, <4>1, <4>2
    <3>3. Word(bytes) = bytes[1]
      <4> HIDE DEF bytes
      <4> QED
        BY <3>2, WordIs
    <3> QED
      BY <2>4, <3>2, <3>3 DEF WordPart
  <2> QED
    BY <2>4, <2>7, <2>8
<1>5. CASE n # 1
  <2>1. PICK E : /\ MadeOf(v, s, h, E) /\ IsArray(E, p)
                 /\ \A m \in 1 .. p : E[m] = WordPart(x, n, m)
    BY <1>2, <1>5, WordsMake
  <2>2. ASSUME NEW m \in 1 .. p
        PROVE  Good(E[m], n)
    <3> DEFINE bytes == [k \in 1 .. n |-> x.elems[(m - 1) * n + k]]
    <3>1. ASSUME NEW k \in 1 .. n PROVE Coh(bytes[k])
      <4>1. (m - 1) * n + k \in 1 .. p * n
        BY <1>1, BytePlace
      <4>2. bytes[k] = x.elems[(m - 1) * n + k]
        OBVIOUS
      <4> HIDE DEF bytes
      <4>3. Good(bytes[k], SizeInBytes("U8"))
        BY <1>1, <1>2, <4>1, <4>2
      <4> QED
        BY <4>3 DEF Good
    <3>2. bytes = [k \in 1 .. n |-> bytes[k]]
      OBVIOUS
    <3>3. Good(Word(bytes), n)
      <4> HIDE DEF bytes
      <4> QED
        BY <1>1, <3>1, <3>2, WordIsGood
    <3> QED
      BY <2>1, <3>3 DEF WordPart
  <2>3. h \in {h, "U8"} /\ \A m \in 1 .. Product(s) : Good(E[m], SizeInBytes(h))
    BY <2>2
  <2>4. IsTensor(v, h) /\ v.shape = s /\ v.dtype = h /\ v.elems = E
    BY <1>1, <2>1, <2>3, BuiltTensor
  <2> QED
    BY <2>1, <2>4
<1> QED
  BY <1>4, <1>5

\* Bytes of a tensor make the tensor.
LEMMA BytesAndBack ==
  ASSUME NEW x, NEW h, IsTensor(x, h), x.dtype = h
  PROVE  Bitcast(Bitcast(x, "U8"), h) = x
<1> DEFINE v == Bitcast(x, "U8")
           w == Bitcast(v, h)
           n == SizeInBytes(h)
           p == Product(x.shape)
<1>1. /\ IsTensor(v, h) /\ v.shape = WithSize(x.shape, h) /\ v.dtype = "U8"
      /\ \A m \in 1 .. p : \A k \in 1 .. n : v.elems[(m - 1) * n + k] = BytesOf(x.elems[m], n)[k]
  BY BytesAre
<1>2. IsShapePos(x.shape) /\ h \in Dtypes /\ n \in Sizes1248 /\ \A m \in 1 .. p : Good(x.elems[m], n)
  BY SizeIs DEF IsTensor
<1> HIDE DEF v
<1>3. /\ IsTensor(w, h) /\ w.shape = x.shape /\ w.dtype = h
      /\ \A m \in 1 .. p : w.elems[m] = WordPart(v, n, m)
  BY <1>1, <1>2, WordsAre
<1> HIDE DEF w
<1>4. ASSUME NEW m \in 1 .. p
      PROVE  w.elems[m] = x.elems[m]
  <2> DEFINE b == BytesOf(x.elems[m], n)
  <2>1. b = [k \in 1 .. n |-> b[k]] /\ Word(b) = x.elems[m]
    BY <1>2, BytesAreGood
  <2>2. \A k \in 1 .. n : v.elems[(m - 1) * n + k] = b[k]
    BY <1>1
  <2> HIDE DEF b
  <2>3. [k \in 1 .. n |-> v.elems[(m - 1) * n + k]] = b
    BY <2>1, <2>2
  <2> QED
    BY <1>3, <2>1, <2>3 DEF WordPart
<1>5. w = x
  BY <1>3, <1>4, SameTensor
<1> QED
  BY <1>5 DEF w, v

-----------------------------------------------------------------------------
(* What the rules rely on.                                                 *)

LEMMA DtypeOfName ==
  ASSUME NEW dtype \in Dtypes
  PROVE  DtypeOf(dtype) = dtype /\ DtypeOf(Text[dtype]) = dtype
<1>1. \A d \in Dtypes : dtype \in {d, Text[d]} => d = dtype
  BY DEF Dtypes, Text
<1>2. \A d \in Dtypes : Text[dtype] \in {d, Text[d]} => d = dtype
  BY DEF Dtypes, Text
<1>3. dtype \in {dtype, Text[dtype]} /\ Text[dtype] \in {dtype, Text[dtype]}
  OBVIOUS
<1>4. DtypeOf(dtype) = dtype
  BY <1>1, <1>3 DEF DtypeOf
<1>5. DtypeOf(Text[dtype]) = dtype
  BY <1>2, <1>3 DEF DtypeOf
<1> QED
  BY <1>4, <1>5

\* A slice of what is converted is converted of the slice.
LEMMA SliceShapeOnly ==
  ASSUME NEW x, NEW c, c.shape = x.shape, NEW ranges
  PROVE  Slice(x, ranges, 1).shape = Slice(c, ranges, 1).shape
BY DEF Slice, Tensor

LEMMA SliceOfConverted ==
  ASSUME NEW x, NEW h, IsTensor(x, h), NEW to \in Dtypes, NEW ranges \in Seq(Nat),
         NEW c, c = Convert(x, to), NEW s, s = Slice(c, ranges, 1), IsShapePos(s.shape),
         NEW a, a = Slice(x, ranges, 1)
  PROVE  /\ IsTensor(a, h) /\ a.shape = s.shape /\ a.dtype = x.dtype
         /\ IsTensor(s, to) /\ s.dtype = to /\ Convert(a, to) = s
<1>1. /\ IsTensor(c, to) /\ c.shape = x.shape /\ c.dtype = to
      /\ \A n \in 1 .. Product(x.shape) : c.elems[n] = Converted(x.elems[n], x.dtype, to)
  BY ConvertIs
<1>2. a.shape = s.shape
  BY <1>1, SliceShapeOnly
<1>3. /\ IsTensor(a, h) /\ a.shape = SliceShape(x, ranges) /\ a.dtype = x.dtype
      /\ \A n \in 1 .. Product(a.shape) :
           /\ a.elems[n] = Element(x, SliceIndex(x, ranges, n))
           /\ InShape(x.shape, SliceIndex(x, ranges, n))
  BY <1>2, SliceIs
<1>4. /\ IsTensor(s, to) /\ s.dtype = to
      /\ \A n \in 1 .. Product(s.shape) : s.elems[n] = Element(c, SliceIndex(c, ranges, n))
  BY <1>1, SliceIs
<1> DEFINE w == Convert(a, to)
<1>5. /\ IsTensor(w, to) /\ w.shape = a.shape /\ w.dtype = to
      /\ \A n \in 1 .. Product(a.shape) : w.elems[n] = Converted(a.elems[n], a.dtype, to)
  BY <1>3, ConvertIs
<1>6. \A n : SliceIndex(c, ranges, n) = SliceIndex(x, ranges, n)
  <2>1. SliceShape(c, ranges) = SliceShape(x, ranges)
    BY <1>1 DEF SliceShape, SliceTo
  <2> QED
    BY <2>1 DEF SliceIndex
<1>7. ASSUME NEW n \in 1 .. Product(w.shape)
      PROVE  w.elems[n] = s.elems[n]
  <2> DEFINE i == SliceIndex(x, ranges, n)
             p == Place(x.shape, i)
  <2>1. InShape(x.shape, i) /\ a.elems[n] = Element(x, i)
    BY <1>3, <1>5
  <2>2. s.elems[n] = Element(c, i)
    BY <1>2, <1>4, <1>5, <1>6
  <2>3. x.shape \in Seq(Pos)
    BY DEF IsTensor, IsShapePos
  <2> HIDE DEF i
  <2>4. p \in 1 .. Product(x.shape)
    BY <2>1, <2>3, PlaceInRange
  <2>5. a.elems[n] = x.elems[p] /\ s.elems[n] = c.elems[p]
    BY <1>1, <2>1, <2>2 DEF Element
  <2> QED
    BY <1>1, <1>3, <1>5, <2>4, <2>5
<1> HIDE DEF w
<1>8. w = s
  BY <1>2, <1>4, <1>5, <1>7, SameTensor
<1> QED
  BY <1>2, <1>3, <1>4, <1>8 DEF w

\* A product with the unit is what is multiplied.
LEMMA InnerWithUnit ==
  ASSUME NEW row, NEW column, NEW k \in DOMAIN row, column[k] = One,
         \A j \in DOMAIN row : j # k => column[j] = Zero
  PROVE  InnerProduct(row, column) = row[k]
<1>1. One # Zero
  <2>1. One[1] = "one" /\ Zero[1] = "zero"
    BY DEF One, Zero
  <2> QED
    BY <2>1
<1> DEFINE terms == {j \in DOMAIN row : column[j] # Zero}
<1>2. terms = {k}
  BY <1>1
<1>3. (CHOOSE j \in terms : TRUE) = k
  BY <1>2
<1>4. \E j \in terms : terms = {j}
  BY <1>2
<1> QED
  BY <1>3, <1>4 DEF InnerProduct

LEMMA DotWithEye ==
  ASSUME NEW x, NEW h, IsTensor(x, h), NEW S \in Pos, x.shape = <<S, S>>, x.dtype = h,
         NEW e, e = Eye(S, h)
  PROVE  IsTensor(e, h) /\ e.shape = <<S, S>> /\ e.dtype = h /\ Dot(x, e) = x
<1> DEFINE s == <<S, S>>
           v == Dot(x, e)
<1>1. h \in Dtypes /\ s \in Seq(Pos) /\ Len(s) = 2 /\ s[1] = S /\ s[2] = S
  BY DEF IsTensor
<1>2. /\ IsTensor(e, h) /\ e.shape = s /\ e.dtype = h
      /\ \A n \in 1 .. Product(s) :
           e.elems[n] = IF Index(s, n)[1] = Index(s, n)[2] THEN One ELSE Zero
  BY <1>1, EyeIs
<1>3. /\ IsTensor(v, h) /\ v.shape = s /\ v.dtype = h
      /\ \A n \in 1 .. Product(s) : v.elems[n] = InnerProduct(DotRow(x, e, n), DotColumn(x, e, n))
  <2>1. Len(x.shape) = 2 /\ Len(e.shape) = 2 /\ x.shape[2] = e.shape[1] /\ <<x.shape[1], e.shape[2]>> = s
    BY <1>1, <1>2
  <2>2. v = Dot(x, e)
    OBVIOUS
  <2> HIDE DEF s, v
  <2>3. /\ IsTensor(v, h) /\ v.shape = <<x.shape[1], e.shape[2]>> /\ v.dtype = x.dtype
        /\ \A n \in 1 .. Product(v.shape) : v.elems[n] = InnerProduct(DotRow(x, e, n), DotColumn(x, e, n))
    BY <1>2, <2>1, <2>2, DotIs
  <2> QED
    BY <2>1, <2>3
<1>4. ASSUME NEW n \in 1 .. Product(s)
      PROVE  v.elems[n] = x.elems[n]
  <2> DEFINE i == Index(s, n)[1]
             j == Index(s, n)[2]
             row == DotRow(x, e, n)
             column == DotColumn(x, e, n)
  <2>1. i \in Nat /\ j \in Nat /\ i < S /\ j < S /\ Index(s, n) = <<i, j>>
    BY IndexInPair
  <2>2. Place(s, Index(s, n)) = n
    BY <1>1, PlaceOfIndex
  <2>3. row = [k \in 1 .. S |-> Element(x, <<i, k - 1>>)] /\ column = [k \in 1 .. S |-> Element(e, <<k - 1, j>>)]
    BY <1>1, <1>2 DEF DotRow, DotColumn
  <2> HIDE DEF i, j
  <2>4. ASSUME NEW k \in 1 .. S
        PROVE  column[k] = IF k - 1 = j THEN One ELSE Zero
    <3> DEFINE at == <<k - 1, j>>
               p == Place(s, at)
    <3>1. k - 1 \in Nat /\ k - 1 < S
      BY DEF Pos
    <3>2. InShape(s, at) /\ Index(s, p) = at
      BY <2>1, <3>1, IndexOfPair
    <3>3. p \in 1 .. Product(s)
      BY <1>1, <3>2, PlaceInRange
    <3>4. column[k] = e.elems[p]
      BY <1>2, <2>3 DEF Element
    <3>5. at[1] = k - 1 /\ at[2] = j
      OBVIOUS
    <3> HIDE DEF p, at
    <3> QED
      BY <1>2, <3>2, <3>3, <3>4, <3>5
  <2>5. j + 1 \in 1 .. S /\ (j + 1) - 1 = j /\ DOMAIN row = 1 .. S /\ row[j + 1] = Element(x, <<i, j>>)
    <3>1. j + 1 \in 1 .. S /\ (j + 1) - 1 = j
      BY <2>1 DEF Pos
    <3> QED
      BY <2>3, <3>1
  <2>6. \A k \in 1 .. S : k # j + 1 => k - 1 # j
    BY <2>1 DEF Pos
  <2> HIDE DEF row, column
  <2>7. InnerProduct(row, column) = row[j + 1]
    <3> DEFINE k0 == j + 1
    <3>1. k0 \in DOMAIN row /\ column[k0] = One
      BY <2>4, <2>5
    <3>2. \A k \in DOMAIN row : k # k0 => column[k] = Zero
      BY <2>4, <2>5, <2>6
    <3> HIDE DEF k0
    <3>3. InnerProduct(row, column) = row[k0]
      BY <3>1, <3>2, InnerWithUnit
    <3> QED
      BY <3>3 DEF k0
  <2>8. row[j + 1] = x.elems[n]
    BY <2>1, <2>2, <2>5 DEF Element
  <2> QED
    BY <1>3, <2>7, <2>8 DEF row, column
<1> HIDE DEF v, s
<1>5. v = x
  BY <1>3, <1>4, SameTensor DEF s
<1> QED
  BY <1>2, <1>5 DEF v, s

LEMMA ReshapeFits ==
  ASSUME NEW x, NEW h, IsTensor(x, h), NEW shape, IsShapePos(shape),
         Product(shape) = Product(x.shape), NEW v, v = Reshape(x, shape)
  PROVE  /\ IsTensor(v, h) /\ v.shape = shape /\ v.dtype = x.dtype /\ v.elems = x.elems
<1>1. Len(x.elems) = Product(x.shape)
  BY TensorFacts
<1>2. x = [shape |-> x.shape, dtype |-> x.dtype, elems |-> x.elems]
  BY DEF IsTensor
<1>3. v = [shape |-> shape, dtype |-> x.dtype, elems |-> x.elems]
  BY <1>1, <1>2 DEF Reshape
<1>4. v.shape = shape
  BY <1>3
<1> QED
  BY <1>4, ReshapeIs

LEMMA ReshapeKeeps ==
  ASSUME NEW x, NEW h, IsTensor(x, h), NEW shape, NEW v, v = Reshape(x, shape), IsShapePos(v.shape)
  PROVE  v.shape = shape /\ v.dtype = x.dtype /\ v.elems = x.elems
<1>1. x = [shape |-> x.shape, dtype |-> x.dtype, elems |-> x.elems]
  BY DEF IsTensor
<1>2. v = Nothing \/ v = [x EXCEPT !.shape = shape]
  BY DEF Reshape
<1>3. v # Nothing
  BY NothingIsNone
<1> QED
  BY <1>1, <1>2, <1>3

\* Flat and back, or there and back by any way.
LEMMA FlatAndBack ==
  ASSUME NEW x, NEW h, IsTensor(x, h), NEW f, f = Reshape(x, <<Product(x.shape)>>)
  PROVE  /\ IsTensor(f, h) /\ f.shape = <<Product(x.shape)>> /\ f.dtype = x.dtype
         /\ Reshape(f, x.shape) = x
<1> DEFINE flat == <<Product(x.shape)>>
           w == Reshape(f, x.shape)
<1>1. IsShapePos(x.shape) /\ Product(x.shape) \in Pos /\ Product(x.shape) \in Nat
  BY PosShapeFacts DEF IsTensor
<1>2. IsShapePos(flat) /\ Product(flat) = Product(x.shape)
  <2>1. flat \in Seq(Pos) /\ flat # <<>>
    BY <1>1
  <2> QED
    BY <1>1, <2>1, ProductOfOne DEF IsShapePos
<1>3. f = Reshape(x, flat)
  OBVIOUS
<1> HIDE DEF flat
<1>4. IsTensor(f, h) /\ f.shape = flat /\ f.dtype = x.dtype /\ f.elems = x.elems
  BY <1>2, <1>3, ReshapeFits
<1>5. IsTensor(w, h) /\ w.shape = x.shape /\ w.dtype = f.dtype /\ w.elems = f.elems
  BY <1>1, <1>2, <1>4, ReshapeFits
<1> HIDE DEF w
<1>6. w = x
  BY <1>4, <1>5, SameTensor
<1> QED
  BY <1>4, <1>6 DEF w, flat

LEMMA ThereAndBack ==
  ASSUME NEW x, NEW h, IsTensor(x, h), NEW y, NEW k, IsTensor(y, k), NEW z, NEW l, IsTensor(z, l),
         NEW d1, y = Reshape(x, d1), NEW d2, z = Reshape(y, d2), z.shape = x.shape
  PROVE  z = x
<1>1. y.dtype = x.dtype /\ y.elems = x.elems
  BY ReshapeKeeps DEF IsTensor
<1>2. z.dtype = y.dtype /\ z.elems = y.elems
  BY ReshapeKeeps DEF IsTensor
<1> QED
  BY <1>1, <1>2, SameTensor

LEMMA BroadcastThatIsNone ==
  ASSUME NEW x, NEW h, IsTensor(x, h), NEW data \in Seq(Nat),
         NEW b, b = Broadcast(x, data, Leading(x)), b.shape = x.shape
  PROVE  b = x
<1>1. PICK E : MadeOf(b, data, x.dtype, E)
  BY BroadcastMakes
<1>2. Tuple(data) = data
  BY DEF Tuple
<1>3. data = x.shape
  BY <1>1, <1>2 DEF MadeOf
<1> QED
  BY <1>3, BroadcastToSame

\* The same of an operator that is named.
LEMMA AddedIs ==
  ASSUME NEW x, NEW h, IsTensor(x, h), NEW y, NEW k0, IsTensor(y, k0), x.shape = y.shape,
         NEW v, v = Binary("add", x, y)
  PROVE  IsCombined(v, h, "add", x, y)
<1>1. PICK op : op = "add"
  OBVIOUS
<1>2. op \in BinaryOps /\ v = Binary(op, x, y)
  BY <1>1 DEF BinaryOps
<1>3. IsCombined(v, h, op, x, y)
  BY <1>2, BinaryIs
<1> QED
  BY <1>1, <1>3

LEMMA MaximumIs ==
  ASSUME NEW x, NEW h, IsTensor(x, h), NEW y, NEW k0, IsTensor(y, k0), x.shape = y.shape,
         NEW v, v = Binary("maximum", x, y)
  PROVE  IsCombined(v, h, "maximum", x, y)
<1>1. PICK op : op = "maximum"
  OBVIOUS
<1>2. op \in BinaryOps /\ v = Binary(op, x, y)
  BY <1>1 DEF BinaryOps
<1>3. IsCombined(v, h, op, x, y)
  BY <1>2, BinaryIs
<1> QED
  BY <1>1, <1>3

\* The least element of an order.
LEMMA MaximumWithLeast ==
  ASSUME NEW x, NEW h, IsTensor(x, h), NEW d \in Dtypes, NEW c, c = Scalar(NegInf, d),
         NEW data \in Seq(Nat), NEW b, b = Broadcast(c, data, Leading(c)), NEW k, IsTensor(b, k),
         NEW m, m = Binary("maximum", x, b), IsShapePos(m.shape)
  PROVE  m = x
<1>1. b.shape = x.shape
  <2>1. m # Nothing
    BY NothingIsNone
  <2> QED
    BY <2>1 DEF Binary
<1>2. PICK E : /\ MadeOf(b, data, c.dtype, E) /\ IsArray(E, Product(data))
               /\ \A n \in 1 .. Product(data) : E[n] = BroadcastElement(c, data, Leading(c), n)
  BY BroadcastMakes
<1>3. Tuple(data) = data /\ Product(data) \in Nat
  BY ProductIsNat DEF Tuple
<1>4. Tuple(E) = E
  BY <1>2, <1>3, TupleIs DEF IsArray
<1>5. b.shape = data /\ b.elems = E
  BY <1>2, <1>3, <1>4 DEF MadeOf
<1>6. c.elems = <<NegInf>>
  BY DEF Scalar
<1>7. Len(c.elems) = 1 /\ c.elems[1] = NegInf
  BY <1>6
<1>8. \A n \in 1 .. Product(x.shape) : b.elems[n] = NegInf
  BY <1>1, <1>2, <1>5, <1>7 DEF BroadcastElement
<1>9. "maximum" \in BinaryOps
  BY DEF BinaryOps
<1>10. /\ IsTensor(m, h) /\ m.shape = x.shape /\ m.dtype = x.dtype
       /\ \A n \in 1 .. Product(x.shape) : m.elems[n] = Combined("maximum", x.elems[n], b.elems[n])
  <2>1. IsCombined(m, h, "maximum", x, b)
    BY <1>1, MaximumIs
  <2> QED
    BY <2>1 DEF IsCombined
<1>11. \A n \in 1 .. Product(x.shape) : m.elems[n] = x.elems[n]
  BY <1>8, <1>10 DEF Combined
<1> QED
  BY <1>10, <1>11, SameTensor

\* Narrowing undoes widening.
LEMMA NarrowedSum ==
  ASSUME NEW e, NEW f
  PROVE  Converted(Combined("add", Converted(e, "I8", "I32"), Converted(f, "I8", "I32")), "I32", "I8")
           = Combined("add", e, f)
<1>1. SizeInBytes("I8") = 1 /\ SizeInBytes("I32") = 4
  BY DEF SizeInBytes
<1> DEFINE a == <<"convert", "I8", "I32", e>>
           b == <<"convert", "I8", "I32", f>>
           s == <<"add", a, b>>
           r == Converted(s, "I32", "I8")
<1>2. Converted(e, "I8", "I32") = a /\ Converted(f, "I8", "I32") = b
  BY <1>1, ConvertedIs
<1>3. Combined("add", a, b) = s /\ Combined("add", e, f) = <<"add", e, f>>
  BY DEF Combined
<1>4. a[1] = "convert" /\ a[2] = "I8" /\ a[3] = "I32" /\ a[4] = e
      /\ b[1] = "convert" /\ b[2] = "I8" /\ b[3] = "I32" /\ b[4] = f
  OBVIOUS
<1>5. s[1] = "add" /\ s[2] = a /\ s[3] = b
  OBVIOUS
<1> HIDE DEF a, b, s
<1>6. PICK p, q : r = <<"add", p, q>> /\ NarrowedIs(p, a, "I32", "I8") /\ NarrowedIs(q, b, "I32", "I8")
  BY <1>1, <1>5, ConvertedIs
<1>7. p = e /\ q = f
  BY <1>4, <1>6 DEF NarrowedIs
<1> QED
  BY <1>2, <1>3, <1>6, <1>7

LEMMA SumOfWidened ==
  ASSUME NEW x, NEW h, IsTensor(x, h), x.dtype = "I8", NEW y, NEW k, IsTensor(y, k), y.dtype = "I8",
         x.shape = y.shape,
         NEW a, a = Convert(x, "I32"), NEW b, b = Convert(y, "I32"), NEW s, s = Binary("add", a, b)
  PROVE  /\ IsTensor(a, "I32") /\ a.shape = x.shape /\ a.dtype = "I32"
         /\ IsTensor(b, "I32") /\ b.shape = x.shape /\ b.dtype = "I32"
         /\ IsTensor(s, "I32") /\ s.shape = x.shape /\ s.dtype = "I32"
         /\ Convert(s, "I8") = Binary("add", x, y)
<1> DEFINE v == Binary("add", x, y)
           w == Convert(s, "I8")
<1>1. "I8" \in Dtypes /\ "I32" \in Dtypes /\ "add" \in BinaryOps
  BY DEF Dtypes, BinaryOps
<1>2. /\ IsTensor(a, "I32") /\ a.shape = x.shape /\ a.dtype = "I32"
      /\ \A n \in 1 .. Product(x.shape) : a.elems[n] = Converted(x.elems[n], "I8", "I32")
  BY <1>1, ConvertIs
<1>3. /\ IsTensor(b, "I32") /\ b.shape = x.shape /\ b.dtype = "I32"
      /\ \A n \in 1 .. Product(x.shape) : b.elems[n] = Converted(y.elems[n], "I8", "I32")
  BY <1>1, ConvertIs
<1>4. /\ IsTensor(s, "I32") /\ s.shape = x.shape /\ s.dtype = "I32"
      /\ \A n \in 1 .. Product(x.shape) : s.elems[n] = Combined("add", a.elems[n], b.elems[n])
  <2>1. a.shape = b.shape /\ IsTensor(a, "I32") /\ IsTensor(b, "I32")
    BY <1>2, <1>3
  <2>2. IsCombined(s, "I32", "add", a, b)
    BY <2>1, AddedIs
  <2> QED
    BY <1>2, <2>2 DEF IsCombined
<1>5. /\ IsTensor(w, "I8") /\ w.shape = x.shape /\ w.dtype = "I8"
      /\ \A n \in 1 .. Product(x.shape) : w.elems[n] = Converted(s.elems[n], "I32", "I8")
  BY <1>1, <1>4, ConvertIs
<1>6. /\ IsTensor(v, h) /\ v.shape = x.shape /\ v.dtype = x.dtype
      /\ \A n \in 1 .. Product(x.shape) : v.elems[n] = Combined("add", x.elems[n], y.elems[n])
  <2>1. IsCombined(v, h, "add", x, y)
    BY AddedIs
  <2> QED
    BY <2>1 DEF IsCombined
<1> HIDE DEF v, w
<1>7. \A n \in 1 .. Product(x.shape) : w.elems[n] = v.elems[n]
  BY <1>2, <1>3, <1>4, <1>5, <1>6, NarrowedSum
<1>8. w = v
  BY <1>5, <1>6, <1>7, SameTensor
<1> QED
  BY <1>2, <1>3, <1>4, <1>8 DEF v, w

-----------------------------------------------------------------------------
(* What an e-node makes of its kids.                                       *)

\* The order of dimensions as a transpose has it, counted from 1.
OneBased(data) ==
  IF \E k \in DOMAIN data : data[k] = 0 THEN [k \in DOMAIN data |-> data[k] + 1] ELSE data

LEMMA ComputesElements ==
  ASSUME NEW en, NEW kids, NEW info
  PROVE  /\ en.op \in BinaryOps => Computes(en, kids, info) = Binary(en.op, kids[1], kids[2])
         /\ en.op \in UnaryOps => Computes(en, kids, info) = Unary(en.op, kids[1])
         /\ en.op \in Reductions => Computes(en, kids, info) = Reduce(en.op, kids[1], en.data[1])
         /\ en.op = "convert" => Computes(en, kids, info) = Convert(kids[1], DtypeOf(en.text))
         /\ en.op = "copy" => Computes(en, kids, info) = kids[1]
         /\ en.op = "eye" => Computes(en, kids, info) = Eye(en.data[1], en.text)
         /\ en.op = "dot" => Computes(en, kids, info) = Dot(kids[1], kids[2])
BY DEF Computes, BinaryOps, UnaryOps, Reductions

LEMMA ComputesShapes ==
  ASSUME NEW en, NEW kids, NEW info
  PROVE  /\ en.op = "broadcast" => Computes(en, kids, info) = Broadcast(kids[1], en.data, Leading(kids[1]))
         /\ en.op = "concat" => Computes(en, kids, info) = Concat(kids[1], kids[2], en.data[1])
         /\ en.op = "reshape" => Computes(en, kids, info) = Reshape(kids[1], en.data)
         /\ en.op = "slice" => Computes(en, kids, info) = Slice(kids[1], en.data, 1)
         /\ en.op = "transpose" => Computes(en, kids, info) = Transpose(kids[1], OneBased(en.data))
BY DEF Computes, BinaryOps, UnaryOps, Reductions, Leading, OneBased

LEMMA ComputesTyped ==
  ASSUME NEW en, NEW kids, NEW info
  PROVE  /\ en.op = "bitcvt" => Computes(en, kids, info) = Bitcast(kids[1], info.dtype)
         /\ en.op = "constant" => Computes(en, kids, info) = Scalar(<<"constant", en.text>>, info.dtype)
         /\ en.op = "var" => Computes(en, kids, info) = InputBytes(info.shape, en.text)
BY DEF Computes, BinaryOps, UnaryOps, Reductions, InputBytes

\* What v must be in a class with the e-node en, whose kids have the tensors kv
\* and the homes kh. A bitcvt goes from bytes to the home's type or back; a
\* constant has the one type that constants of its text have.
Law(ct, en, kv, kh, v, h) ==
  /\ v = Computes(en, kv, Info(v.shape, v.dtype))
  /\ CASE en.op = "bitcvt"   -> h = kh[1] /\ v.dtype = IF kv[1].dtype = "U8" THEN h ELSE "U8"
       [] en.op = "constant" -> h = ct[en.text] /\ v.dtype = h
       [] en.op = "convert"  -> h = DtypeOf(en.text)
       [] en.op = "eye"      -> h = en.text
       [] en.op = "var"      -> TRUE
       [] OTHER              -> h = kh[1]

\* The type of a tensor says nothing more of what an e-node computes ...
LEMMA OpsAreAll ==
  \A op \in TensorOps :
    \/ op \in BinaryOps \/ op \in UnaryOps \/ op \in Reductions
    \/ op \in {"dot", "bitcvt", "broadcast", "concat", "constant", "convert",
               "copy", "eye", "reshape", "slice", "transpose", "var"}
BY DEF TensorOps

LEMMA ComputesAlike ==
  ASSUME NEW en, en.op \in TensorOps \ {"var"}, NEW kids, NEW t, NEW u,
         en.op \in {"bitcvt", "constant"} => t.dtype = u.dtype
  PROVE  Computes(en, kids, t) = Computes(en, kids, u)
<1>1. CASE en.op \in BinaryOps \/ en.op \in UnaryOps \/ en.op \in Reductions
  BY <1>1, ComputesElements
<1>2. CASE en.op \in {"dot", "convert", "copy", "eye"}
  BY <1>2, ComputesElements
<1>3. CASE en.op \in {"broadcast", "concat", "reshape", "slice", "transpose"}
  BY <1>3, ComputesShapes
<1>4. CASE en.op \in {"bitcvt", "constant"}
  BY <1>4, ComputesTyped
<1> QED
  BY <1>1, <1>2, <1>3, <1>4, OpsAreAll

\* ... so that the e-node and its kids determine the tensor and its home.
LEMMA LawDetermines ==
  ASSUME NEW ct, NEW en, en.op \in TensorOps \ {"var"}, NEW kv, NEW kh,
         NEW v, NEW h, Law(ct, en, kv, kh, v, h), NEW w, NEW k, Law(ct, en, kv, kh, w, k)
  PROVE  v = w /\ h = k
<1>1. h = k
  BY DEF Law
<1>2. en.op \in {"bitcvt", "constant"} => v.dtype = w.dtype
  BY <1>1 DEF Law
<1>3. Info(v.shape, v.dtype).dtype = v.dtype /\ Info(w.shape, w.dtype).dtype = w.dtype
  BY DEF Info
<1>4. Computes(en, kv, Info(v.shape, v.dtype)) = Computes(en, kv, Info(w.shape, w.dtype))
  BY <1>2, <1>3, ComputesAlike
<1> QED
  BY <1>1, <1>4 DEF Law

\* The kids' numbers do not matter, only what they hold.
LEMMA LawOfSameOperation ==
  ASSUME NEW ct, NEW en, NEW e, e.op \in TensorOps, e.op = en.op, e.text = en.text, e.data = en.data,
         NEW kv, NEW kh, NEW v, NEW h, Law(ct, en, kv, kh, v, h)
  PROVE  Law(ct, e, kv, kh, v, h)
<1>1. Computes(e, kv, Info(v.shape, v.dtype)) = Computes(en, kv, Info(v.shape, v.dtype))
  <2>1. CASE e.op \in BinaryOps \/ e.op \in UnaryOps \/ e.op \in Reductions
    BY <2>1, ComputesElements
  <2>2. CASE e.op \in {"dot", "convert", "copy", "eye"}
    BY <2>2, ComputesElements
  <2>3. CASE e.op \in {"broadcast", "concat", "reshape", "slice", "transpose"}
    BY <2>3, ComputesShapes
  <2>4. CASE e.op \in {"bitcvt", "constant", "var"}
    <3>1. PICK text : text = e.text /\ text = en.text
      OBVIOUS
    <3>2. PICK t : t = Info(v.shape, v.dtype)
      OBVIOUS
    <3>3. /\ e.op = "bitcvt" => Computes(e, kv, t) = Bitcast(kv[1], t.dtype)
          /\ e.op = "constant" => Computes(e, kv, t) = Scalar(<<"constant", text>>, t.dtype)
          /\ e.op = "var" => Computes(e, kv, t) = InputBytes(t.shape, text)
      BY <3>1, ComputesTyped
    <3>4. /\ en.op = "bitcvt" => Computes(en, kv, t) = Bitcast(kv[1], t.dtype)
          /\ en.op = "constant" => Computes(en, kv, t) = Scalar(<<"constant", text>>, t.dtype)
          /\ en.op = "var" => Computes(en, kv, t) = InputBytes(t.shape, text)
      BY <3>1, ComputesTyped
    <3> QED
      BY <2>4, <3>2, <3>3, <3>4
  <2> QED
    BY <2>1, <2>2, <2>3, <2>4, OpsAreAll
<1> QED
  BY <1>1 DEF Law

-----------------------------------------------------------------------------
(* What an instruction's e-node computes of operands of the right types.   *)

\* A tensor that is as its type says.
IsOf(v, type) == IsTensor(v, type.dtype) /\ v.shape = type.shape /\ v.dtype = type.dtype

\* What the e-node keeps of the instruction.
Encodes(i, regions, en) ==
  /\ i.op = "constant" => en.op = "constant" /\ en.text = i.text
  /\ i.op \in {"broadcast", "reshape"} => en.op = i.op /\ en.data = i.shape
  /\ i.op \in {"slice", "transpose"} => en.op = i.op /\ en.data = i.attr
  /\ i.op = "concatenate" => en.op = "concat" /\ en.data = i.attr
  /\ i.op \in BinaryOps \cup UnaryOps \cup {"dot"} => en.op = i.op
  /\ i.op = "convert" => en.op = "convert" /\ en.text = Text[i.dtype]
  /\ i.op = "reduce" => en.op = ReduceKind(regions[i.text]) /\ en.data = <<i.attr[1]>>

LEMMA ListedFields ==
  ASSUME NEW op, NEW data, NEW kids
  PROVE  Listed(op, data, kids).op = op /\ Listed(op, data, kids).data = data
BY DEF Listed, ENode

LEMMA PlainFields ==
  ASSUME NEW op, NEW kids
  PROVE  Plain(op, kids).op = op
BY DEF Plain, ENode

LEMMA OperationEncodes ==
  ASSUME NEW i, NEW regions, NEW kids, NEW en, en = Operation(i, regions, kids),
         i.op \in Supported, i.op # "parameter"
  PROVE  Encodes(i, regions, en)
<1>1. ASSUME i.op = "constant" PROVE en.op = "constant" /\ en.text = i.text
  <2>1. en = AddConstant(i)
    BY <1>1 DEF Operation, BinaryOps
  <2> QED
    BY <2>1 DEF AddConstant, Texted, ENode
<1>2. ASSUME i.op \in {"broadcast", "reshape"} PROVE en.op = i.op /\ en.data = i.shape
  <2>1. Kept(i) = i.shape
    BY <1>2 DEF Kept
  <2>2. i.op = "broadcast" => en = AddBroadcast(i, kids)
    BY DEF Operation, BinaryOps
  <2>3. i.op = "reshape" => en = AddReshape(i, kids)
    BY DEF Operation, BinaryOps
  <2>4. en = Listed(i.op, Kept(i), kids)
    BY <1>2, <2>2, <2>3 DEF AddBroadcast, AddReshape
  <2> QED
    BY <2>1, <2>4, ListedFields
<1>3. ASSUME i.op \in {"slice", "transpose"} PROVE en.op = i.op /\ en.data = i.attr
  <2>1. Kept(i) = i.attr
    BY <1>3 DEF Kept
  <2>2. i.op = "slice" => en = AddSlice(i, kids)
    BY DEF Operation, BinaryOps
  <2>3. i.op = "transpose" => en = AddTranspose(i, kids)
    BY DEF Operation, BinaryOps
  <2>4. en = Listed(i.op, Kept(i), kids)
    BY <1>3, <2>2, <2>3 DEF AddSlice, AddTranspose
  <2> QED
    BY <2>1, <2>4, ListedFields
<1>4. ASSUME i.op = "concatenate" PROVE en.op = "concat" /\ en.data = i.attr
  <2>1. Kept(i) = i.attr
    BY <1>4 DEF Kept
  <2>2. en = AddConcatenate(i, kids)
    BY <1>4 DEF Operation, BinaryOps
  <2>3. PICK some : some = <<kids[1], kids[2]>>
    BY Zenon
  <2>4. en = Listed("concat", i.attr, some)
    BY <2>1, <2>2, <2>3, Zenon DEF AddConcatenate
  <2> QED
    BY <2>4, ListedFields
<1>5. ASSUME i.op \in BinaryOps \cup UnaryOps \cup {"dot"} PROVE en.op = i.op
  <2>1. i.op \in BinaryOps \cup {"dot"} => en = AddBinaryOp(i, kids)
    BY DEF Operation, BinaryOps
  <2>2. i.op \in UnaryOps => en = AddUnaryOp(i, kids)
    BY DEF Operation, BinaryOps, UnaryOps
  <2>3. en = Plain(i.op, kids)
    BY <1>5, <2>1, <2>2 DEF AddBinaryOp, AddUnaryOp
  <2> QED
    BY <2>3, PlainFields, Zenon
<1>6. ASSUME i.op = "convert" PROVE en.op = "convert" /\ en.text = Text[i.dtype]
  <2>1. en = AddConvert(i, kids)
    BY <1>6 DEF Operation, BinaryOps
  <2> QED
    BY <2>1 DEF AddConvert, Texted, ENode
<1>7. ASSUME i.op = "reduce" PROVE en.op = ReduceKind(regions[i.text]) /\ en.data = <<i.attr[1]>>
  <2>1. Kept(i) = <<i.attr[1]>>
    BY <1>7 DEF Kept
  <2>2. en = AddReduce(i, regions[i.text], kids)
    BY <1>7 DEF Operation, BinaryOps
  <2>3. PICK some, op, data : /\ some = <<kids[1]>> /\ op = ReduceKind(regions[i.text])
                              /\ data = Kept(i)
    BY Zenon
  <2>5. en = Listed(op, data, some)
    BY <2>2, <2>3, Zenon DEF AddReduce
  <2>6. en.op = op /\ en.data = data
    BY <2>5, ListedFields
  <2>4. en.op = ReduceKind(regions[i.text]) /\ en.data = Kept(i)
    BY <2>3, <2>6, Zenon
  <2> QED
    BY <2>1, <2>4, Zenon
<1> QED
  BY <1>1, <1>2, <1>3, <1>4, <1>5, <1>6, <1>7, Zenon DEF Encodes

\* The operands are as their types say, and the instruction's type is inferred.
Ready(i, regions, args, x, y) ==
  /\ IsShapePos(i.shape) /\ i.dtype \in Dtypes
  /\ Inferred(i, x, y)
  /\ i.op \notin {"parameter", "constant", "convert"} => i.dtype = x.dtype
  /\ i.op \notin {"parameter", "constant"} => IsOf(args[1], x)
  /\ i.op \in BinaryOps \cup {"dot", "concatenate"} => IsOf(args[2], y)
  /\ i.op \in {"slice", "transpose", "concatenate", "reduce"} => IsShape(i.attr)
  /\ i.op = "reduce" => regions[i.text] \in Seq(STRING) /\ Reduces(regions[i.text])

\* One lemma for each kind of operation.
ComputesFor(i, regions, en, args, v) ==
  /\ Encodes(i, regions, en) /\ v = Computes(en, args, TypeOf(i))

LEMMA TypeFields ==
  ASSUME NEW i PROVE TypeOf(i).shape = i.shape /\ TypeOf(i).dtype = i.dtype
BY DEF TypeOf, Info

LEMMA ConstantIsTyped ==
  ASSUME NEW i, NEW regions, NEW en, NEW args, NEW v, ComputesFor(i, regions, en, args, v),
         NEW x, NEW y, Ready(i, regions, args, x, y), i.op = "constant"
  PROVE  IsOf(v, TypeOf(i))
<1>1. PICK text : text = i.text
  OBVIOUS
<1>2. en.op = "constant" /\ en.text = text
  BY <1>1 DEF ComputesFor, Encodes
<1>3. v = Scalar(<<"constant", text>>, i.dtype)
  BY <1>2, ComputesTyped, TypeFields DEF ComputesFor
<1>4. i.shape = <<1>> /\ i.dtype \in Dtypes
  BY Zenon DEF Ready, Inferred
<1>5. IsTensor(v, i.dtype) /\ v.shape = <<1>> /\ v.dtype = i.dtype
  BY <1>3, <1>4, ConstantIs
<1> QED
  BY <1>4, <1>5, TypeFields DEF IsOf

LEMMA BroadcastIsTyped ==
  ASSUME NEW i, NEW regions, NEW en, NEW args, NEW v, ComputesFor(i, regions, en, args, v),
         NEW x, NEW y, Ready(i, regions, args, x, y), i.op = "broadcast"
  PROVE  IsOf(v, TypeOf(i))
<1>1. PICK a : a = args[1]
  OBVIOUS
<1>2. IsTensor(a, i.dtype) /\ a.shape = x.shape /\ a.dtype = i.dtype /\ IsShapePos(i.shape)
  BY <1>1 DEF Ready, IsOf
<1>3. v = Broadcast(a, i.shape, Leading(a))
  <2>1. en.op = "broadcast" /\ en.data = i.shape
    BY DEF ComputesFor, Encodes
  <2> QED
    BY <1>1, <2>1, ComputesShapes DEF ComputesFor
<1>4. Product(a.shape) = 1 \/ \A k \in DOMAIN a.shape : k \in DOMAIN i.shape /\ a.shape[k] = i.shape[k]
  BY <1>2, Zenon DEF Ready, Inferred
<1>5. IsTensor(v, i.dtype) /\ v.shape = i.shape /\ v.dtype = a.dtype
  BY <1>2, <1>3, <1>4, BroadcastIs
<1> QED
  BY <1>2, <1>5, TypeFields DEF IsOf

LEMMA ReshapeIsTyped ==
  ASSUME NEW i, NEW regions, NEW en, NEW args, NEW v, ComputesFor(i, regions, en, args, v),
         NEW x, NEW y, Ready(i, regions, args, x, y), i.op = "reshape"
  PROVE  IsOf(v, TypeOf(i))
<1>1. PICK a : a = args[1]
  OBVIOUS
<1>2. IsTensor(a, i.dtype) /\ a.shape = x.shape /\ a.dtype = i.dtype /\ IsShapePos(i.shape)
  BY <1>1 DEF Ready, IsOf
<1>3. v = Reshape(a, i.shape)
  <2>1. en.op = "reshape" /\ en.data = i.shape
    BY DEF ComputesFor, Encodes
  <2> QED
    BY <1>1, <2>1, ComputesShapes DEF ComputesFor
<1>4. Product(i.shape) = Product(a.shape)
  BY <1>2, Zenon DEF Ready, Inferred
<1>5. IsTensor(v, i.dtype) /\ v.shape = i.shape /\ v.dtype = a.dtype
  BY <1>2, <1>3, <1>4, ReshapeFits
<1> QED
  BY <1>2, <1>5, TypeFields DEF IsOf

LEMMA ConvertIsTyped ==
  ASSUME NEW i, NEW regions, NEW en, NEW args, NEW v, ComputesFor(i, regions, en, args, v),
         NEW x, NEW y, Ready(i, regions, args, x, y), i.op = "convert"
  PROVE  IsOf(v, TypeOf(i))
<1>1. PICK a : a = args[1]
  OBVIOUS
<1>2. IsTensor(a, x.dtype) /\ a.shape = x.shape /\ i.dtype \in Dtypes
  BY <1>1 DEF Ready, IsOf
<1>3. v = Convert(a, i.dtype)
  <2>1. en.op = "convert" /\ en.text = Text[i.dtype]
    BY DEF ComputesFor, Encodes
  <2>2. DtypeOf(Text[i.dtype]) = i.dtype
    BY <1>2, DtypeOfName
  <2> QED
    BY <1>1, <2>1, <2>2, ComputesElements DEF ComputesFor
<1>4. a.shape = i.shape
  BY <1>2, Zenon DEF Ready, Inferred
<1>5. IsTensor(v, i.dtype) /\ v.shape = a.shape /\ v.dtype = i.dtype
  BY <1>2, <1>3, ConvertIs
<1> QED
  BY <1>4, <1>5, TypeFields DEF IsOf

LEMMA UnaryIsTyped ==
  ASSUME NEW i, NEW regions, NEW en, NEW args, NEW v, ComputesFor(i, regions, en, args, v),
         NEW x, NEW y, Ready(i, regions, args, x, y), i.op \in UnaryOps
  PROVE  IsOf(v, TypeOf(i))
<1>0. i.op \notin {"parameter", "constant", "convert"} /\ i.op \notin {"parameter", "constant"}
  BY DEF UnaryOps
<1>1. PICK a : a = args[1]
  OBVIOUS
<1>2. IsTensor(a, i.dtype) /\ a.shape = x.shape /\ a.dtype = i.dtype
  BY <1>0, <1>1, Zenon DEF Ready, IsOf
<1>3. v = Unary(i.op, a)
  <2>1. en.op = i.op
    BY DEF ComputesFor, Encodes
  <2> QED
    BY <1>1, <2>1, ComputesElements DEF ComputesFor
<1>4. a.shape = i.shape
  BY <1>2, Zenon DEF Ready, Inferred
<1>5. IsTensor(v, i.dtype) /\ v.shape = a.shape /\ v.dtype = a.dtype
  BY <1>2, <1>3, UnaryIs
<1> QED
  BY <1>2, <1>4, <1>5, TypeFields DEF IsOf

LEMMA BinaryIsTyped ==
  ASSUME NEW i, NEW regions, NEW en, NEW args, NEW v, ComputesFor(i, regions, en, args, v),
         NEW x, NEW y, Ready(i, regions, args, x, y), i.op \in BinaryOps
  PROVE  IsOf(v, TypeOf(i))
<1>0. i.op \notin {"parameter", "constant", "convert"} /\ i.op \notin {"parameter", "constant"}
  BY DEF BinaryOps
<1>1. PICK a, b : a = args[1] /\ b = args[2]
  OBVIOUS
<1>2. IsTensor(a, i.dtype) /\ a.shape = x.shape /\ a.dtype = i.dtype
  BY <1>0, <1>1, Zenon DEF Ready, IsOf
<1>3. v = Binary(i.op, a, b)
  <2>1. en.op = i.op
    BY DEF ComputesFor, Encodes
  <2> QED
    BY <1>1, <2>1, ComputesElements DEF ComputesFor
<1>4. x.shape = i.shape /\ y = x
  BY Zenon DEF Ready, Inferred
<1>5. IsTensor(b, y.dtype) /\ b.shape = y.shape
  BY <1>1 DEF Ready, IsOf
<1>6. IsCombined(v, i.dtype, i.op, a, b)
  BY <1>2, <1>3, <1>4, <1>5, BinaryIs
<1> QED
  BY <1>2, <1>4, <1>6, TypeFields DEF IsOf, IsCombined

LEMMA DotIsTyped ==
  ASSUME NEW i, NEW regions, NEW en, NEW args, NEW v, ComputesFor(i, regions, en, args, v),
         NEW x, NEW y, Ready(i, regions, args, x, y), i.op = "dot"
  PROVE  IsOf(v, TypeOf(i))
<1>1. PICK a, b : a = args[1] /\ b = args[2]
  OBVIOUS
<1>2. IsTensor(a, i.dtype) /\ a.shape = x.shape /\ a.dtype = i.dtype
  BY <1>1 DEF Ready, IsOf
<1>3. v = Dot(a, b)
  <2>1. en.op = "dot"
    BY DEF ComputesFor, Encodes
  <2> QED
    BY <1>1, <2>1, ComputesElements DEF ComputesFor
<1>4. Len(x.shape) = 2 /\ Len(y.shape) = 2 /\ x.shape[2] = y.shape[1]
      /\ i.shape = <<x.shape[1], y.shape[2]>>
  BY Zenon DEF Ready, Inferred
<1>5. IsTensor(b, y.dtype) /\ b.shape = y.shape
  BY <1>1 DEF Ready, IsOf
<1>6. IsTensor(v, i.dtype) /\ v.shape = <<a.shape[1], b.shape[2]>> /\ v.dtype = a.dtype
  BY <1>2, <1>3, <1>4, <1>5, DotIs
<1> QED
  BY <1>2, <1>4, <1>5, <1>6, TypeFields DEF IsOf

SliceFits(x, ranges, shape) ==
  /\ Len(ranges) = 2 * Len(x.shape) /\ Len(shape) = Len(x.shape) /\ IsShapePos(shape)
  /\ \A k \in DOMAIN x.shape : /\ shape[k] = ranges[2 * k] - ranges[2 * k - 1]
                              /\ ranges[2 * k] <= x.shape[k]

LEMMA SliceFitsIs ==
  ASSUME NEW x, NEW h, IsTensor(x, h), NEW ranges \in Seq(Nat), NEW shape,
         SliceFits(x, ranges, shape), NEW v, v = Slice(x, ranges, 1)
  PROVE  IsTensor(v, h) /\ v.shape = shape /\ v.dtype = x.dtype
<1> DEFINE d == Len(x.shape)
           made == SliceShape(x, ranges)
           E == [n \in 1 .. Product(made) |-> Element(x, SliceIndex(x, ranges, n))]
<1>1. /\ d \in Nat /\ DOMAIN x.shape = 1 .. d /\ Len(shape) = d /\ DOMAIN shape = 1 .. d
      /\ shape = [k \in 1 .. d |-> shape[k]]
      /\ \A k \in 1 .. d : x.shape[k] \in Nat /\ shape[k] \in Nat
  BY PosShapeFacts, Zenon DEF IsTensor, SliceFits
<1>2. ASSUME NEW k \in 1 .. d
      PROVE  /\ 2 * k <= Len(ranges) /\ ranges[2 * k] \in Nat /\ ranges[2 * k - 1] \in Nat
             /\ SliceTo(x, ranges, k) = ranges[2 * k] /\ SliceFrom(ranges, k) = ranges[2 * k - 1]
  <2>1. Len(ranges) = 2 * d
    BY DEF SliceFits
  <2>2. 2 * k <= Len(ranges) /\ 2 * k \in 1 .. Len(ranges) /\ 2 * k - 1 \in 1 .. Len(ranges)
    BY <1>1, <2>1
  <2> QED
    BY <2>2 DEF SliceTo, SliceFrom
<1>3. \A k \in DOMAIN x.shape : ~(SliceTo(x, ranges, k) > x.shape[k])
  <2>1. ASSUME NEW k \in 1 .. d PROVE ~(SliceTo(x, ranges, k) > x.shape[k])
    <3>1. ranges[2 * k] <= x.shape[k]
      BY <1>1, Zenon DEF SliceFits
    <3>2. SliceTo(x, ranges, k) \in Nat /\ x.shape[k] \in Nat /\ SliceTo(x, ranges, k) <= x.shape[k]
      BY <1>1, <1>2, <3>1, Zenon
    <3> QED
      BY <3>2
  <2> QED
    BY <1>1, <2>1
<1>4. MadeOf(v, made, x.dtype, E)
  BY <1>3 DEF MadeOf, Slice, Tensor, SliceShape, SliceIndex, SliceTo, SliceFrom
<1>5. made = shape
  <2>1. made = [k \in 1 .. d |-> (SliceTo(x, ranges, k) - SliceFrom(ranges, k) + 1 - 1) \div 1]
    BY <1>1 DEF SliceShape
  <2>2. ASSUME NEW k \in 1 .. d
        PROVE  (SliceTo(x, ranges, k) - SliceFrom(ranges, k) + 1 - 1) \div 1 = shape[k]
    <3>1. PICK t, f : t = SliceTo(x, ranges, k) /\ f = SliceFrom(ranges, k)
      OBVIOUS
    <3>2. shape[k] = ranges[2 * k] - ranges[2 * k - 1]
      BY <1>1, Zenon DEF SliceFits
    <3>3. shape[k] = t - f /\ t \in Nat /\ f \in Nat
      BY <1>2, <3>1, <3>2, Zenon
    <3>4. (t - f + 1 - 1) \div 1 = t - f
      BY <3>3
    <3> QED
      BY <3>1, <3>3, <3>4
  <2> QED
    BY <1>1, <2>1, <2>2, Zenon
<1>6. v.shape = made
  <2> HIDE DEF E, made
  <2>1. Tuple(made) = made
    BY <1>1, <1>5, TupleIs
  <2> QED
    BY <1>4, <2>1 DEF MadeOf
<1>7. IsShapePos(v.shape)
  BY <1>5, <1>6 DEF SliceFits
<1> HIDE DEF E, made
<1> QED
  BY <1>5, <1>6, <1>7, SliceIs

LEMMA SliceIsTyped ==
  ASSUME NEW i, NEW regions, NEW en, NEW args, NEW v, ComputesFor(i, regions, en, args, v),
         NEW x, NEW y, Ready(i, regions, args, x, y), i.op = "slice"
  PROVE  IsOf(v, TypeOf(i))
<1>1. PICK a : a = args[1]
  OBVIOUS
<1>2. IsTensor(a, i.dtype) /\ a.shape = x.shape /\ a.dtype = i.dtype /\ i.attr \in Seq(Nat)
      /\ IsShapePos(i.shape)
  BY <1>1 DEF Ready, IsOf, IsShape
<1>3. v = Slice(a, i.attr, 1)
  <2>1. en.op = "slice" /\ en.data = i.attr
    BY DEF ComputesFor, Encodes
  <2> QED
    BY <1>1, <2>1, ComputesShapes DEF ComputesFor
<1>4. SliceFits(a, i.attr, i.shape)
  <2>1. SliceFits(x, i.attr, i.shape)
    BY <1>2, Zenon DEF Ready, Inferred, SliceFits
  <2> QED
    BY <1>2, <2>1, Zenon DEF SliceFits
<1>5. IsTensor(v, i.dtype) /\ v.shape = i.shape /\ v.dtype = a.dtype
  BY <1>2, <1>3, <1>4, SliceFitsIs
<1> QED
  BY <1>2, <1>5, TypeFields DEF IsOf

ConcatFits(x, y, dim, shape) ==
  /\ dim + 1 \in DOMAIN x.shape /\ Len(y.shape) = Len(x.shape) /\ Len(shape) = Len(x.shape)
  /\ \A k \in DOMAIN x.shape :
       IF k = dim + 1 THEN shape[k] = x.shape[k] + y.shape[k]
       ELSE shape[k] = x.shape[k] /\ y.shape[k] = x.shape[k]

LEMMA ConcatFitsIs ==
  ASSUME NEW x, NEW h, IsTensor(x, h), NEW y, NEW k0, IsTensor(y, k0), y.dtype = x.dtype,
         NEW dim \in Nat, NEW shape, IsShapePos(shape), ConcatFits(x, y, dim, shape),
         NEW v, v = Concat(x, y, dim)
  PROVE  IsTensor(v, h) /\ v.shape = shape /\ v.dtype = x.dtype
<1>1. PICK d : d = Len(x.shape)
  BY Zenon
<1>2. /\ d \in Nat /\ DOMAIN x.shape = 1 .. d /\ shape = [k \in 1 .. d |-> shape[k]]
      /\ x.shape = [k \in 1 .. d |-> x.shape[k]] /\ DOMAIN y.shape = 1 .. d
      /\ Len(x.shape) = Len(y.shape) /\ dim + 1 \in 1 .. d
  BY <1>1, PosShapeFacts, Zenon DEF IsTensor, ConcatFits
<1>3. \A k \in DOMAIN x.shape : k # dim + 1 => x.shape[k] = y.shape[k]
  BY DEF ConcatFits
<1>4. /\ IsTensor(v, h) /\ v.dtype = x.dtype
      /\ v.shape = [x.shape EXCEPT ![dim + 1] = @ + y.shape[dim + 1]]
  <2>1. dim + 1 \in DOMAIN x.shape /\ Len(x.shape) = Len(y.shape)
    BY DEF ConcatFits
  <2> QED
    BY <1>3, <2>1, ConcatIs
<1>5. [x.shape EXCEPT ![dim + 1] = @ + y.shape[dim + 1]] = shape
  <2>1. PICK s, r : s = x.shape /\ r = y.shape
    OBVIOUS
  <2>2. \A k \in 1 .. d : shape[k] = IF k = dim + 1 THEN s[k] + r[k] ELSE s[k]
    BY <1>2, <2>1 DEF ConcatFits
  <2>3. [s EXCEPT ![dim + 1] = @ + r[dim + 1]]
          = [k \in 1 .. d |-> IF k = dim + 1 THEN s[k] + r[k] ELSE s[k]]
    BY <1>2, <2>1, Zenon
  <2> QED
    BY <1>2, <2>1, <2>2, <2>3, Zenon
<1> QED
  BY <1>4, <1>5

LEMMA ConcatIsTyped ==
  ASSUME NEW i, NEW regions, NEW en, NEW args, NEW v, ComputesFor(i, regions, en, args, v),
         NEW x, NEW y, Ready(i, regions, args, x, y), i.op = "concatenate", i.attr # <<>>
  PROVE  IsOf(v, TypeOf(i))
<1>1. PICK a, b, dim : a = args[1] /\ b = args[2] /\ dim = i.attr[1]
  OBVIOUS
<1>2. IsTensor(a, i.dtype) /\ a.shape = x.shape /\ a.dtype = i.dtype /\ i.dtype = x.dtype
      /\ IsShapePos(i.shape) /\ i.attr \in Seq(Nat)
  BY <1>1 DEF Ready, IsOf, IsShape
<1>3. v = Concat(a, b, dim)
  <2>1. en.op = "concat" /\ en.data = i.attr
    BY DEF ComputesFor, Encodes
  <2> QED
    BY <1>1, <2>1, ComputesShapes DEF ComputesFor
<1>4. IsTensor(b, y.dtype) /\ b.shape = y.shape /\ b.dtype = y.dtype
  BY <1>1 DEF Ready, IsOf
<1>5. ConcatFits(x, y, dim, i.shape) /\ y.dtype = x.dtype
  BY <1>1, Zenon DEF Ready, Inferred, ConcatFits
<1>6. ConcatFits(a, b, dim, i.shape) /\ b.dtype = a.dtype
  BY <1>2, <1>4, <1>5 DEF ConcatFits
<1>7. dim \in Nat
  BY <1>1, <1>2
<1>8. IsTensor(v, i.dtype) /\ v.shape = i.shape /\ v.dtype = a.dtype
  BY <1>2, <1>3, <1>4, <1>6, <1>7, ConcatFitsIs
<1> QED
  BY <1>2, <1>8, TypeFields DEF IsOf

TransposeFits(x, attr, shape) ==
  /\ Len(attr) = Len(x.shape) /\ Len(shape) = Len(x.shape)
  /\ \A k \in DOMAIN x.shape : \E j \in DOMAIN attr : attr[j] + 1 = k
  /\ \A k \in DOMAIN attr : /\ attr[k] + 1 \in DOMAIN x.shape
                           /\ shape[k] = x.shape[attr[k] + 1]

LEMMA TransposeFitsIs ==
  ASSUME NEW x, NEW h, IsTensor(x, h), NEW attr \in Seq(Nat), NEW shape, IsShapePos(shape),
         TransposeFits(x, attr, shape), NEW v, v = Transpose(x, OneBased(attr))
  PROVE  IsTensor(v, h) /\ v.shape = shape /\ v.dtype = x.dtype
<1>1. PICK d : d = Len(x.shape)
  BY Zenon
<1>2. /\ d \in Nat \ {0} /\ DOMAIN x.shape = 1 .. d /\ shape = [k \in 1 .. d |-> shape[k]]
      /\ DOMAIN attr = 1 .. d /\ Len(attr) = d
      /\ \A k \in 1 .. d : attr[k] \in Nat
  <2>1. PICK s : s = x.shape
    OBVIOUS
  <2>2. IsShapePos(s) /\ d = Len(s)
    BY <1>1, <2>1 DEF IsTensor
  <2>3. d \in Nat \ {0} /\ DOMAIN s = 1 .. d
    BY <2>2, PosShapeFacts
  <2>4. Len(attr) = d /\ Len(shape) = d
    BY <1>1 DEF TransposeFits
  <2>5. shape = [k \in 1 .. d |-> shape[k]]
    BY <2>4, PosShapeFacts
  <2>6. DOMAIN attr = 1 .. d /\ \A k \in 1 .. d : attr[k] \in Nat
    BY <2>4
  <2> QED
    BY <2>1, <2>3, <2>4, <2>5, <2>6
<1>3. \E k \in DOMAIN attr : attr[k] = 0
  <2>1. 1 \in DOMAIN x.shape
    BY <1>2
  <2>2. PICK j \in DOMAIN attr : attr[j] + 1 = 1
    BY <2>1 DEF TransposeFits
  <2>3. attr[j] = 0
    BY <1>2, <2>2
  <2> QED
    BY <2>3
<1>4. PICK perm : perm = OneBased(attr)
  OBVIOUS
<1>5. perm = [k \in 1 .. d |-> attr[k] + 1]
  BY <1>2, <1>3, <1>4 DEF OneBased
<1>6. perm \in Seq(Nat) /\ Len(perm) = d /\ DOMAIN perm = 1 .. d
      /\ \A k \in 1 .. d : perm[k] = attr[k] + 1
  <2>1. IsArray(perm, d) /\ \A k \in 1 .. d : perm[k] \in Nat
    BY <1>2, <1>5 DEF IsArray
  <2> QED
    BY <1>2, <1>5, <2>1, ArrayIsSeq
<1>7. \A k \in DOMAIN perm : perm[k] \in DOMAIN x.shape
  BY <1>2, <1>6 DEF TransposeFits
<1>8. \A j \in DOMAIN x.shape : \E k \in DOMAIN perm : perm[k] = j
  BY <1>2, <1>6 DEF TransposeFits
<1>9. IsTensor(v, h) /\ v.shape = TransposeShape(x, perm) /\ v.dtype = x.dtype
  <2>1. v = Transpose(x, perm) /\ OrdersAxes(perm, x.shape)
    BY <1>1, <1>4, <1>6, <1>7, <1>8 DEF OrdersAxes
  <2> QED
    BY <2>1, TransposeIs
<1>10. TransposeShape(x, perm) = [k \in 1 .. d |-> x.shape[perm[k]]]
  BY <1>6 DEF TransposeShape
<1>11. \A k \in 1 .. d : shape[k] = x.shape[perm[k]]
  BY <1>2, <1>6, Zenon DEF TransposeFits
<1> QED
  BY <1>2, <1>9, <1>10, <1>11

LEMMA TransposeIsTyped ==
  ASSUME NEW i, NEW regions, NEW en, NEW args, NEW v, ComputesFor(i, regions, en, args, v),
         NEW x, NEW y, Ready(i, regions, args, x, y), i.op = "transpose"
  PROVE  IsOf(v, TypeOf(i))
<1>1. PICK a : a = args[1]
  OBVIOUS
<1>2. IsTensor(a, i.dtype) /\ a.shape = x.shape /\ a.dtype = i.dtype /\ i.attr \in Seq(Nat)
      /\ IsShapePos(i.shape)
  BY <1>1 DEF Ready, IsOf, IsShape
<1>3. v = Transpose(a, OneBased(i.attr))
  <2>1. en.op = "transpose" /\ en.data = i.attr
    BY DEF ComputesFor, Encodes
  <2> QED
    BY <1>1, <2>1, ComputesShapes DEF ComputesFor
<1>4. TransposeFits(a, i.attr, i.shape)
  <2>1. TransposeFits(x, i.attr, i.shape)
    BY <1>2, Zenon DEF Ready, Inferred, TransposeFits
  <2> QED
    BY <1>2, <2>1, Zenon DEF TransposeFits
<1>5. IsTensor(v, i.dtype) /\ v.shape = i.shape /\ v.dtype = a.dtype
  BY <1>2, <1>3, <1>4, TransposeFitsIs
<1> QED
  BY <1>2, <1>5, TypeFields DEF IsOf

ReduceFits(x, dim, shape) ==
  /\ dim + 1 \in DOMAIN x.shape
  /\ IF Len(x.shape) = 1 THEN shape = <<1>>
     ELSE /\ Len(shape) = Len(x.shape) - 1
          /\ \A k \in DOMAIN shape : shape[k] = x.shape[IF k <= dim THEN k ELSE k + 1]

LEMMA ReduceFitsIs ==
  ASSUME NEW x, NEW h, IsTensor(x, h), NEW kind \in Reductions, NEW dim \in Nat,
         NEW shape, IsShapePos(shape), ReduceFits(x, dim, shape), NEW v, v = Reduce(kind, x, dim)
  PROVE  IsTensor(v, h) /\ v.shape = shape /\ v.dtype = x.dtype
<1>1. PICK s, d : s = x.shape /\ d = Len(s)
  BY Zenon
<1>2. d \in Nat \ {0}
  BY <1>1, PosShapeFacts DEF IsTensor
<1>3. ReduceShape(x, dim + 1) = shape
  <2>1. PICK kept : kept = [k \in 1 .. d - 1 |-> s[IF k < dim + 1 THEN k ELSE k + 1]]
    BY Zenon
  <2>2. ReduceShape(x, dim + 1) = IF kept = <<>> THEN <<1>> ELSE kept
    BY <1>1, <2>1 DEF ReduceShape
  <2>3. CASE d = 1
    <3>1. kept = <<>>
      BY <2>1, <2>3
    <3> QED
      BY <1>1, <2>2, <2>3, <3>1 DEF ReduceFits
  <2>4. CASE d # 1
    <3>1. shape = [k \in 1 .. d - 1 |-> shape[k]]
      BY <1>1, <2>4, PosShapeFacts, Zenon DEF ReduceFits
    <3>2. \A k \in 1 .. d - 1 : shape[k] = s[IF k <= dim THEN k ELSE k + 1]
      BY <1>1, <2>4, PosShapeFacts, Zenon DEF ReduceFits
    <3>3. \A k \in 1 .. d - 1 : (IF k <= dim THEN k ELSE k + 1) = (IF k < dim + 1 THEN k ELSE k + 1)
      BY <1>2
    <3>4. kept = shape
      BY <2>1, <3>1, <3>2, <3>3
    <3>5. shape # <<>>
      BY DEF IsShapePos
    <3> QED
      BY <2>2, <3>4, <3>5
  <2> QED
    BY <2>3, <2>4
<1> QED
  BY <1>3, ReduceIs

LEMMA ReduceIsTyped ==
  ASSUME NEW i, NEW regions, NEW en, NEW args, NEW v, ComputesFor(i, regions, en, args, v),
         NEW x, NEW y, Ready(i, regions, args, x, y), i.op = "reduce"
  PROVE  IsOf(v, TypeOf(i))
<1>1. PICK a, dim, kind : a = args[1] /\ dim = i.attr[1] /\ kind = ReduceKind(regions[i.text])
  OBVIOUS
<1>2. IsTensor(a, i.dtype) /\ a.shape = x.shape /\ a.dtype = i.dtype /\ i.attr \in Seq(Nat)
      /\ IsShapePos(i.shape)
  BY <1>1 DEF Ready, IsOf, IsShape
<1>3. kind \in Reductions
  <2>1. PICK region : region = regions[i.text]
    OBVIOUS
  <2>2. region \in Seq(STRING) /\ Reduces(region)
    BY <2>1 DEF Ready
  <2> QED
    BY <1>1, <2>1, <2>2, ReduceKindIsOne
<1>4. v = Reduce(kind, a, dim)
  <2>1. en.op = kind /\ en.data = <<dim>>
    BY <1>1 DEF ComputesFor, Encodes
  <2> QED
    BY <1>1, <1>3, <2>1, ComputesElements DEF ComputesFor
<1>5. Len(i.attr) = 1 /\ ReduceFits(x, dim, i.shape)
  BY <1>1, Zenon DEF Ready, Inferred, ReduceFits
<1>6. ReduceFits(a, dim, i.shape)
  BY <1>2, <1>5, Zenon DEF ReduceFits
<1>7. dim \in Nat
  BY <1>1, <1>2, <1>5
<1>8. IsTensor(v, i.dtype) /\ v.shape = i.shape /\ v.dtype = a.dtype
  BY <1>2, <1>3, <1>4, <1>6, <1>7, ReduceFitsIs
<1> QED
  BY <1>2, <1>8, TypeFields DEF IsOf

LEMMA OperationIsTyped ==
  ASSUME NEW i, NEW regions, NEW en, NEW args, NEW v, ComputesFor(i, regions, en, args, v),
         NEW x, NEW y, Ready(i, regions, args, x, y), i.op \in Supported, i.op # "parameter",
         i.op = "concatenate" => i.attr # <<>>
  PROVE  IsOf(v, TypeOf(i))
<1>1. CASE i.op \in BinaryOps
  BY <1>1, BinaryIsTyped
<1>2. CASE i.op \in UnaryOps
  BY <1>2, UnaryIsTyped
<1>3. CASE i.op \in {"constant", "broadcast", "slice", "dot", "concatenate"}
  BY <1>3, ConstantIsTyped, BroadcastIsTyped, SliceIsTyped, DotIsTyped, ConcatIsTyped
<1>4. CASE i.op \in {"reshape", "transpose", "convert", "reduce"}
  BY <1>4, ReshapeIsTyped, TransposeIsTyped, ConvertIsTyped, ReduceIsTyped
<1> QED
  BY <1>1, <1>2, <1>3, <1>4 DEF Supported

-----------------------------------------------------------------------------
(* What a parameter and the root are made of.                              *)

Untiled(i) == i.tile = <<>> /\ IsShapePos(i.shape) /\ i.dtype \in Dtypes

VarValue(i)       == InputBytes(<<Bytes(TypeOf(i))>>, i.sym)
BytesValue(i)     == Reshape(VarValue(i), WithSize(i.shape, i.dtype))
ParameterValue(i) == Bitcast(BytesValue(i), i.dtype)
RootValue(i, v)   == Reshape(Bitcast(v, "U8"), <<Bytes(TypeOf(i))>>)

LEMMA BytesOfType ==
  ASSUME NEW i, Untiled(i), NEW n, n = Bytes(TypeOf(i))
  PROVE  n \in Pos /\ n = Product(i.shape) * SizeInBytes(i.dtype)
<1>1. IsShapePos(i.shape) /\ i.dtype \in Dtypes
  BY DEF Untiled
<1>2. n = Product(i.shape) * SizeInBytes(i.dtype)
  BY TypeFields DEF Bytes
<1>3. PICK p, s : p = Product(i.shape) /\ s = SizeInBytes(i.dtype)
  OBVIOUS
<1>4. p \in Pos /\ s \in Pos
  BY <1>1, <1>3, PosShapeFacts, SizeIs
<1>5. p * s \in Pos
  BY <1>4, TimesIsPos
<1> QED
  BY <1>2, <1>3, <1>5

LEMMA FlatShape ==
  ASSUME NEW n \in Pos, NEW s, s = <<n>>
  PROVE  IsShapePos(s) /\ Product(s) = n
<1>1. n \in Nat
  BY DEF Pos
<1> QED
  BY <1>1, ProductOfOne DEF IsShapePos

-----------------------------------------------------------------------------
(* HLO's meaning of an operation is what its e-node computes.              *)

LEMMA MeaningElements ==
  ASSUME NEW i, NEW regions, NEW args
  PROVE  /\ i.op = "constant" => Meaning(i, regions, args) = Scalar(<<"constant", i.text>>, i.dtype)
         /\ i.op = "convert" => Meaning(i, regions, args) = Convert(args[1], i.dtype)
         /\ i.op = "dot" =>
              Meaning(i, regions, args) = Dot(Contracted(args[1], 1, i.attr[1]), Contracted(args[2], 0, i.attr[2]))
         /\ i.op \in UnaryOps => Meaning(i, regions, args) = Unary(i.op, args[1])
         /\ i.op \in BinaryOps => Meaning(i, regions, args) = Binary(i.op, args[1], args[2])
         /\ i.op = "parameter" => Meaning(i, regions, args) = ParameterMeaning(i)
BY DEF Meaning, BinaryOps, UnaryOps

LEMMA MeaningShapes ==
  ASSUME NEW i, NEW regions, NEW args
  PROVE  /\ i.op = "broadcast" => Meaning(i, regions, args) = Broadcast(args[1], i.shape, i.attr)
         /\ i.op = "slice" => Meaning(i, regions, args) = Slice(args[1], i.attr, i.stride)
         /\ i.op = "concatenate" => Meaning(i, regions, args) = Concatenated(args, i.attr[1])
         /\ i.op = "reshape" => Meaning(i, regions, args) = Reshape(args[1], i.shape)
         /\ i.op = "transpose" =>
              Meaning(i, regions, args) = Transpose(args[1], [k \in DOMAIN i.attr |-> i.attr[k] + 1])
         /\ i.op = "reduce" =>
              Meaning(i, regions, args) = ReduceMeaning(regions[i.text], args[1], args[2].elems[1], i.attr)
BY DEF Meaning, BinaryOps, UnaryOps

\* What the initializer drops says nothing: two operands to concatenate, one
\* dimension to reduce and a neutral element, rows and columns.
Lean(i, regions, args) ==
  /\ i.op = "concatenate" => Len(args) = 2
  /\ i.op = "dot" => i.attr = <<1, 0>>
  /\ i.op = "reduce" => args[2].elems[1] = <<"constant", Neutral[LastOperator(regions[i.text])]>>

\* A recursive function of two steps.
LEMMA ConcatenatedTwo ==
  ASSUME NEW args, Len(args) = 2, NEW dim
  PROVE  Concatenated(args, dim) = Concat(args[1], args[2], dim)
<1> DEFINE Body(f) == [k \in 1 .. Len(args) |-> IF k = 1 THEN args[1] ELSE Concat(f[k - 1], args[k], dim)]
           upto == CHOOSE f : f = Body(f)
<1>1. Concatenated(args, dim) = upto[Len(args)]
  BY Zenon DEF Concatenated
<1>2. PICK c : c = Concat(args[1], args[2], dim)
  OBVIOUS
<1>3. \E f : f = Body(f)
  <2> DEFINE f == [k \in 1 .. 2 |-> IF k = 1 THEN args[1] ELSE c]
  <2>1. f[1] = args[1] /\ f[2] = c
    OBVIOUS
  <2>2. \A k \in 1 .. 2 : f[k] = IF k = 1 THEN args[1] ELSE Concat(f[k - 1], args[k], dim)
    <3>1. 2 - 1 = 1 /\ \A k \in 1 .. 2 : k = 1 \/ k = 2
      OBVIOUS
    <3> HIDE DEF f
    <3> QED
      BY <1>2, <2>1, <3>1
  <2>3. f = Body(f)
    BY <2>2
  <2> HIDE DEF f
  <2> QED
    BY <2>3
<1>4. upto = Body(upto)
  <2> HIDE DEF Body
  <2> QED
    BY <1>3
<1> HIDE DEF upto
<1>5. upto[1] = args[1] /\ upto[2] = Concat(upto[2 - 1], args[2], dim)
  <2>1. 1 \in 1 .. Len(args) /\ 2 \in 1 .. Len(args) /\ 2 # 1
    OBVIOUS
  <2> QED
    BY <1>4, <2>1, Zenon
<1> QED
  BY <1>1, <1>5

LEMMA ReduceMeaningOne ==
  ASSUME NEW region, NEW x, NEW init, NEW dims, Len(dims) = 1,
         init = <<"constant", Neutral[LastOperator(region)]>>
  PROVE  ReduceMeaning(region, x, init, dims) = Reduce(ReduceKind(region), x, dims[1])
<1> DEFINE Body(f) == [k \in 0 .. Len(dims) |->
                         IF k = 0 THEN x
                         ELSE Reduce(ReduceKind(region), f[k - 1], dims[Len(dims) + 1 - k])]
           over == CHOOSE f : f = Body(f)
<1>1. ReduceMeaning(region, x, init, dims) = over[Len(dims)]
  BY Zenon DEF ReduceMeaning
<1>2. PICK r : r = Reduce(ReduceKind(region), x, dims[1])
  OBVIOUS
<1>3. \E f : f = Body(f)
  <2> DEFINE f == [k \in 0 .. 1 |-> IF k = 0 THEN x ELSE r]
  <2>1. f[0] = x /\ f[1] = r
    OBVIOUS
  <2>2. \A k \in 0 .. 1 : f[k] = IF k = 0 THEN x ELSE Reduce(ReduceKind(region), f[k - 1], dims[1 + 1 - k])
    <3>1. 1 - 1 = 0 /\ 1 + 1 - 1 = 1 /\ \A k \in 0 .. 1 : k = 0 \/ k = 1
      OBVIOUS
    <3> HIDE DEF f
    <3> QED
      BY <1>2, <2>1, <3>1
  <2>3. f = Body(f)
    BY <2>2
  <2> HIDE DEF f
  <2> QED
    BY <2>3
<1>4. over = Body(over)
  <2> HIDE DEF Body
  <2> QED
    BY <1>3
<1> HIDE DEF over
<1>5. over[0] = x /\ over[1] = Reduce(ReduceKind(region), over[1 - 1], dims[Len(dims) + 1 - 1])
  <2>1. 0 \in 0 .. Len(dims) /\ 1 \in 0 .. Len(dims) /\ 1 # 0
    OBVIOUS
  <2> QED
    BY <1>4, <2>1, Zenon
<1> QED
  BY <1>1, <1>5

\* Both get the same operands; a reduce has its initial value only in HLO.
Agree(i, args, margs) ==
  /\ i.op # "constant" => margs[1] = args[1]
  /\ i.op \in BinaryOps \cup {"dot", "concatenate"} => margs[2] = args[2]

LEMMA BroadcastMeans ==
  ASSUME NEW i, NEW regions, NEW en, NEW args, NEW v, ComputesFor(i, regions, en, args, v),
         NEW x, NEW y, Ready(i, regions, args, x, y), i.op = "broadcast",
         NEW margs, Agree(i, args, margs)
  PROVE  Meaning(i, regions, margs) = v
<1>1. PICK a : a = args[1]
  OBVIOUS
<1>2. IsTensor(a, i.dtype) /\ a.shape = x.shape /\ IsShapePos(i.shape)
  BY <1>1 DEF Ready, IsOf
<1>3. v = Broadcast(a, i.shape, Leading(a))
  <2>1. en.op = "broadcast" /\ en.data = i.shape
    BY DEF ComputesFor, Encodes
  <2> QED
    BY <1>1, <2>1, ComputesShapes DEF ComputesFor
<1>4. Meaning(i, regions, margs) = Broadcast(a, i.shape, i.attr)
  <2>1. margs[1] = a
    BY <1>1 DEF Agree
  <2> QED
    BY <2>1, MeaningShapes, Zenon
<1>5. Product(a.shape) = 1 \/ i.attr = Leading(a)
  BY <1>2 DEF Ready, Inferred, Leading
<1>6. CASE i.attr = Leading(a)
  BY <1>3, <1>4, <1>6
<1>7. CASE Product(a.shape) = 1
  <2>1. Len(a.elems) = 1
    BY <1>2, <1>7, TensorFacts, Zenon
  <2>2. PICK w : w = Meaning(i, regions, margs)
    OBVIOUS
  <2>3. PICK n : n = Product(i.shape)
    OBVIOUS
  <2>4. PICK E : /\ MadeOf(v, i.shape, a.dtype, E) /\ IsArray(E, n)
                 /\ \A m \in 1 .. n : E[m] = BroadcastElement(a, i.shape, Leading(a), m)
    BY <1>3, <2>3, BroadcastMakes
  <2>5. PICK F : /\ MadeOf(w, i.shape, a.dtype, F) /\ IsArray(F, n)
                 /\ \A m \in 1 .. n : F[m] = BroadcastElement(a, i.shape, i.attr, m)
    BY <1>4, <2>2, <2>3, BroadcastMakes
  <2>6. \A m \in 1 .. n : E[m] = a.elems[1] /\ F[m] = a.elems[1]
    BY <2>1, <2>4, <2>5 DEF BroadcastElement
  <2>7. E = F
    BY <2>4, <2>5, <2>6 DEF IsArray
  <2> QED
    BY <2>2, <2>4, <2>5, <2>7 DEF MadeOf
<1> QED
  BY <1>5, <1>6, <1>7

LEMMA TransposeMeans ==
  ASSUME NEW i, NEW regions, NEW en, NEW args, NEW v, ComputesFor(i, regions, en, args, v),
         NEW x, NEW y, Ready(i, regions, args, x, y), i.op = "transpose",
         NEW margs, Agree(i, args, margs)
  PROVE  Meaning(i, regions, margs) = v
<1>1. PICK a : a = args[1]
  OBVIOUS
<1>2. IsTensor(a, i.dtype) /\ a.shape = x.shape /\ i.attr \in Seq(Nat)
  BY <1>1 DEF Ready, IsOf, IsShape
<1>3. v = Transpose(a, OneBased(i.attr))
  <2>1. en.op = "transpose" /\ en.data = i.attr
    BY DEF ComputesFor, Encodes
  <2> QED
    BY <1>1, <2>1, ComputesShapes DEF ComputesFor
<1>4. \E k \in DOMAIN i.attr : i.attr[k] = 0
  <2>1. TransposeFits(x, i.attr, i.shape)
    BY Zenon DEF Ready, Inferred, TransposeFits
  <2>2. PICK s, attr : s = a.shape /\ attr = i.attr
    OBVIOUS
  <2>3. IsShapePos(s) /\ attr \in Seq(Nat)
    BY <1>2, <2>2 DEF IsTensor
  <2>4. 1 \in DOMAIN s
    BY <2>3, PosShapeFacts
  <2>5. PICK j \in DOMAIN attr : attr[j] + 1 = 1
    BY <1>2, <2>1, <2>2, <2>4 DEF TransposeFits
  <2>6. attr[j] = 0
    BY <2>3, <2>5
  <2> QED
    BY <2>2, <2>6
<1>5. OneBased(i.attr) = [k \in DOMAIN i.attr |-> i.attr[k] + 1]
  BY <1>4 DEF OneBased
<1>6. margs[1] = a
  BY <1>1 DEF Agree
<1> QED
  BY <1>3, <1>5, <1>6, MeaningShapes

LEMMA ReduceMeans ==
  ASSUME NEW i, NEW regions, NEW en, NEW args, NEW v, ComputesFor(i, regions, en, args, v),
         NEW x, NEW y, Ready(i, regions, args, x, y), i.op = "reduce",
         NEW margs, Agree(i, args, margs), Lean(i, regions, margs)
  PROVE  Meaning(i, regions, margs) = v
<1>1. PICK a, dim, kind, region :
        a = args[1] /\ dim = i.attr[1] /\ kind = ReduceKind(region) /\ region = regions[i.text]
  OBVIOUS
<1>2. kind \in Reductions
  <2>1. region \in Seq(STRING) /\ Reduces(region)
    BY <1>1 DEF Ready
  <2> QED
    BY <1>1, <2>1, ReduceKindIsOne
<1>3. v = Reduce(kind, a, dim)
  <2>1. en.op = kind /\ en.data = <<dim>>
    BY <1>1 DEF ComputesFor, Encodes
  <2> QED
    BY <1>1, <1>2, <2>1, ComputesElements DEF ComputesFor
<1>4. Len(i.attr) = 1
  BY Zenon DEF Ready, Inferred
<1>5. PICK init, dims : init = margs[2].elems[1] /\ dims = i.attr
  OBVIOUS
<1>6. init = <<"constant", Neutral[LastOperator(region)]>>
  BY <1>1, <1>5 DEF Lean
<1>7. ReduceMeaning(region, a, init, dims) = Reduce(ReduceKind(region), a, dims[1])
  <2>1. Len(dims) = 1
    BY <1>4, <1>5
  <2> QED
    BY <1>6, <2>1, ReduceMeaningOne
<1>8. margs[1] = a
  BY <1>1 DEF Agree
<1>9. Meaning(i, regions, margs) = ReduceMeaning(region, a, init, dims)
  BY <1>1, <1>5, <1>8, MeaningShapes, Zenon
<1> QED
  BY <1>1, <1>3, <1>5, <1>7, <1>9

LEMMA DotMeans ==
  ASSUME NEW i, NEW regions, NEW en, NEW args, NEW v, ComputesFor(i, regions, en, args, v),
         i.op = "dot", NEW margs, Agree(i, args, margs), Lean(i, regions, margs)
  PROVE  Meaning(i, regions, margs) = v
<1>1. PICK a, b : a = args[1] /\ b = args[2]
  OBVIOUS
<1>2. v = Dot(a, b)
  <2>1. en.op = "dot"
    BY DEF ComputesFor, Encodes
  <2> QED
    BY <1>1, <2>1, ComputesElements DEF ComputesFor
<1>3. margs[1] = a /\ margs[2] = b
  BY <1>1 DEF Agree
<1>4. PICK one, two : one = i.attr[1] /\ two = i.attr[2]
  OBVIOUS
<1>5. one = 1 /\ two = 0
  BY <1>4 DEF Lean
<1>6. Contracted(a, 1, one) = a /\ Contracted(b, 0, two) = b
  BY <1>5 DEF Contracted
<1>7. Meaning(i, regions, margs) = Dot(Contracted(a, 1, one), Contracted(b, 0, two))
  BY <1>3, <1>4, MeaningElements, Zenon
<1> QED
  BY <1>2, <1>6, <1>7

\* The others are the same by their definitions.
LEMMA PlainMeans ==
  ASSUME NEW i, NEW regions, NEW en, NEW args, NEW v, ComputesFor(i, regions, en, args, v),
         NEW x, NEW y, Ready(i, regions, args, x, y),
         i.op \in BinaryOps \cup UnaryOps \cup {"constant", "slice", "concatenate", "reshape", "convert"},
         NEW margs, Agree(i, args, margs), Lean(i, regions, margs)
  PROVE  Meaning(i, regions, margs) = v
<1>0. PICK a, b : a = args[1] /\ b = args[2]
  OBVIOUS
<1>1. CASE i.op \in BinaryOps
  <2>1. en.op = i.op
    BY <1>1 DEF ComputesFor, Encodes
  <2>2. i.op # "constant"
    BY <1>1 DEF BinaryOps
  <2>3. margs[1] = args[1] /\ margs[2] = args[2]
    BY <1>1, <2>2, Zenon DEF Agree
  <2>8. v = Binary(i.op, a, b)
    BY <1>0, <1>1, <2>1, ComputesElements DEF ComputesFor
  <2>9. Meaning(i, regions, margs) = Binary(i.op, a, b)
    BY <1>0, <1>1, <2>3, MeaningElements, Zenon
  <2> QED
    BY <2>8, <2>9
<1>2. CASE i.op \in UnaryOps
  <2>1. en.op = i.op
    BY <1>2 DEF ComputesFor, Encodes
  <2>2. i.op # "constant"
    BY <1>2 DEF UnaryOps
  <2>3. margs[1] = args[1]
    BY <1>2, <2>2, Zenon DEF Agree
  <2>8. v = Unary(i.op, a)
    BY <1>0, <1>2, <2>1, ComputesElements DEF ComputesFor
  <2>9. Meaning(i, regions, margs) = Unary(i.op, a)
    BY <1>0, <1>2, <2>3, MeaningElements, Zenon
  <2> QED
    BY <2>8, <2>9
<1>3. CASE i.op = "constant"
  <2>1. en.op = "constant" /\ en.text = i.text
    BY <1>3 DEF ComputesFor, Encodes
  <2>8. v = Scalar(<<"constant", i.text>>, i.dtype)
    BY <1>0, <1>3, <2>1, ComputesTyped, TypeFields DEF ComputesFor
  <2>9. Meaning(i, regions, margs) = Scalar(<<"constant", i.text>>, i.dtype)
    BY <1>0, <1>3, MeaningElements
  <2> QED
    BY <2>8, <2>9
<1>4. CASE i.op = "slice"
  <2>1. en.op = "slice" /\ en.data = i.attr
    BY <1>4 DEF ComputesFor, Encodes
  <2>2. i.stride = 1
    BY <1>4, Zenon DEF Ready, Inferred
  <2>3. margs[1] = args[1]
    BY <1>4 DEF Agree
  <2>8. v = Slice(a, i.attr, 1)
    BY <1>0, <1>4, <2>1, ComputesShapes DEF ComputesFor
  <2>9. Meaning(i, regions, margs) = Slice(a, i.attr, 1)
    BY <1>0, <1>4, <2>2, <2>3, MeaningShapes, Zenon
  <2> QED
    BY <2>8, <2>9
<1>5. CASE i.op = "concatenate"
  <2>1. en.op = "concat" /\ en.data = i.attr
    BY <1>5 DEF ComputesFor, Encodes
  <2>2. margs[1] = args[1] /\ margs[2] = args[2] /\ Len(margs) = 2
    BY <1>5 DEF Agree, Lean
  <2>3. PICK dim : dim = i.attr[1]
    OBVIOUS
  <2>4. Concatenated(margs, dim) = Concat(margs[1], margs[2], dim)
    BY <2>2, ConcatenatedTwo
  <2>8. v = Concat(a, b, dim)
    BY <1>0, <1>5, <2>1, <2>3, ComputesShapes DEF ComputesFor
  <2>9. Meaning(i, regions, margs) = Concat(a, b, dim)
    BY <1>0, <1>5, <2>2, <2>3, <2>4, MeaningShapes, Zenon
  <2> QED
    BY <2>8, <2>9
<1>6. CASE i.op = "reshape"
  <2>1. en.op = "reshape" /\ en.data = i.shape
    BY <1>6 DEF ComputesFor, Encodes
  <2>3. margs[1] = args[1]
    BY <1>6 DEF Agree
  <2>8. v = Reshape(a, i.shape)
    BY <1>0, <1>6, <2>1, ComputesShapes DEF ComputesFor
  <2>9. Meaning(i, regions, margs) = Reshape(a, i.shape)
    BY <1>0, <1>6, <2>3, MeaningShapes, Zenon
  <2> QED
    BY <2>8, <2>9
<1>7. CASE i.op = "convert"
  <2>1. en.op = "convert" /\ en.text = Text[i.dtype] /\ i.dtype \in Dtypes
    BY <1>7 DEF ComputesFor, Encodes, Ready
  <2>2. DtypeOf(Text[i.dtype]) = i.dtype
    BY <2>1, DtypeOfName
  <2>3. margs[1] = args[1]
    BY <1>7 DEF Agree
  <2>8. v = Convert(a, i.dtype)
    BY <1>0, <1>7, <2>1, <2>2, ComputesElements DEF ComputesFor
  <2>9. Meaning(i, regions, margs) = Convert(a, i.dtype)
    BY <1>0, <1>7, <2>3, MeaningElements, Zenon
  <2> QED
    BY <2>8, <2>9
<1> QED
  BY <1>1, <1>2, <1>3, <1>4, <1>5, <1>6, <1>7

LEMMA OperationMeans ==
  ASSUME NEW i, NEW regions, NEW en, NEW args, NEW v, ComputesFor(i, regions, en, args, v),
         NEW x, NEW y, Ready(i, regions, args, x, y), i.op \in Supported, i.op # "parameter",
         NEW margs, Agree(i, args, margs), Lean(i, regions, margs)
  PROVE  Meaning(i, regions, margs) = v
<1>1. CASE i.op \in BinaryOps \cup UnaryOps \cup {"constant", "slice", "concatenate", "reshape", "convert"}
  BY <1>1, PlainMeans
<1>2. CASE i.op \in {"broadcast", "transpose", "reduce", "dot"}
  BY <1>2, BroadcastMeans, TransposeMeans, ReduceMeans, DotMeans
<1> QED
  BY <1>1, <1>2 DEF Supported

-----------------------------------------------------------------------------
(* The bytes of a parameter and of the result.                             *)

ParameterElement(i, m) ==
  Word([k \in 1 .. SizeInBytes(i.dtype) |->
          <<"input", i.sym, (TiledPlace(i, Index(i.shape, m)) - 1) * SizeInBytes(i.dtype) + k - 1>>])

LEMMA ParameterMeaningMakes ==
  ASSUME NEW i, NEW v, v = ParameterMeaning(i)
  PROVE  \E E : /\ MadeOf(v, i.shape, i.dtype, E) /\ IsArray(E, Product(i.shape))
                /\ \A m \in 1 .. Product(i.shape) : E[m] = ParameterElement(i, m)
<1> DEFINE E == [m \in 1 .. Product(i.shape) |-> ParameterElement(i, m)]
<1>1. MadeOf(v, i.shape, i.dtype, E)
  BY DEF MadeOf, ParameterMeaning, Tensor, ParameterElement
<1>2. IsArray(E, Product(i.shape)) /\ \A m \in 1 .. Product(i.shape) : E[m] = ParameterElement(i, m)
  BY DEF IsArray
<1> QED
  BY <1>1, <1>2, Zenon

\* Without tiles the elements are in row-major order.
LEMMA UntiledPlace ==
  ASSUME NEW i, Untiled(i), NEW m \in 1 .. Product(i.shape)
  PROVE  TiledPlace(i, Index(i.shape, m)) = m
<1>1. PICK s : s = i.shape
  OBVIOUS
<1>2. s \in Seq(Pos) /\ m \in 1 .. Product(s)
  BY <1>1 DEF Untiled, IsShapePos
<1>3. Place(s, Index(s, m)) = m
  BY <1>2, PlaceOfIndex
<1> QED
  BY <1>1, <1>3 DEF TiledPlace, Untiled

SameBytes(E, sym, n, m) ==
  [k \in 1 .. n |-> E[(m - 1) * n + k]] = [k \in 1 .. n |-> <<"input", sym, (m - 1) * n + k - 1>>]

OfVar(E, sym, b) == \A at \in 1 .. b : E[at] = <<"input", sym, at - 1>>

LEMMA VarBytes ==
  ASSUME NEW p \in Nat, NEW n \in Pos, NEW E, NEW sym, NEW m \in 1 .. p,
         OfVar(E, sym, p * n)
  PROVE  SameBytes(E, sym, n, m)
<1>1. PICK base : base = (m - 1) * n
  OBVIOUS
<1>2. base \in Int /\ n \in Nat /\ n \in Pos /\ p \in Nat
  BY <1>1 DEF Pos
<1>3. ASSUME NEW k \in 1 .. n PROVE E[base + k] = <<"input", sym, base + k - 1>>
  <2> DEFINE at == (m - 1) * n + k
  <2>1. at \in 1 .. p * n
    BY <1>2, BytePlace
  <2> HIDE DEF at
  <2>3. E[at] = <<"input", sym, at - 1>>
    BY <2>1 DEF OfVar
  <2>4. at = base + k
    BY <1>1 DEF at
  <2> QED
    BY <1>2, <2>3, <2>4
<1> QED
  BY <1>1, <1>3 DEF SameBytes

LEMMA ParameterMeans ==
  ASSUME NEW i, Untiled(i)
  PROVE  ParameterMeaning(i) = ParameterValue(i)
<1>1. PICK b, s, h, flat, sized, n, p :
        /\ b = Bytes(TypeOf(i)) /\ s = i.shape /\ h = i.dtype /\ flat = <<b>>
        /\ sized = WithSize(s, h) /\ n = SizeInBytes(h) /\ p = Product(s)
  BY Zenon
<1>2. b \in Pos /\ b = p * n /\ IsShapePos(s) /\ h \in Dtypes
  BY <1>1, BytesOfType DEF Untiled
<1>3. n \in Pos /\ p \in Nat
  BY <1>1, <1>2, SizeIs, PosShapeFacts
<1>4. PICK v, u, w : v = VarValue(i) /\ u = BytesValue(i) /\ w = ParameterValue(i)
  OBVIOUS
<1>5. IsTensor(v, h) /\ v.shape = flat /\ v.dtype = "U8"
      /\ \A m \in 1 .. b : v.elems[m] = <<"input", i.sym, m - 1>>
  <2>1. v = InputBytes(<<b>>, i.sym)
    BY <1>1, <1>4 DEF VarValue
  <2> QED
    BY <1>1, <1>2, <2>1, VarMakes
<1>6. IsShapePos(sized) /\ Product(sized) = b
  BY <1>1, <1>2, WithSizeIs
<1>7. Product(flat) = b
  BY <1>1, <1>2, FlatShape
<1>8. u = Reshape(v, sized) /\ w = Bitcast(u, h)
  BY <1>1, <1>4 DEF BytesValue, ParameterValue
<1>9. IsTensor(u, h) /\ u.shape = sized /\ u.dtype = "U8" /\ u.elems = v.elems
  BY <1>5, <1>6, <1>7, <1>8, ReshapeFits
<1>10. IsTensor(w, h) /\ w.shape = s /\ w.dtype = h
       /\ \A m \in 1 .. p : w.elems[m] = WordPart(u, n, m)
  BY <1>1, <1>2, <1>8, <1>9, WordsAre
<1>11. PICK x : x = ParameterMeaning(i)
  OBVIOUS
<1>12. PICK E : /\ MadeOf(x, s, h, E) /\ IsArray(E, p)
                /\ \A m \in 1 .. p : E[m] = ParameterElement(i, m)
  BY <1>1, <1>11, ParameterMeaningMakes
<1>13. ASSUME NEW m \in 1 .. p PROVE E[m] = w.elems[m]
  <2>1. TiledPlace(i, Index(s, m)) = m
    BY <1>1, UntiledPlace
  <2>2. E[m] = Word([k \in 1 .. n |-> <<"input", i.sym, (m - 1) * n + k - 1>>])
    <3>1. E[m] = ParameterElement(i, m)
      BY <1>12
    <3>2. ParameterElement(i, m) =
            Word([k \in 1 .. n |-> <<"input", i.sym, (TiledPlace(i, Index(s, m)) - 1) * n + k - 1>>])
      BY <1>1 DEF ParameterElement
    <3> QED
      BY <2>1, <3>1, <3>2
  <2>3. w.elems[m] = Word([k \in 1 .. n |-> u.elems[(m - 1) * n + k]])
    BY <1>10 DEF WordPart
  <2>4. \A at \in 1 .. p * n : u.elems[at] = <<"input", i.sym, at - 1>>
    BY <1>2, <1>5, <1>9
  <2>5. PICK E1, name : E1 = u.elems /\ name = i.sym
    OBVIOUS
  <2>6. OfVar(E1, name, p * n)
    BY <2>4, <2>5 DEF OfVar
  <2>7. SameBytes(E1, name, n, m)
    BY <1>3, <2>6, VarBytes
  <2> QED
    BY <2>2, <2>3, <2>5, <2>7, Zenon DEF SameBytes
<1>14. E = w.elems
  <2>1. w.elems = [m \in 1 .. p |-> w.elems[m]]
    BY <1>1, <1>10 DEF IsTensor
  <2> QED
    BY <1>12, <1>13, <2>1 DEF IsArray
<1>15. Tuple(s) = s /\ Tuple(E) = E
  BY <1>2, <1>3, <1>12, PosShapeFacts, TupleIs DEF IsArray
<1>16. w = [shape |-> w.shape, dtype |-> w.dtype, elems |-> w.elems]
  BY <1>10 DEF IsTensor
<1>17. x = [shape |-> s, dtype |-> h, elems |-> E]
  BY <1>12, <1>15 DEF MadeOf
<1> QED
  BY <1>4, <1>10, <1>11, <1>14, <1>16, <1>17

\* The result's bytes as the module means them.
ResultAt(last, result, m) ==
  CHOOSE e \in DOMAIN result.elems :
    TiledPlace(last, Index(last.shape, e)) = 1 + (m - 1) \div SizeInBytes(last.dtype)

ResultByte(last, result, m) ==
  BytesOf(result.elems[ResultAt(last, result, m)], SizeInBytes(last.dtype))[1 + ((m - 1) % SizeInBytes(last.dtype))]

ResultBytes(last, result) ==
  [shape |-> <<Bytes(TypeOf(last))>>, dtype |-> "U8",
   elems |-> Tuple([m \in 1 .. Bytes(TypeOf(last)) |-> ResultByte(last, result, m)])]

LEMMA ModuleMeansBytes ==
  ASSUME NEW mod
  PROVE  ModuleMeaning(mod) =
           ResultBytes(mod.code[Len(mod.code)], Meanings(mod.code, mod.regions)[Len(mod.code)])
BY DEF ModuleMeaning, ResultBytes, ResultByte, ResultAt

LEMMA RootMeans ==
  ASSUME NEW i, Untiled(i), NEW v, IsOf(v, TypeOf(i)), NEW w, w = RootValue(i, v)
  PROVE  w = ResultBytes(i, v)
<1>1. PICK b, s, h, flat, sized, n, p :
        /\ b = Bytes(TypeOf(i)) /\ s = i.shape /\ h = i.dtype /\ flat = <<b>>
        /\ sized = WithSize(s, h) /\ n = SizeInBytes(h) /\ p = Product(s)
  BY Zenon
<1>2. b \in Pos /\ b = p * n /\ IsShapePos(s) /\ h \in Dtypes
  BY <1>1, BytesOfType DEF Untiled
<1>3. n \in Pos /\ p \in Nat /\ b \in Nat
  BY <1>1, <1>2, SizeIs, PosShapeFacts DEF Pos
<1>4. IsTensor(v, h) /\ v.shape = s /\ v.dtype = h
  BY <1>1, TypeFields DEF IsOf
<1>5. PICK u : u = Bitcast(v, "U8")
  OBVIOUS
<1>6. IsTensor(u, h) /\ u.shape = sized /\ u.dtype = "U8"
      /\ \A m \in 1 .. p : \A k \in 1 .. n : u.elems[(m - 1) * n + k] = BytesOf(v.elems[m], n)[k]
  BY <1>1, <1>4, <1>5, BytesAre
<1>7. IsShapePos(sized) /\ Product(sized) = b /\ IsShapePos(flat) /\ Product(flat) = b
  BY <1>1, <1>2, WithSizeIs, FlatShape
<1>8. w = Reshape(u, flat)
  BY <1>1, <1>5 DEF RootValue
<1>9. IsTensor(w, h) /\ w.shape = flat /\ w.dtype = "U8" /\ w.elems = u.elems
  BY <1>6, <1>7, <1>8, ReshapeFits
<1>10. DOMAIN v.elems = 1 .. p
  BY <1>1, <1>4, TensorFacts
<1>11. ASSUME NEW m \in 1 .. b PROVE ResultByte(i, v, m) = w.elems[m]
  <2>1. PICK q, r : q = 1 + (m - 1) \div n /\ r = 1 + ((m - 1) % n)
    OBVIOUS
  <2>2. q \in 1 .. p /\ r \in 1 .. n
    BY <1>2, <1>3, <2>1, PlaceOfByte
  <2>3. ResultAt(i, v, m) = q
    <3>1. \A e \in 1 .. p : TiledPlace(i, Index(s, e)) = e
      BY <1>1, UntiledPlace
    <3>2. ResultAt(i, v, m) = CHOOSE e \in 1 .. p : TiledPlace(i, Index(s, e)) = q
      BY <1>1, <1>10, <2>1 DEF ResultAt
    <3> QED
      BY <2>2, <3>1, <3>2
  <2>4. ResultByte(i, v, m) = BytesOf(v.elems[q], n)[r]
    BY <1>1, <2>1, <2>3 DEF ResultByte
  <2>5. (q - 1) * n + r = m
    <3>1. m - 1 \in Nat
      BY <1>3
    <3>2. PICK a, c : a = (m - 1) \div n /\ c = (m - 1) % n
      OBVIOUS
    <3>3. a \in Nat /\ c \in Nat /\ m - 1 = n * a + c
      BY <1>3, <3>1, <3>2, DivFacts
    <3>4. q - 1 = a /\ r = c + 1
      BY <2>1, <3>2, <3>3
    <3>5. a * n = n * a
      BY <1>3, <3>3 DEF Pos
    <3> QED
      BY <1>3, <3>3, <3>4, <3>5 DEF Pos
  <2>6. w.elems[m] = BytesOf(v.elems[q], n)[r]
    BY <1>6, <1>9, <2>2, <2>5
  <2> QED
    BY <2>4, <2>6
<1>12. PICK E : E = [m \in 1 .. b |-> ResultByte(i, v, m)]
  BY Zenon
<1>13. E = w.elems
  <2>1. w.elems = [m \in 1 .. b |-> w.elems[m]]
    BY <1>7, <1>9 DEF IsTensor
  <2> QED
    BY <1>11, <1>12, <2>1
<1>14. Tuple(E) = E
  <2>1. E = [m \in 1 .. b |-> E[m]]
    BY <1>12
  <2> QED
    BY <1>3, <2>1, TupleIs
<1>15. ResultBytes(i, v) = [shape |-> flat, dtype |-> "U8", elems |-> E]
  BY <1>1, <1>12, <1>14, Zenon DEF ResultBytes
<1>16. w = [shape |-> w.shape, dtype |-> w.dtype, elems |-> w.elems]
  BY <1>9 DEF IsTensor
<1> QED
  BY <1>9, <1>13, <1>15, <1>16

-----------------------------------------------------------------------------
(* Values for the classes of an e-graph.                                   *)

Of(f, en) == [k \in DOMAIN en.kids |-> f[en.kids[k]]]

NodeLaw(ct, val, home, n) ==
  Law(ct, n.en, Of(val, n.en), Of(home, n.en), val[n.cls], home[n.cls])

ClassValue(g, val, home, id) ==
  /\ val[id] = val[Find(g, id)] /\ home[id] = home[Find(g, id)]
  /\ IsTensor(val[id], home[id])

\* Each class has a tensor, with a home, that each of its e-nodes computes.
Lawful(ct, g, val, home) ==
  /\ IsTuple(val, Len(g.uf)) /\ IsTuple(home, Len(g.uf))
  /\ \A id \in Ids(g) : ClassValue(g, val, home, id)
  /\ \A n \in g.nodes : NodeLaw(ct, val, home, n)

TrueAt(g, val, c) == g.info[c] = Info(val[c].shape, val[c].dtype)

TrueInfos(g, val) == \A c \in Classes(g) : TrueAt(g, val, c)

\* What was there has the value it had.
Extends(new, old, n) == \A id \in 1 .. n : new[id] = old[id]

LEMMA ExtendsReflexive == \A v, n : Extends(v, v, n)
BY DEF Extends

LEMMA ExtendsTransitive ==
  ASSUME NEW n \in Nat, NEW m \in Nat, n <= m, NEW u, NEW v, NEW w, Extends(v, u, n), Extends(w, v, m)
  PROVE  Extends(w, u, n)
BY DEF Extends

LEMMA AppendedTuple ==
  ASSUME NEW n \in Nat, NEW v, IsTuple(v, n), NEW x, NEW w, w = Append(v, x)
  PROVE  IsTuple(w, n + 1) /\ w[n + 1] = x /\ Extends(w, v, n)
<1>1. PICK S : v \in Seq(S)
  BY Zenon DEF IsTuple
<1>2. PICK T : T = S \cup {x}
  BY Zenon
<1>3. v \in Seq(T) /\ x \in T /\ Len(v) = n
  BY <1>1, <1>2 DEF IsTuple
<1>4. /\ Append(v, x) \in Seq(T) /\ Len(Append(v, x)) = n + 1
      /\ Append(v, x)[n + 1] = x /\ \A k \in 1 .. n : Append(v, x)[k] = v[k]
  BY <1>3, AppendFacts
<1> QED
  BY <1>4, Zenon DEF IsTuple, Extends

LEMMA OfExtended ==
  ASSUME NEW n, NEW v, NEW w, Extends(w, v, n), NEW en, \A k \in DOMAIN en.kids : en.kids[k] \in 1 .. n
  PROVE  Of(w, en) = Of(v, en)
BY DEF Of, Extends

LEMMA SoundIds ==
  ASSUME NEW g, NEW kind, Sound(g, kind)
  PROVE  /\ Len(g.uf) \in Nat /\ Ids(g) = 1 .. Len(g.uf) /\ Classes(g) \subseteq 1 .. Len(g.uf)
         /\ \A c \in Classes(g) : Find(g, c) = c
         /\ \A id \in Ids(g) : Find(g, id) \in Classes(g)
         /\ \A n \in g.nodes :
              /\ n.cls \in Classes(g) /\ n.en \in ENodes /\ HasParts(n.en)
              /\ \A k \in DOMAIN n.en.kids : n.en.kids[k] \in Classes(g)
<1>1. g \in EGraphs
  BY DEF Sound, IsEGraph
<1>2. Ids(g) = 1 .. Len(g.uf) /\ Len(g.uf) \in Nat /\ g.nodes \in SUBSET ClassNodes
  BY <1>1, EGraphFacts
<1>3. Classes(g) \subseteq 1 .. Len(g.uf) /\ \A c \in Classes(g) : Find(g, c) = c
  BY <1>2 DEF Classes, Find
<1>4. \A n \in g.nodes : n.en \in ENodes
  BY <1>2, ClassNodeFacts
<1> QED
  BY <1>2, <1>3, <1>4 DEF Sound, IsEGraph

\* f has a class more than g, of the tensor v.
GrownBy(ct, g, f, val, home, val2, home2, v, h) ==
  /\ Lawful(ct, f, val2, home2)
  /\ Extends(val2, val, Len(g.uf)) /\ Extends(home2, home, Len(g.uf))
  /\ val2[Len(g.uf) + 1] = v /\ home2[Len(g.uf) + 1] = h

\* A new class with the tensor that its e-node makes.
LEMMA NewClassIsLawful ==
  ASSUME NEW g, NEW kind, Sound(g, kind), NEW ct, NEW val, NEW home, Lawful(ct, g, val, home),
         NEW en, \A k \in DOMAIN en.kids : en.kids[k] \in Classes(g),
         NEW v, NEW h, IsTensor(v, h), Law(ct, en, Of(val, en), Of(home, en), v, h),
         NEW val2, val2 = Append(val, v), NEW home2, home2 = Append(home, h)
  PROVE  GrownBy(ct, g, NewClass(g, en), val, home, val2, home2, v, h)
<1> DEFINE top == Len(g.uf)
           id0 == top + 1
           new == [cls |-> id0, en |-> en]
           f == NewClass(g, en)
<1>1. /\ top \in Nat /\ Ids(g) = 1 .. top /\ Classes(g) \subseteq 1 .. top
      /\ \A id \in Ids(g) : Find(g, id) \in Classes(g)
      /\ \A n \in g.nodes : n.cls \in Classes(g) /\ \A k \in DOMAIN n.en.kids : n.en.kids[k] \in Classes(g)
  BY SoundIds
<1>2. /\ IsTuple(val2, id0) /\ val2[id0] = v /\ Extends(val2, val, top)
      /\ IsTuple(home2, id0) /\ home2[id0] = h /\ Extends(home2, home, top)
  BY <1>1, AppendedTuple, Zenon DEF Lawful
<1>3. f.nodes = g.nodes \cup {new} /\ f.uf = Append(g.uf, id0) /\ g.uf \in Seq(Nat)
  BY EGraphFacts DEF NewClass, Sound, IsEGraph
<1>4. new.cls = id0 /\ new.en = en
  OBVIOUS
<1> HIDE DEF new, f, id0
<1>5. /\ f.uf \in Seq(Nat) /\ Len(f.uf) = id0 /\ f.uf[id0] = id0
      /\ \A id \in 1 .. top : f.uf[id] = g.uf[id]
  BY <1>1, <1>3, AppendFacts DEF id0
<1>6. /\ Ids(f) = 1 .. id0 /\ Find(f, id0) = id0
      /\ \A id \in Ids(g) : Find(f, id) = Find(g, id)
      /\ \A id \in Ids(f) : id = id0 \/ id \in Ids(g)
  <2>1. Ids(f) = 1 .. id0
    BY <1>5 DEF Ids
  <2>2. \A id \in Ids(f) : id = id0 \/ id \in Ids(g)
    BY <1>1, <2>1 DEF id0
  <2>3. Find(f, id0) = id0 /\ \A id \in Ids(g) : Find(f, id) = Find(g, id)
    BY <1>1, <1>5, Zenon DEF Find
  <2> QED
    BY <2>1, <2>2, <2>3
<1>7. ASSUME NEW id \in Ids(f) PROVE ClassValue(f, val2, home2, id)
  <2>1. CASE id = id0
    BY <1>2, <1>6, <2>1, Zenon DEF ClassValue
  <2>2. CASE id \in Ids(g)
    <3>1. id \in 1 .. top /\ Find(g, id) \in 1 .. top /\ Find(f, id) = Find(g, id)
      BY <1>1, <1>6, <2>2
    <3>2. ClassValue(g, val, home, id)
      BY <2>2 DEF Lawful
    <3> QED
      BY <1>2, <3>1, <3>2, Zenon DEF ClassValue, Extends
  <2> QED
    BY <1>6, <2>1, <2>2
<1>8. ASSUME NEW n \in f.nodes PROVE NodeLaw(ct, val2, home2, n)
  <2>1. CASE n = new
    <3>1. \A k \in DOMAIN en.kids : en.kids[k] \in 1 .. top
      BY <1>1
    <3>2. Of(val2, en) = Of(val, en) /\ Of(home2, en) = Of(home, en)
      BY <1>2, <3>1, OfExtended
    <3> QED
      BY <1>2, <1>4, <2>1, <3>2, Zenon DEF NodeLaw
  <2>2. CASE n \in g.nodes
    <3>1. n.cls \in 1 .. top /\ \A k \in DOMAIN n.en.kids : n.en.kids[k] \in 1 .. top
      BY <1>1, <2>2, Zenon
    <3>2. Of(val2, n.en) = Of(val, n.en) /\ Of(home2, n.en) = Of(home, n.en)
      BY <1>2, <3>1, OfExtended
    <3>3. val2[n.cls] = val[n.cls] /\ home2[n.cls] = home[n.cls]
      BY <1>2, <3>1, Zenon DEF Extends
    <3>4. NodeLaw(ct, val, home, n)
      BY <2>2 DEF Lawful
    <3> QED
      BY <3>2, <3>3, <3>4 DEF NodeLaw
  <2> QED
    BY <1>3, <2>1, <2>2
<1>9. Lawful(ct, f, val2, home2)
  BY <1>2, <1>5, <1>7, <1>8 DEF Lawful
<1> QED
  BY <1>2, <1>9 DEF GrownBy, f, id0

\* f is g with the class id0 for the node new.
IsNewClass(g, f, top, id0, new) ==
  /\ f.nodes = g.nodes \cup {new}
  /\ Ids(f) = 1 .. id0 /\ Len(f.uf) = id0 /\ Find(f, id0) = id0
  /\ \A id \in 1 .. top : Find(f, id) = Find(g, id) /\ f.info[id] = g.info[id]
  /\ \A id \in Ids(f) : id = id0 \/ id \in 1 .. top
  /\ id0 \in Classes(f)
  /\ \A c \in Classes(g) : c \in Classes(f)
  /\ \A c \in Classes(f) : c \in Classes(g) \/ c = id0

LEMMA NewClassFacts ==
  ASSUME NEW g, NEW kind, Sound(g, kind), NEW en, NEW f, f = NewClass(g, en),
         NEW top, top = Len(g.uf), NEW id0, id0 = top + 1, NEW new, new = [cls |-> id0, en |-> en]
  PROVE  IsNewClass(g, f, top, id0, new)
<1>1. /\ top \in Nat /\ Ids(g) = 1 .. top /\ Classes(g) \subseteq 1 .. top
      /\ g.uf \in Seq(Nat) /\ g.info \in Seq(Infos) /\ Len(g.info) = top
  BY SoundIds, EGraphFacts DEF Sound, IsEGraph
<1>2. f.nodes = g.nodes \cup {new} /\ f.uf = Append(g.uf, id0)
      /\ f.info = Append(g.info, Default)
  BY DEF NewClass
<1>3. /\ Len(f.uf) = id0 /\ f.uf[id0] = id0 /\ f.uf \in Seq(Nat)
      /\ \A id \in 1 .. top : f.uf[id] = g.uf[id]
  BY <1>1, <1>2, AppendFacts
<1>4. \A id \in 1 .. top : f.info[id] = g.info[id]
  BY <1>1, <1>2, AppendFacts, DefaultIsInfo
<1>5. Ids(f) = 1 .. id0
  BY <1>3 DEF Ids
<1>6. \A id \in Ids(f) : id = id0 \/ id \in 1 .. top
  BY <1>1, <1>5
<1>7. Find(f, id0) = id0 /\ \A id \in 1 .. top : Find(f, id) = Find(g, id)
  BY <1>3 DEF Find
<1>8. id0 \in Ids(f) /\ \A id \in 1 .. top : id \in Ids(f)
  BY <1>1, <1>5
<1>9. id0 \in Classes(f) /\ \A c \in Classes(g) : c \in Classes(f)
  BY <1>1, <1>3, <1>8, Zenon DEF Classes
<1>10. \A c \in Classes(f) : c \in Classes(g) \/ c = id0
  BY <1>1, <1>3, <1>6, Zenon DEF Classes
<1> QED
  BY <1>2, <1>3, <1>4, <1>5, <1>6, <1>7, <1>9, <1>10, Zenon DEF IsNewClass

\* The number is the first of its class.
IsEldest(g, id) == \A j \in 1 .. id - 1 : Find(g, j) # Find(g, id)

\* A class of the e-nodes of which none has a kid that is younger.
IsGrounded(g, id) ==
  /\ \E m \in g.nodes : m.cls = Find(g, id)
  /\ \A m \in g.nodes : m.cls = Find(g, id) =>
       \A k \in DOMAIN m.en.kids : \E j \in 1 .. id - 1 : Find(g, j) = m.en.kids[k]

\* The classes made since there were n of them can be computed in their order.
Fresh(g, n) == \A id \in Ids(g) : id > n /\ IsEldest(g, id) => IsGrounded(g, id)

LEMMA NewClassIsFresh ==
  ASSUME NEW g, NEW kind, Sound(g, kind), NEW en, \A k \in DOMAIN en.kids : en.kids[k] \in Classes(g),
         NEW n, Fresh(g, n)
  PROVE  Fresh(NewClass(g, en), n)
<1>0. PICK f : f = NewClass(g, en)
  OBVIOUS
<1>1. PICK top : top = Len(g.uf)
  BY Zenon
<1>2. PICK id0 : id0 = top + 1
  OBVIOUS
<1>3. PICK new : new = [cls |-> id0, en |-> en]
  BY Zenon
<1>4. /\ top \in Nat /\ Ids(g) = 1 .. top /\ Classes(g) \subseteq 1 .. top
      /\ \A c \in Classes(g) : Find(g, c) = c
      /\ \A id \in Ids(g) : Find(g, id) \in Classes(g)
      /\ \A m \in g.nodes : m.cls \in Classes(g)
  BY <1>1, SoundIds
<1>5. /\ f.nodes = g.nodes \cup {new} /\ Ids(f) = 1 .. id0 /\ Find(f, id0) = id0
      /\ \A id \in 1 .. top : Find(f, id) = Find(g, id)
      /\ \A id \in Ids(f) : id = id0 \/ id \in 1 .. top
  <2>1. IsNewClass(g, f, top, id0, new)
    BY <1>0, <1>1, <1>2, <1>3, NewClassFacts
  <2> QED
    BY <2>1 DEF IsNewClass
<1>6. new.cls = id0 /\ new.en = en
  BY <1>3
<1>7. ASSUME NEW id \in Ids(f), id > n, IsEldest(f, id) PROVE IsGrounded(f, id)
  <2>1. CASE id = id0
    <3>1. \A m \in g.nodes : m.cls # id0
      BY <1>2, <1>4
    <3>2. \A m \in f.nodes : m.cls = Find(f, id) => m = new
      BY <1>5, <2>1, <3>1
    <3>3. \A k \in DOMAIN en.kids : en.kids[k] \in 1 .. id - 1 /\ Find(f, en.kids[k]) = en.kids[k]
      BY <1>2, <1>4, <1>5, <2>1
    <3>4. new \in f.nodes /\ new.cls = Find(f, id)
      BY <1>5, <1>6, <2>1
    <3> QED
      BY <1>6, <3>2, <3>3, <3>4 DEF IsGrounded
  <2>2. CASE id \in 1 .. top
    <3>1. /\ id \in Ids(g) /\ Find(f, id) = Find(g, id) /\ Find(g, id) # id0
          /\ \A j \in 1 .. id - 1 : Find(f, j) = Find(g, j)
      BY <1>2, <1>4, <1>5, <2>2
    <3>2. IsEldest(g, id)
      BY <1>7, <3>1 DEF IsEldest
    <3>3. IsGrounded(g, id)
      BY <1>7, <3>1, <3>2 DEF Fresh
    <3>4. \A m \in f.nodes : m.cls = Find(f, id) => m \in g.nodes
      BY <1>5, <1>6, <3>1
    <3>5. g.nodes \subseteq f.nodes
      BY <1>5
    <3> QED
      BY <3>1, <3>3, <3>4, <3>5 DEF IsGrounded
  <2> QED
    BY <1>5, <1>7, <2>1, <2>2
<1>8. Fresh(f, n)
  BY <1>7 DEF Fresh
<1> QED
  BY <1>0, <1>8

\* f is g with a class for the tensor v, where its other classes stay.
Holds(ct, g, val, home, f, val2, home2, id, v, h) ==
  /\ Lawful(ct, f, val2, home2) /\ Len(g.uf) <= Len(f.uf)
  /\ Extends(val2, val, Len(g.uf)) /\ Extends(home2, home, Len(g.uf))
  /\ id \in Classes(f) /\ val2[id] = v /\ home2[id] = h

Stays(g, f, id) ==
  /\ \A c \in Classes(g) : c \in Classes(f) /\ f.info[c] = g.info[c]
  /\ \A c \in Classes(f) : c \in Classes(g) \/ c = id

LEMMA CanonicalParts ==
  ASSUME NEW g, NEW en \in ENodes, NEW c, c = Canonical(g, en)
  PROVE  /\ c.op = en.op /\ c.text = en.text /\ c.data = en.data /\ DOMAIN c.kids = DOMAIN en.kids
         /\ \A k \in DOMAIN en.kids : c.kids[k] = Find(g, en.kids[k])
BY DEF Canonical, ENodes

LEMMA AddCases ==
  ASSUME NEW g, NEW en, NEW c, c = Canonical(g, en), NEW f, f = Add(g, en)
  PROVE  \/ \E n \in g.nodes : n.en = c /\ f.eg = g /\ f.id = n.cls
         \/ /\ \A n \in g.nodes : n.en # c
            /\ f.eg = NewClass(g, c) /\ f.id = Len(g.uf) + 1
<1> DEFINE found == {n \in g.nodes : n.en = c}
<1>1. f = IF found # {} THEN [eg |-> g, id |-> (CHOOSE n \in found : TRUE).cls]
          ELSE [eg |-> NewClass(g, c), id |-> Len(g.uf) + 1]
  BY DEF Add, Canonical, NewClass
<1>2. CASE found # {}
  <2>1. PICK n : n = CHOOSE e \in found : TRUE
    OBVIOUS
  <2>2. n \in found
    BY <1>2, <2>1
  <2>3. n \in g.nodes /\ n.en = c
    BY <2>2
  <2>4. f.eg = g /\ f.id = n.cls
    BY <1>1, <1>2, <2>1
  <2> QED
    BY <2>3, <2>4
<1>3. CASE found = {}
  BY <1>1, <1>3
<1> QED
  BY <1>2, <1>3

\* An e-node that may be added for the tensor v.
NodeFor(ct, g, val, home, en, v, h) ==
  /\ en \in ENodes /\ HasParts(en) /\ \A k \in DOMAIN en.kids : en.kids[k] \in Ids(g)
  /\ IsTensor(v, h) /\ Law(ct, en, Of(val, en), Of(home, en), v, h)
  /\ en.op = "var" => \A n \in g.nodes : n.en.op = "var" => n.en.text # en.text

\* What the kids are called now makes no difference.
LEMMA CanonicalLaw ==
  ASSUME NEW g, NEW kind, Sound(g, kind), NEW ct, NEW val, NEW home, Lawful(ct, g, val, home),
         NEW en, NEW v, NEW h, NodeFor(ct, g, val, home, en, v, h), NEW c, c = Canonical(g, en)
  PROVE  Law(ct, c, Of(val, c), Of(home, c), v, h) /\ \A k \in DOMAIN c.kids : c.kids[k] \in Classes(g)
<1>1. /\ c.op = en.op /\ c.text = en.text /\ c.data = en.data /\ DOMAIN c.kids = DOMAIN en.kids
      /\ \A k \in DOMAIN en.kids : c.kids[k] = Find(g, en.kids[k])
  BY CanonicalParts DEF NodeFor
<1>2. \A k \in DOMAIN en.kids : ClassValue(g, val, home, en.kids[k])
  BY DEF Lawful, NodeFor
<1>3. \A k \in DOMAIN en.kids : val[c.kids[k]] = val[en.kids[k]] /\ home[c.kids[k]] = home[en.kids[k]]
  BY <1>1, <1>2 DEF ClassValue
<1>4. Of(val, c) = Of(val, en) /\ Of(home, c) = Of(home, en)
  BY <1>1, <1>3 DEF Of
<1>5. c.op \in TensorOps /\ Law(ct, en, Of(val, en), Of(home, en), v, h)
  BY <1>1 DEF NodeFor, ENodes
<1>6. Law(ct, c, Of(val, en), Of(home, en), v, h)
  BY <1>1, <1>5, LawOfSameOperation
<1>7. \A k \in DOMAIN c.kids : c.kids[k] \in Classes(g)
  BY <1>1, SoundIds DEF NodeFor
<1> QED
  BY <1>4, <1>6, <1>7

LEMMA FoundIsLawful ==
  ASSUME NEW g, NEW kind, Sound(g, kind), NEW ct, NEW val, NEW home, Lawful(ct, g, val, home),
         NEW en, NEW v, NEW h, NodeFor(ct, g, val, home, en, v, h),
         NEW n \in g.nodes, n.en = Canonical(g, en)
  PROVE  n.cls \in Classes(g) /\ val[n.cls] = v /\ home[n.cls] = h
<1>1. PICK c : c = Canonical(g, en)
  OBVIOUS
<1>2. Law(ct, c, Of(val, c), Of(home, c), v, h)
  BY <1>1, CanonicalLaw
<1>3. c.op = en.op /\ c.text = en.text
  BY <1>1, CanonicalParts DEF NodeFor
<1>4. en.op # "var" /\ en.op \in TensorOps
  BY <1>1, <1>3 DEF NodeFor, ENodes
<1>5. Law(ct, c, Of(val, c), Of(home, c), val[n.cls], home[n.cls])
  BY <1>1 DEF Lawful, NodeLaw
<1>6. c.op \in TensorOps \ {"var"}
  BY <1>3, <1>4
<1>7. val[n.cls] = v /\ home[n.cls] = h
  BY <1>2, <1>5, <1>6, LawDetermines
<1> QED
  BY <1>7, SoundIds

\* Whether the e-node is known or not, its class holds what it computes.
LEMMA AddIsLawful ==
  ASSUME NEW g, NEW kind, Sound(g, kind), NEW ct, NEW val, NEW home, Lawful(ct, g, val, home),
         NEW en, NEW v, NEW h, NodeFor(ct, g, val, home, en, v, h),
         NEW f, f = Add(g, en), NEW n0, Fresh(g, n0)
  PROVE  /\ \E val2, home2 : Holds(ct, g, val, home, f.eg, val2, home2, f.id, v, h)
         /\ Stays(g, f.eg, f.id) /\ Fresh(f.eg, n0)
<1>1. PICK c : c = Canonical(g, en)
  OBVIOUS
<1>2. Law(ct, c, Of(val, c), Of(home, c), v, h) /\ \A k \in DOMAIN c.kids : c.kids[k] \in Classes(g)
  BY <1>1, CanonicalLaw
<1>3. IsTensor(v, h)
  BY DEF NodeFor
<1>4. CASE \E n \in g.nodes : n.en = c /\ f.eg = g /\ f.id = n.cls
  <2>1. PICK n \in g.nodes : n.en = c /\ f.eg = g /\ f.id = n.cls
    BY <1>4
  <2>2. n.cls \in Classes(g) /\ val[n.cls] = v /\ home[n.cls] = h
    BY <1>1, <2>1, FoundIsLawful
  <2>3. Len(g.uf) \in Nat
    BY SoundIds
  <2>4. Holds(ct, g, val, home, g, val, home, n.cls, v, h)
    BY <2>2, <2>3, ExtendsReflexive DEF Holds
  <2>5. Stays(g, g, n.cls)
    BY DEF Stays
  <2> QED
    BY <2>1, <2>4, <2>5
<1>5. CASE f.eg = NewClass(g, c) /\ f.id = Len(g.uf) + 1
  <2>1. PICK h0 : h0 = NewClass(g, c)
    OBVIOUS
  <2>2. PICK val2, home2 : val2 = Append(val, v) /\ home2 = Append(home, h)
    BY Zenon
  <2>3. /\ Lawful(ct, h0, val2, home2)
        /\ Extends(val2, val, Len(g.uf)) /\ Extends(home2, home, Len(g.uf))
        /\ val2[Len(g.uf) + 1] = v /\ home2[Len(g.uf) + 1] = h
    <3>1. GrownBy(ct, g, NewClass(g, c), val, home, val2, home2, v, h)
      BY <1>2, <1>3, <2>2, NewClassIsLawful, Zenon
    <3> QED
      BY <2>1, <3>1 DEF GrownBy
  <2>4. PICK new : IsNewClass(g, h0, Len(g.uf), Len(g.uf) + 1, new)
    BY <2>1, NewClassFacts, Zenon
  <2>5. Len(g.uf) \in Nat /\ Classes(g) \subseteq 1 .. Len(g.uf)
    BY SoundIds
  <2>6. Len(g.uf) <= Len(h0.uf) /\ Len(g.uf) + 1 \in Classes(h0)
    BY <2>4, <2>5 DEF IsNewClass
  <2>7. Holds(ct, g, val, home, h0, val2, home2, Len(g.uf) + 1, v, h)
    BY <2>3, <2>6 DEF Holds
  <2>8. Stays(g, h0, Len(g.uf) + 1)
    BY <2>4, <2>5 DEF IsNewClass, Stays
  <2>9. Fresh(h0, n0)
    BY <1>2, <2>1, NewClassIsFresh
  <2> QED
    BY <1>5, <2>1, <2>7, <2>8, <2>9
<1> QED
  BY <1>1, <1>4, <1>5, AddCases

-----------------------------------------------------------------------------
(* TensorInfo has no part in this.                                         *)

LEMMA RetypedIsLawful ==
  ASSUME NEW ct, NEW g, NEW val, NEW home, Lawful(ct, g, val, home),
         NEW h, h.uf = g.uf, h.nodes = g.nodes
  PROVE  Lawful(ct, h, val, home) /\ \A n : Fresh(g, n) => Fresh(h, n)
<1>1. Ids(h) = Ids(g) /\ \A id : Find(h, id) = Find(g, id)
  BY DEF Ids, Find
<1>2. \A id : ClassValue(h, val, home, id) <=> ClassValue(g, val, home, id)
  BY <1>1 DEF ClassValue
<1>3. \A id : /\ IsEldest(h, id) <=> IsEldest(g, id)
              /\ IsGrounded(h, id) <=> IsGrounded(g, id)
  BY <1>1 DEF IsEldest, IsGrounded
<1>4. \A n : Fresh(g, n) => Fresh(h, n)
  BY <1>1, <1>3 DEF Fresh
<1> QED
  BY <1>1, <1>2, <1>4 DEF Lawful

-----------------------------------------------------------------------------
(* union.                                                                  *)

\* The number of a class after kept has taken in gone.
Now(kept, gone, id) == IF id = gone THEN kept ELSE id

IsImage(kept, gone, n, m) ==
  /\ m.cls = Now(kept, gone, n.cls)
  /\ m.en.op = n.en.op /\ m.en.text = n.en.text /\ m.en.data = n.en.data
  /\ DOMAIN m.en.kids = DOMAIN n.en.kids
  /\ \A k \in DOMAIN n.en.kids : m.en.kids[k] = Now(kept, gone, n.en.kids[k])

\* h is g with its classes kept and gone in one.
IsJoined(g, h, kept, gone) ==
  /\ kept \in Classes(g) /\ gone \in Classes(g) /\ kept # gone
  /\ Ids(h) = Ids(g) /\ Len(h.uf) = Len(g.uf) /\ h.info = g.info
  /\ \A id \in Ids(g) : Find(h, id) = Now(kept, gone, Find(g, id))
  /\ \A m \in h.nodes : \E n \in g.nodes : IsImage(kept, gone, n, m)
  /\ \A n \in g.nodes : \E m \in h.nodes : IsImage(kept, gone, n, m)

LEMMA UnionJoins ==
  ASSUME NEW g, NEW kind, Sound(g, kind), NEW a \in Ids(g), NEW b \in Ids(g),
         NEW h, h = Union(g, a, b)
  PROVE  \/ h = g /\ Find(g, a) = Find(g, b)
         \/ IsJoined(g, h, Find(g, a), Find(g, b))
         \/ IsJoined(g, h, Find(g, b), Find(g, a))
<1>1. CASE Find(g, a) = Find(g, b)
  BY <1>1 DEF Union
<1>2. CASE Find(g, a) # Find(g, b)
  <2> DEFINE x == Find(g, a)
             y == Find(g, b)
             kept == IF Parents(g, x) < Parents(g, y) THEN y ELSE x
             gone == IF kept = x THEN y ELSE x
             now(id) == IF id = gone THEN kept ELSE id
             image(n) == [cls |-> now(n.cls),
                          en |-> [n.en EXCEPT !.kids = KidsRenamed(@, gone, kept)]]
  <2>1. h = [nodes |-> {image(n) : n \in g.nodes},
             uf |-> [id \in Ids(g) |-> now(g.uf[id])], info |-> g.info]
    BY <1>2 DEF Union
  <2>2. /\ x \in Classes(g) /\ y \in Classes(g) /\ x # y
    BY <1>2 DEF Sound, IsEGraph
  <2>3. \/ kept = x /\ gone = y
        \/ kept = y /\ gone = x
    BY <2>2
  <2> HIDE DEF kept, gone, x, y
  <2>4. \A id : now(id) = Now(kept, gone, id)
    BY DEF Now
  <2>5. h.uf = [id \in Ids(g) |-> now(g.uf[id])] /\ h.info = g.info
        /\ h.nodes = {image(n) : n \in g.nodes}
    BY <2>1
  <2>6. ASSUME NEW n \in g.nodes
        PROVE  IsImage(kept, gone, n, image(n))
    <3>1. n \in ClassNodes
      BY EGraphFacts DEF Sound, IsEGraph
    <3>2. n.en \in ENodes /\ DOMAIN n.en.kids = 1 .. Len(n.en.kids)
      BY <3>1, ClassNodeFacts
    <3> DEFINE ks == KidsRenamed(n.en.kids, gone, kept)
    <3>3. DOMAIN ks = DOMAIN n.en.kids /\ \A k \in DOMAIN n.en.kids : ks[k] = Now(kept, gone, n.en.kids[k])
      BY DEF KidsRenamed, Now
    <3> DEFINE e == [n.en EXCEPT !.kids = ks]
    <3>4. image(n).cls = now(n.cls) /\ image(n).en = e
      OBVIOUS
    <3> HIDE DEF ks
    <3>5. e.op = n.en.op /\ e.text = n.en.text /\ e.data = n.en.data /\ e.kids = ks
      BY <3>2 DEF ENodes
    <3> HIDE DEF e, image, now
    <3> QED
      BY <2>4, <3>3, <3>4, <3>5 DEF IsImage
  <2>7. DOMAIN h.uf = Ids(g) /\ \A id \in Ids(g) : h.uf[id] = now(g.uf[id])
    BY <2>5
  <2>8. Ids(h) = Ids(g) /\ \A id \in Ids(g) : Find(h, id) = Now(kept, gone, Find(g, id))
    BY <2>4, <2>7 DEF Ids, Find
  <2>9. \A m \in h.nodes : \E n \in g.nodes : m = image(n)
    BY <2>5
  <2>10. \A n \in g.nodes : image(n) \in h.nodes
    BY <2>5, Zenon
  <2> HIDE DEF image, now
  <2>11. \A m \in h.nodes : \E n \in g.nodes : IsImage(kept, gone, n, m)
    BY <2>6, <2>9
  <2>12. \A n \in g.nodes : \E m \in h.nodes : IsImage(kept, gone, n, m)
    BY <2>6, <2>10
  <2>13. Len(h.uf) = Len(g.uf)
    <3>1. Ids(g) = 1 .. Len(g.uf) /\ Len(g.uf) \in Nat
      BY SoundIds
    <3>2. h.uf = [id \in 1 .. Len(g.uf) |-> h.uf[id]]
      BY <2>5, <3>1
    <3> QED
      BY <3>1, <3>2, FunctionLen
  <2>14. IsJoined(g, h, kept, gone)
    BY <2>2, <2>3, <2>5, <2>8, <2>11, <2>12, <2>13 DEF IsJoined
  <2> QED
    BY <2>3, <2>14 DEF x, y
<1> QED
  BY <1>1, <1>2

\* Classes of one value in one.
LEMMA JoinedIsLawful ==
  ASSUME NEW g, NEW kind, Sound(g, kind), NEW ct, NEW val, NEW home, Lawful(ct, g, val, home),
         NEW h, NEW kept, NEW gone, IsJoined(g, h, kept, gone),
         val[kept] = val[gone], home[kept] = home[gone]
  PROVE  Lawful(ct, h, val, home)
<1>1. /\ Ids(h) = Ids(g) /\ Len(h.uf) = Len(g.uf)
      /\ \A id \in Ids(g) : Find(h, id) = Now(kept, gone, Find(g, id))
      /\ \A m \in h.nodes : \E n \in g.nodes : IsImage(kept, gone, n, m)
  BY DEF IsJoined
<1>2. \A id : val[Now(kept, gone, id)] = val[id] /\ home[Now(kept, gone, id)] = home[id]
  BY DEF Now
<1>3. \A id \in Ids(g) : ClassValue(h, val, home, id)
  <2> SUFFICES ASSUME NEW id \in Ids(g) PROVE ClassValue(h, val, home, id)
    OBVIOUS
  <2>1. ClassValue(g, val, home, id)
    BY DEF Lawful
  <2>2. val[Find(h, id)] = val[Find(g, id)] /\ home[Find(h, id)] = home[Find(g, id)]
    BY <1>1, <1>2
  <2> QED
    BY <2>1, <2>2 DEF ClassValue
<1>4. ASSUME NEW m \in h.nodes PROVE NodeLaw(ct, val, home, m)
  <2>1. PICK n \in g.nodes : IsImage(kept, gone, n, m)
    BY <1>1
  <2>2. /\ m.cls = Now(kept, gone, n.cls)
        /\ m.en.op = n.en.op /\ m.en.text = n.en.text /\ m.en.data = n.en.data
        /\ DOMAIN m.en.kids = DOMAIN n.en.kids
        /\ \A k \in DOMAIN n.en.kids : m.en.kids[k] = Now(kept, gone, n.en.kids[k])
    BY <2>1 DEF IsImage
  <2>3. Of(val, m.en) = Of(val, n.en) /\ Of(home, m.en) = Of(home, n.en)
    BY <1>2, <2>2 DEF Of
  <2>4. val[m.cls] = val[n.cls] /\ home[m.cls] = home[n.cls]
    BY <1>2, <2>2
  <2>5. NodeLaw(ct, val, home, n)
    BY DEF Lawful
  <2>6. Law(ct, n.en, Of(val, n.en), Of(home, n.en), val[n.cls], home[n.cls])
    BY <2>5 DEF NodeLaw
  <2>7. m.en.op \in TensorOps
    BY <2>2, SoundIds DEF ENodes
  <2>8. Law(ct, m.en, Of(val, n.en), Of(home, n.en), val[n.cls], home[n.cls])
    BY <2>2, <2>6, <2>7, LawOfSameOperation
  <2> QED
    BY <2>3, <2>4, <2>8 DEF NodeLaw
<1>5. IsTuple(val, Len(h.uf)) /\ IsTuple(home, Len(h.uf))
  BY <1>1 DEF Lawful
<1> QED
  BY <1>1, <1>3, <1>4, <1>5 DEF Lawful

LEMMA JoinedClasses ==
  ASSUME NEW g, NEW kind, Sound(g, kind), NEW h, NEW kept, NEW gone, IsJoined(g, h, kept, gone)
  PROVE  \A c \in Classes(h) : c \in Classes(g)
<1> SUFFICES ASSUME NEW c \in Classes(h) PROVE c \in Classes(g)
  OBVIOUS
<1>1. c \in Ids(g) /\ Find(h, c) = c
  BY DEF Classes, Find, IsJoined
<1>2. c = Now(kept, gone, Find(g, c)) /\ kept \in Classes(g)
  BY <1>1 DEF IsJoined
<1>3. Find(g, c) \in Classes(g)
  BY <1>1, SoundIds
<1> QED
  BY <1>2, <1>3 DEF Now

LEMMA JoinedIsFresh ==
  ASSUME NEW g, NEW kind, Sound(g, kind), NEW h, NEW kept, NEW gone, IsJoined(g, h, kept, gone),
         NEW n \in Nat, Fresh(g, n), NEW old \in Ids(g), old <= n, Find(g, old) \in {kept, gone}
  PROVE  Fresh(h, n)
<1>1. /\ Ids(h) = Ids(g) /\ Ids(g) = 1 .. Len(g.uf) /\ Len(g.uf) \in Nat
      /\ \A id \in Ids(g) : Find(h, id) = Now(kept, gone, Find(g, id))
      /\ \A m \in h.nodes : \E l \in g.nodes : IsImage(kept, gone, l, m)
      /\ \A l \in g.nodes : \E m \in h.nodes : IsImage(kept, gone, l, m)
  BY SoundIds DEF IsJoined
<1>2. ASSUME NEW id \in Ids(h), id > n, IsEldest(h, id) PROVE IsGrounded(h, id)
  <2>1. \A j \in 1 .. id - 1 : j \in Ids(g)
    BY <1>1
  <2>2. IsEldest(g, id)
    BY <1>1, <1>2, <2>1 DEF IsEldest
  <2>3. IsGrounded(g, id)
    BY <1>1, <1>2, <2>2 DEF Fresh
  <2>4. Find(g, id) \notin {kept, gone}
    <3>1. old \in 1 .. id - 1
      BY <1>1, <1>2
    <3>2. Find(h, old) # Find(h, id)
      BY <1>2, <3>1 DEF IsEldest
    <3> QED
      BY <1>1, <3>2 DEF Now
  <2>5. Find(h, id) = Find(g, id)
    BY <1>1, <2>4 DEF Now
  <2>6. \A l, m : IsImage(kept, gone, l, m) => (m.cls = Find(h, id) <=> l.cls = Find(g, id))
    BY <2>4, <2>5 DEF IsImage, Now
  <2>7. \E m \in h.nodes : m.cls = Find(h, id)
    <3>1. PICK l \in g.nodes : l.cls = Find(g, id)
      BY <2>3 DEF IsGrounded
    <3>2. PICK m \in h.nodes : IsImage(kept, gone, l, m)
      BY <1>1
    <3> QED
      BY <2>6, <3>1, <3>2
  <2>8. ASSUME NEW m \in h.nodes, m.cls = Find(h, id), NEW k \in DOMAIN m.en.kids
        PROVE  \E j \in 1 .. id - 1 : Find(h, j) = m.en.kids[k]
    <3>1. PICK l \in g.nodes : IsImage(kept, gone, l, m)
      BY <1>1
    <3>2. l.cls = Find(g, id)
      BY <2>6, <2>8, <3>1
    <3>3. k \in DOMAIN l.en.kids /\ m.en.kids[k] = Now(kept, gone, l.en.kids[k])
      BY <2>8, <3>1 DEF IsImage
    <3>4. PICK j \in 1 .. id - 1 : Find(g, j) = l.en.kids[k]
      BY <2>3, <3>2, <3>3 DEF IsGrounded
    <3>5. Find(h, j) = m.en.kids[k]
      BY <1>1, <2>1, <3>3, <3>4
    <3> QED
      BY <3>5
  <2> QED
    BY <2>7, <2>8 DEF IsGrounded
<1> QED
  BY <1>2 DEF Fresh

\* Everything that a union leaves as it is.
Unites(ct, g, h, val, home, n) ==
  /\ Lawful(ct, h, val, home) /\ Fresh(h, n)
  /\ TrueInfos(g, val) => TrueInfos(h, val)

LEMMA UnionIsLawful ==
  ASSUME NEW g, NEW kind, Sound(g, kind), NEW ct, NEW val, NEW home, Lawful(ct, g, val, home),
         NEW a \in Ids(g), NEW b \in Ids(g), val[a] = val[b], home[a] = home[b],
         NEW h, h = Union(g, a, b), NEW n \in Nat, Fresh(g, n), a <= n
  PROVE  Unites(ct, g, h, val, home, n)
<1>1. /\ val[Find(g, a)] = val[Find(g, b)] /\ home[Find(g, a)] = home[Find(g, b)]
  BY DEF Lawful, ClassValue
<1>2. ASSUME NEW kept, NEW gone, IsJoined(g, h, kept, gone), {kept, gone} = {Find(g, a), Find(g, b)}
      PROVE  Unites(ct, g, h, val, home, n)
  <2>1. val[kept] = val[gone] /\ home[kept] = home[gone] /\ Find(g, a) \in {kept, gone}
    BY <1>1, <1>2
  <2>2. Lawful(ct, h, val, home)
    BY <1>2, <2>1, JoinedIsLawful
  <2>3. Fresh(h, n)
    BY <1>2, <2>1, JoinedIsFresh
  <2>4. \A c \in Classes(h) : c \in Classes(g) /\ h.info = g.info
    BY <1>2, JoinedClasses DEF IsJoined
  <2>5. TrueInfos(g, val) => TrueInfos(h, val)
    BY <2>4 DEF TrueInfos, TrueAt
  <2> QED
    BY <2>2, <2>3, <2>5 DEF Unites
<1>3. CASE h = g
  BY <1>3 DEF Unites
<1> QED
  BY <1>2, <1>3, UnionJoins

\* Rebuilding joins classes of one e-node, and so of one value.
LEMMA UnionKeepsLaw ==
  ASSUME NEW g, NEW kind, Sound(g, kind), NEW ct, NEW val, NEW home, Lawful(ct, g, val, home),
         NEW a \in Ids(g), NEW b \in Ids(g), val[a] = val[b], home[a] = home[b],
         NEW h, h = Union(g, a, b)
  PROVE  Lawful(ct, h, val, home) /\ (TrueInfos(g, val) => TrueInfos(h, val))
<1>1. Len(g.uf) \in Nat /\ Ids(g) = 1 .. Len(g.uf)
  BY SoundIds
<1>2. Fresh(g, Len(g.uf))
  BY <1>1 DEF Fresh
<1>3. a <= Len(g.uf)
  BY <1>1
<1>4. Unites(ct, g, h, val, home, Len(g.uf))
  BY <1>1, <1>2, <1>3, UnionIsLawful
<1> QED
  BY <1>4 DEF Unites

LEMMA CongruentHaveOneValue ==
  ASSUME NEW g, NEW kind, Sound(g, kind), NEW ct, NEW val, NEW home, Lawful(ct, g, val, home),
         NEW pair \in Congruent(g)
  PROVE  /\ pair[1] \in Ids(g) /\ pair[2] \in Ids(g)
         /\ val[pair[1]] = val[pair[2]] /\ home[pair[1]] = home[pair[2]]
<1>1. PICK m \in g.nodes, n \in g.nodes :
        m.en = n.en /\ m.cls < n.cls /\ pair = <<m.cls, n.cls>>
  BY DEF Congruent
<1>2. m.cls \in Classes(g) /\ n.cls \in Classes(g) /\ m.en.op \in TensorOps
  BY SoundIds DEF ENodes
<1>3. m.en.op # "var"
  <2>1. m.cls # n.cls
    BY <1>1, <1>2, SoundIds
  <2> QED
    BY <1>1, <2>1 DEF Sound, IsKinded
<1>4. /\ Law(ct, m.en, Of(val, m.en), Of(home, m.en), val[m.cls], home[m.cls])
      /\ Law(ct, m.en, Of(val, m.en), Of(home, m.en), val[n.cls], home[n.cls])
  BY <1>1 DEF Lawful, NodeLaw
<1>5. m.en.op \in TensorOps \ {"var"}
  BY <1>2, <1>3
<1>6. val[m.cls] = val[n.cls] /\ home[m.cls] = home[n.cls]
  BY <1>4, <1>5, LawDetermines
<1>7. pair[1] = m.cls /\ pair[2] = n.cls
  BY <1>1
<1> QED
  BY <1>2, <1>6, <1>7 DEF Classes

-----------------------------------------------------------------------------
(* The values that are computed class by class are those.                  *)

\* What Valued adds to the values of the first classes.
NextValues(g, prev, id) ==
  LET en == CHOOSE e \in NodesOf(g, id) : TRUE
  IN  Append(prev,
        IF Eldest(g, id) < id THEN prev[Eldest(g, id)]
        ELSE Computes(en, [k \in DOMAIN en.kids |-> prev[Eldest(g, en.kids[k])]],
                      InfoOf(g, id)))

ValuesFrom(old, g, f, m) ==
  \A id \in 0 .. m :
    f[id] = IF id <= Len(old) THEN SubSeq(old, 1, id) ELSE NextValues(g, f[id - 1], id)

LEMMA ValuedUnfolds ==
  ASSUME NEW old, Len(old) \in Nat, NEW g, NEW top \in Nat, top = Len(g.uf)
  PROVE  \E f : Valued(old, g) = f[top] /\ ValuesFrom(old, g, f, top)
<1> DEFINE Body(f, m) == [id \in 0 .. m |->
                            IF id <= Len(old) THEN SubSeq(old, 1, id) ELSE NextValues(g, f[id - 1], id)]
           upto == CHOOSE f : f = Body(f, top)
<1>1. Valued(old, g) = upto[top]
  BY Zenon DEF Valued, NextValues
<1> DEFINE Bad == {m \in 0 .. top : ~ \E f : f = Body(f, m)}
<1>4. ASSUME Bad # {} PROVE FALSE
  <2>1. Bad \in SUBSET Nat
    OBVIOUS
  <2> HIDE DEF Bad
  <2>2. PICK m \in Bad : \A k \in Bad : m <= k
    BY <1>4, <2>1, LeastElement
  <2>3. m \in 0 .. top /\ ~ \E f : f = Body(f, m)
    BY Zenon DEF Bad
  <2>4. CASE m = 0
    <3> DEFINE f == [id \in 0 .. 0 |-> SubSeq(old, 1, id)]
    <3>1. \A id \in 0 .. 0 : id <= Len(old)
      OBVIOUS
    <3>2. f = Body(f, 0)
      BY <3>1
    <3> QED
      BY <2>3, <2>4, <3>2, Zenon
  <2>5. CASE m # 0
    <3>1. m - 1 \in 0 .. top /\ ~(m <= m - 1) /\ m \in Nat
      BY <2>3, <2>5
    <3>2. PICK f : f = Body(f, m - 1)
      BY <2>2, <3>1, Zenon DEF Bad
    <3> DEFINE h == [id \in 0 .. m |->
                       IF id <= Len(old) THEN SubSeq(old, 1, id) ELSE NextValues(g, f[id - 1], id)]
    <3>3. \A id \in 0 .. m - 1 : h[id] = f[id]
      <4>1. ASSUME NEW id \in 0 .. m - 1 PROVE h[id] = f[id]
        <5>1. id \in 0 .. m
          BY <3>1
        <5>2. h[id] = IF id <= Len(old) THEN SubSeq(old, 1, id) ELSE NextValues(g, f[id - 1], id)
          BY <5>1, Zenon
        <5>3. f[id] = IF id <= Len(old) THEN SubSeq(old, 1, id) ELSE NextValues(g, f[id - 1], id)
          <6> HIDE DEF h
          <6> QED
            BY <3>2, Zenon
        <5> QED
          BY <5>2, <5>3, Zenon
      <4> QED
        BY <4>1, Zenon
    <3>4. h = Body(h, m)
      <4>1. ASSUME NEW id \in 0 .. m
            PROVE  h[id] = IF id <= Len(old) THEN SubSeq(old, 1, id) ELSE NextValues(g, h[id - 1], id)
        <5>1. h[id] = IF id <= Len(old) THEN SubSeq(old, 1, id) ELSE NextValues(g, f[id - 1], id)
          BY <4>1, Zenon
        <5>2. CASE id <= Len(old)
          BY <5>1, <5>2, Zenon
        <5>3. CASE ~(id <= Len(old))
          <6>1. id - 1 \in 0 .. m - 1
            BY <3>1, <5>3
          <6>2. h[id - 1] = f[id - 1]
            BY <3>3, <6>1, Zenon
          <6> QED
            BY <5>1, <5>3, <6>2, Zenon
        <5> QED
          BY <5>2, <5>3
      <4>2. h = [id \in 0 .. m |-> h[id]]
        OBVIOUS
      <4> HIDE DEF h
      <4> QED
        BY <4>1, <4>2, Zenon
    <3> HIDE DEF h
    <3> QED
      BY <2>3, <3>4
  <2> QED
    BY <2>4, <2>5
<1>5. \E f : f = Body(f, top)
  <2>1. top \in 0 .. top
    OBVIOUS
  <2> HIDE DEF Bad
  <2>2. top \notin Bad
    BY <1>4
  <2> QED
    BY <2>1, <2>2, Zenon DEF Bad
<1>6. upto = Body(upto, top)
  <2> HIDE DEF Body
  <2> QED
    BY <1>5
<1> HIDE DEF upto, Bad
<1>7. ASSUME NEW id \in 0 .. top
      PROVE  upto[id] = IF id <= Len(old) THEN SubSeq(old, 1, id) ELSE NextValues(g, upto[id - 1], id)
  BY <1>6, Zenon
<1>8. ValuesFrom(old, g, upto, top)
  BY <1>7, Zenon DEF ValuesFrom
<1> QED
  BY <1>1, <1>8, Zenon

\* The values of the first m classes.
Agrees(v, val, m) == IsTuple(v, m) /\ \A j \in 1 .. m : v[j] = val[j]

LEMMA AgreeingTuples ==
  ASSUME NEW n \in Nat, NEW v, NEW w, Agrees(v, w, n), IsTuple(w, n)
  PROVE  v = w
<1>1. PICK S : v \in Seq(S)
  BY Zenon DEF IsTuple, Agrees
<1>2. PICK T : w \in Seq(T)
  BY Zenon DEF IsTuple
<1>3. Len(v) = n /\ Len(w) = n /\ \A j \in 1 .. n : v[j] = w[j]
  BY Zenon DEF IsTuple, Agrees
<1>4. v \in Seq(S \cup T) /\ w \in Seq(S \cup T)
  BY <1>1, <1>2
<1>5. DOMAIN v = 1 .. n /\ DOMAIN w = 1 .. n
  BY <1>3, <1>4
<1>6. v = [j \in 1 .. n |-> v[j]] /\ w = [j \in 1 .. n |-> w[j]]
  BY <1>4, <1>5
<1> QED
  BY <1>3, <1>6

LEMMA EldestIs ==
  ASSUME NEW g, NEW kind, Sound(g, kind), NEW id \in Ids(g), NEW e, e = Eldest(g, id)
  PROVE  /\ e \in Ids(g) /\ e \in 1 .. id /\ Find(g, e) = Find(g, id)
         /\ \A j \in Ids(g) : Find(g, j) = Find(g, id) => e <= j
<1>1. Len(g.uf) \in Nat /\ Ids(g) = 1 .. Len(g.uf)
  BY SoundIds
<1>2. PICK S : S = {j \in Ids(g) : Find(g, j) = Find(g, id)}
  BY Zenon
<1>3. S \in SUBSET Nat /\ S # {} /\ id \in S
  BY <1>1, <1>2
<1>4. e = Min(S)
  BY <1>2 DEF Eldest
<1>5. e \in S /\ \A k \in S : e <= k
  BY <1>3, <1>4, MinIsElement
<1> QED
  BY <1>1, <1>2, <1>3, <1>5

LEMMA NextIsValue ==
  ASSUME NEW g, NEW kind, Sound(g, kind), NEW ct, NEW val, NEW home, Lawful(ct, g, val, home),
         TrueInfos(g, val), NEW n \in Nat, Fresh(g, n), NEW id \in Ids(g), id > n,
         NEW prev, Agrees(prev, val, id - 1), NEW v, v = NextValues(g, prev, id)
  PROVE  Agrees(v, val, id)
<1>1. Len(g.uf) \in Nat /\ Ids(g) = 1 .. Len(g.uf) /\ id \in Nat \ {0} /\ id - 1 \in Nat
  BY SoundIds
<1>2. PICK c : c = Find(g, id)
  OBVIOUS
<1>3. c \in Classes(g) /\ val[id] = val[c]
  BY <1>2, SoundIds DEF Lawful, ClassValue
<1>4. PICK e : e = Eldest(g, id)
  OBVIOUS
<1>5. /\ e \in Ids(g) /\ e \in 1 .. id /\ Find(g, e) = c
      /\ \A j \in Ids(g) : Find(g, j) = Find(g, id) => e <= j
  BY <1>2, <1>4, EldestIs
<1>6. PICK en : en = CHOOSE x \in NodesOf(g, id) : TRUE
  OBVIOUS
<1>7. PICK ks : ks = [k \in DOMAIN en.kids |-> prev[Eldest(g, en.kids[k])]]
  BY Zenon
<1>8. v = Append(prev, IF e < id THEN prev[e] ELSE Computes(en, ks, InfoOf(g, id)))
  BY <1>4, <1>6, <1>7 DEF NextValues
<1>9. CASE e < id
  <2>1. e \in 1 .. id - 1
    BY <1>1, <1>5, <1>9
  <2>2. prev[e] = val[e]
    BY <2>1 DEF Agrees
  <2>3. val[e] = val[c]
    BY <1>5 DEF Lawful, ClassValue
  <2>4. v = Append(prev, val[id])
    BY <1>3, <1>8, <1>9, <2>2, <2>3
  <2> HIDE DEF Agrees
  <2>5. IsTuple(prev, id - 1)
    BY DEF Agrees
  <2>6. IsTuple(v, (id - 1) + 1) /\ v[(id - 1) + 1] = val[id] /\ Extends(v, prev, id - 1)
    BY <1>1, <2>4, <2>5, AppendedTuple, Zenon
  <2>7. (id - 1) + 1 = id /\ \A j \in 1 .. id : j = id \/ j \in 1 .. id - 1
    BY <1>1
  <2> QED
    BY <2>6, <2>7 DEF Agrees, Extends
<1>10. CASE ~(e < id)
  <2>1. IsEldest(g, id)
    BY <1>1, <1>5, <1>10 DEF IsEldest
  <2>2. IsGrounded(g, id)
    BY <2>1 DEF Fresh
  <2>3. \E x \in NodesOf(g, id) : TRUE
    BY <2>2 DEF IsGrounded, NodesOf
  <2>4. en \in NodesOf(g, id)
    BY <1>6, <2>3
  <2>5. PICK m \in g.nodes : m.cls = c /\ m.en = en
    BY <1>2, <2>4 DEF NodesOf
  <2>6. ASSUME NEW k \in DOMAIN en.kids PROVE ks[k] = val[en.kids[k]]
    <3>1. PICK j \in 1 .. id - 1 : Find(g, j) = en.kids[k]
      BY <1>2, <2>2, <2>5 DEF IsGrounded
    <3>2. PICK kid : kid = en.kids[k]
      OBVIOUS
    <3>3. kid \in Classes(g) /\ kid \in Ids(g) /\ Find(g, kid) = kid
      BY <2>5, <3>2, SoundIds DEF Classes
    <3>4. PICK d : d = Eldest(g, kid)
      OBVIOUS
    <3>5. /\ d \in Ids(g) /\ d \in 1 .. kid /\ Find(g, d) = kid
          /\ \A i \in Ids(g) : Find(g, i) = Find(g, kid) => d <= i
      BY <3>3, <3>4, EldestIs
    <3>6. j \in Ids(g) /\ d <= j
      BY <1>1, <3>1, <3>2, <3>3, <3>5
    <3>7. d \in 1 .. id - 1
      BY <1>1, <3>5, <3>6
    <3>8. prev[d] = val[d]
      BY <3>7 DEF Agrees
    <3>9. val[d] = val[kid]
      BY <3>5 DEF Lawful, ClassValue
    <3> QED
      BY <1>7, <3>2, <3>4, <3>8, <3>9
  <2>7. ks = Of(val, en)
    BY <1>7, <2>6 DEF Of
  <2>8. InfoOf(g, id) = Info(val[c].shape, val[c].dtype)
    BY <1>2, <1>3 DEF InfoOf, TrueInfos, TrueAt
  <2>9. val[c] = Computes(en, ks, InfoOf(g, id))
    <3>1. NodeLaw(ct, val, home, m)
      BY DEF Lawful
    <3>2. Law(ct, en, Of(val, en), Of(home, en), val[c], home[c])
      BY <2>5, <3>1 DEF NodeLaw
    <3> QED
      BY <2>7, <2>8, <3>2 DEF Law
  <2>10. v = Append(prev, val[id])
    BY <1>3, <1>8, <1>10, <2>9
  <2>11. IsTuple(prev, id - 1)
    BY DEF Agrees
  <2>12. IsTuple(v, (id - 1) + 1) /\ v[(id - 1) + 1] = val[id] /\ Extends(v, prev, id - 1)
    BY <1>1, <2>10, <2>11, AppendedTuple, Zenon
  <2>13. (id - 1) + 1 = id /\ \A j \in 1 .. id : j = id \/ j \in 1 .. id - 1
    BY <1>1
  <2> QED
    BY <2>12, <2>13 DEF Agrees, Extends
<1> QED
  BY <1>9, <1>10

LEMMA ValuedIs ==
  ASSUME NEW g, NEW kind, Sound(g, kind), NEW ct, NEW val, NEW home, Lawful(ct, g, val, home),
         TrueInfos(g, val), NEW n \in Nat, Fresh(g, n), n <= Len(g.uf),
         NEW old, IsTuple(old, n), Extends(val, old, n)
  PROVE  Valued(old, g) = val
<1>1. PICK top : top = Len(g.uf)
  OBVIOUS
<1>2. top \in Nat /\ Ids(g) = 1 .. top
  BY <1>1, SoundIds
<1>3. Len(old) = n
  BY Zenon DEF IsTuple
<1>4. PICK f : Valued(old, g) = f[top] /\ ValuesFrom(old, g, f, top)
  BY <1>1, <1>2, <1>3, ValuedUnfolds, Zenon
<1>5. \A id \in 0 .. top : f[id] = IF id <= n THEN SubSeq(old, 1, id) ELSE NextValues(g, f[id - 1], id)
  BY <1>3, <1>4 DEF ValuesFrom
<1> DEFINE Wrong == {id \in 0 .. top : ~Agrees(f[id], val, id)}
<1>6. ASSUME Wrong # {} PROVE FALSE
  <2>1. Wrong \in SUBSET Nat
    OBVIOUS
  <2> HIDE DEF Wrong
  <2>2. PICK id \in Wrong : \A k \in Wrong : id <= k
    BY <1>6, <2>1, LeastElement
  <2>3. id \in 0 .. top /\ ~Agrees(f[id], val, id)
    BY Zenon DEF Wrong
  <2>4. CASE id <= n
    <3>1. id \in 0 .. n
      BY <2>3, <2>4
    <3>2. f[id] = SubSeq(old, 1, id)
      BY <1>5, <2>3, <2>4, Zenon
    <3>3. IsTuple(f[id], id)
      BY <3>1, <3>2, SubSeqIsTuple
    <3>4. PICK S : old \in Seq(S)
      BY Zenon DEF IsTuple
    <3>5. \A j \in 1 .. id : SubSeq(old, 1, id)[j] = old[j]
      BY <1>3, <3>1, <3>4
    <3>6. \A j \in 1 .. id : j \in 1 .. n
      BY <3>1
    <3> QED
      BY <2>3, <3>2, <3>3, <3>5, <3>6 DEF Agrees, Extends
  <2>5. CASE ~(id <= n)
    <3>1. id - 1 \in 0 .. top /\ ~(id <= id - 1) /\ id \in 1 .. top /\ id > n
      BY <1>2, <2>3, <2>5
    <3>2. Agrees(f[id - 1], val, id - 1)
      BY <2>2, <3>1, Zenon DEF Wrong
    <3>3. f[id] = NextValues(g, f[id - 1], id)
      BY <1>5, <2>3, <2>5
    <3>4. id \in Ids(g)
      BY <1>2, <3>1
    <3>5. Agrees(f[id], val, id)
      BY <3>1, <3>2, <3>3, <3>4, NextIsValue
    <3> QED
      BY <2>3, <3>5
  <2> QED
    BY <2>4, <2>5
<1>7. top \in 0 .. top
  BY <1>2
<1>8. Agrees(f[top], val, top)
  BY <1>6, <1>7
<1>9. IsTuple(val, top)
  BY <1>1 DEF Lawful
<1> QED
  BY <1>2, <1>4, <1>8, <1>9, AgreeingTuples

-----------------------------------------------------------------------------
(* apply_pat with the tensors of its positions.                            *)

\* What holds at the start and stays from position to position holds at the end.
LEMMA ApplyPatStays ==
  ASSUME NEW g, NEW pat, NEW metadata, NEW subst, Len(pat) \in Nat, NEW X,
         <<0, [eg |-> g, ids |-> <<>>]>> \in X,
         \A k \in 1 .. Len(pat) : \A x :
           <<k - 1, x>> \in X => <<k, PatStep(pat, metadata, subst, k, x)>> \in X
  PROVE  <<Len(pat), ApplyPat(g, pat, metadata, subst)>> \in X
<1> DEFINE top == Len(pat)
           Body(f) == [i \in 0 .. top |-> IF i = 0 THEN [eg |-> g, ids |-> <<>>]
                                        ELSE PatStep(pat, metadata, subst, i, f[i - 1])]
           upto == CHOOSE f : f = Body(f)
           a == [eg |-> g, ids |-> <<>>]
           F == [w \in X |-> PatStep(pat, metadata, subst, w[1] + 1, w[2])]
<1>1. ApplyPat(g, pat, metadata, subst) = upto[top]
  BY Zenon DEF ApplyPat, PatStep
<1>4. ASSUME NEW k \in 1 .. top, NEW x, <<k - 1, x>> \in X
      PROVE  /\ F[<<k - 1, x>>] = PatStep(pat, metadata, subst, k, x)
             /\ <<k, F[<<k - 1, x>>]>> \in X
  <2>1. (k - 1) + 1 = k
    OBVIOUS
  <2>3. F[<<k - 1, x>>] = PatStep(pat, metadata, subst, k, x)
    BY <1>4, <2>1
  <2> HIDE DEF F
  <2> QED
    BY <1>4, <2>3
<1> HIDE DEF F
<1>3. <<0, a>> \in X
  OBVIOUS
<1>5. StaysIn(top, F, X)
  BY <1>4 DEF StaysIn
<1>6. PICK f : Follows(f, top, a, F, X) /\ AllIn(f, top, X)
  <2> HIDE DEF a, top
  <2> QED
    BY <1>3, <1>5, FollowersExist DEF top
<1>7. \A k \in 1 .. top : k \in 0 .. top /\ k - 1 \in 0 .. top /\ k # 0
  OBVIOUS
<1>8. f = Body(f)
  <2>1. ASSUME NEW k \in 0 .. top
        PROVE  f[k] = IF k = 0 THEN a ELSE PatStep(pat, metadata, subst, k, f[k - 1])
    <3>1. k = 0 \/ k \in 1 .. top
      OBVIOUS
    <3>2. ASSUME k \in 1 .. top PROVE f[k] = PatStep(pat, metadata, subst, k, f[k - 1])
      BY <1>4, <1>6, <1>7, <3>2, Zenon DEF Follows, AllIn
    <3> QED
      BY <1>6, <1>7, <3>1, <3>2 DEF Follows
  <2> QED
    BY <1>6, <2>1, Zenon DEF Follows
<1>9. upto = Body(upto)
  <2> HIDE DEF Body
  <2> QED
    BY <1>8
<1> HIDE DEF upto
<1>10. Follows(upto, top, a, F, X)
  <2>1. upto = [k \in 0 .. top |-> upto[k]] /\ upto[0] = a
    BY <1>9
  <2>2. \A k \in 1 .. top : upto[k] = PatStep(pat, metadata, subst, k, upto[k - 1])
    BY <1>7, <1>9
  <2> QED
    BY <1>4, <2>1, <2>2, Zenon DEF Follows
<1>11. AllIn(upto, top, X)
  <2> HIDE DEF a, top
  <2> QED
    BY <1>3, <1>5, <1>10, FollowersStay DEF top
<1>12. <<top, upto[top]>> \in X /\ top \in 0 .. top
  BY <1>11 DEF AllIn
<1> QED
  BY <1>1, <1>12

IsOperation(pat, i) == pat[i].var = ""

PatNode(pat, metadata, i) == ENode(pat[i].op, metadata[i].text, metadata[i].data, pat[i].kids)

\* pv and ph are the tensors and homes that the positions of a pattern have.
PartValue(ct, val, home, pat, metadata, subst, pv, ph, i) ==
  /\ pat[i].var # "" => pv[i] = val[subst[pat[i].var]] /\ ph[i] = home[subst[pat[i].var]]
  /\ pat[i].var = "" =>
       /\ IsTensor(pv[i], ph[i])
       /\ Law(ct, PatNode(pat, metadata, i), Of(pv, PatNode(pat, metadata, i)),
              Of(ph, PatNode(pat, metadata, i)), pv[i], ph[i])

PartHolds(pv, ph, b, f, more, val2, home2, id, k) ==
  id \in Ids(f) /\ more[id] = b /\ val2[id] = pv[k] /\ home2[id] = ph[k]

\* The classes of operations are still to get their TensorInfo.
InfosBut(f, val2, pat, ids, n) ==
  \A c \in Classes(f) :
    TrueAt(f, val2, c) \/ \E k \in 1 .. n : pat[k].var = "" /\ ids[k] = c

GrownLawful(ct, g, kind, val, home, n0, f, more, val2, home2) ==
  /\ Sound(f, more) /\ Grows(g, kind, f, more)
  /\ Lawful(ct, f, val2, home2) /\ Fresh(f, n0)
  /\ Extends(val2, val, Len(g.uf)) /\ Extends(home2, home, Len(g.uf))

Valuation(pat, pv, ph, b, s, n, more, val2, home2) ==
  /\ \A k \in 1 .. n : PartHolds(pv, ph, b, s.eg, more, val2, home2, s.ids[k], k)
  /\ InfosBut(s.eg, val2, pat, s.ids, n)

\* After n positions of a pattern.
AppliedTo(ct, g, kind, val, home, n0, pat, pv, ph, b, s, n) ==
  /\ s.ids \in Seq(Nat) /\ Len(s.ids) = n
  /\ \E more, val2, home2 :
       /\ GrownLawful(ct, g, kind, val, home, n0, s.eg, more, val2, home2)
       /\ Valuation(pat, pv, ph, b, s, n, more, val2, home2)

LEMMA VarIsAppliedTo ==
  ASSUME NEW ct, NEW g, NEW kind, Sound(g, kind), NEW val, NEW home, NEW n0, NEW b,
         NEW pat, NEW metadata, NEW subst, NEW pv, NEW ph, NEW i \in Nat \ {0},
         ~IsOperation(pat, i), StaysOf(g, kind, b, pat, subst, i),
         PartValue(ct, val, home, pat, metadata, subst, pv, ph, i),
         NEW prev, AppliedTo(ct, g, kind, val, home, n0, pat, pv, ph, b, prev, i - 1)
  PROVE  AppliedTo(ct, g, kind, val, home, n0, pat, pv, ph, b, PatStep(pat, metadata, subst, i, prev), i)
<1>0. PICK s : s = PatStep(pat, metadata, subst, i, prev)
  OBVIOUS
<1>1. prev.ids \in Seq(Nat) /\ Len(prev.ids) = i - 1
  BY DEF AppliedTo
<1>2. PICK more, val2, home2 :
        /\ GrownLawful(ct, g, kind, val, home, n0, prev.eg, more, val2, home2)
        /\ Valuation(pat, pv, ph, b, prev, i - 1, more, val2, home2)
  BY DEF AppliedTo
<1>3. PICK id : id = subst[pat[i].var]
  OBVIOUS
<1>4. s.eg = prev.eg /\ s.ids = Append(prev.ids, id)
  BY <1>0, <1>3, Zenon DEF PatStep, IsOperation
<1>5. id \in Ids(g) /\ kind[id] = b /\ pv[i] = val[id] /\ ph[i] = home[id]
  BY <1>3, Zenon DEF StaysOf, PartValue, IsOperation
<1>6. /\ Ids(g) = 1 .. Len(g.uf) /\ Len(g.uf) \in Nat
      /\ Ids(prev.eg) = 1 .. Len(prev.eg.uf) /\ Len(prev.eg.uf) \in Nat
  BY <1>2, SoundIds DEF GrownLawful
<1>7. id \in Ids(prev.eg) /\ id \in Nat /\ more[id] = b /\ val2[id] = pv[i] /\ home2[id] = ph[i]
  BY <1>2, <1>5, <1>6 DEF GrownLawful, Grows, Extends
<1>8. s.ids \in Seq(Nat) /\ Len(s.ids) = i /\ s.ids[i] = id
      /\ \A k \in 1 .. i - 1 : s.ids[k] = prev.ids[k]
  BY <1>1, <1>4, <1>7, AppendFacts
<1>9. /\ \A k \in 1 .. i : k = i \/ k \in 1 .. i - 1
      /\ \A k \in 1 .. i - 1 : k \in 1 .. i
  OBVIOUS
<1>10. \A k \in 1 .. i - 1 : PartHolds(pv, ph, b, prev.eg, more, val2, home2, prev.ids[k], k)
  BY <1>2 DEF Valuation
<1>11. \A k \in 1 .. i : PartHolds(pv, ph, b, s.eg, more, val2, home2, s.ids[k], k)
  BY <1>4, <1>7, <1>8, <1>9, <1>10 DEF PartHolds
<1>12. InfosBut(prev.eg, val2, pat, prev.ids, i - 1)
  BY <1>2 DEF Valuation
<1>13. InfosBut(s.eg, val2, pat, s.ids, i)
  BY <1>4, <1>8, <1>9, <1>12, Zenon DEF InfosBut
<1>14. Valuation(pat, pv, ph, b, s, i, more, val2, home2)
  BY <1>11, <1>13 DEF Valuation
<1>15. GrownLawful(ct, g, kind, val, home, n0, s.eg, more, val2, home2)
  BY <1>2, <1>4
<1>16. AppliedTo(ct, g, kind, val, home, n0, pat, pv, ph, b, s, i)
  BY <1>8, <1>14, <1>15 DEF AppliedTo
<1> QED
  BY <1>0, <1>16

LEMMA OpIsAppliedTo ==
  ASSUME NEW ct, NEW g, NEW kind, Sound(g, kind), NEW val, NEW home, NEW n0, NEW b \in {"raw", "typed"},
         NEW pat, NEW metadata, NEW subst, NEW pv, NEW ph, NEW i \in Nat \ {0},
         IsOperation(pat, i), PositionOK(pat, metadata, i), StaysOf(g, kind, b, pat, subst, i),
         PartValue(ct, val, home, pat, metadata, subst, pv, ph, i),
         NEW prev, AppliedTo(ct, g, kind, val, home, n0, pat, pv, ph, b, prev, i - 1)
  PROVE  AppliedTo(ct, g, kind, val, home, n0, pat, pv, ph, b, PatStep(pat, metadata, subst, i, prev), i)
<1>0. PICK s : s = PatStep(pat, metadata, subst, i, prev)
  OBVIOUS
<1>1. prev.ids \in Seq(Nat) /\ Len(prev.ids) = i - 1
  BY DEF AppliedTo
<1>2. PICK more, val2, home2 :
        /\ GrownLawful(ct, g, kind, val, home, n0, prev.eg, more, val2, home2)
        /\ Valuation(pat, pv, ph, b, prev, i - 1, more, val2, home2)
  BY DEF AppliedTo
<1>3. /\ Sound(prev.eg, more) /\ Grows(g, kind, prev.eg, more)
      /\ Lawful(ct, prev.eg, val2, home2) /\ Fresh(prev.eg, n0)
      /\ Extends(val2, val, Len(g.uf)) /\ Extends(home2, home, Len(g.uf))
  BY <1>2 DEF GrownLawful
<1>4. PICK kids : kids = [k \in DOMAIN pat[i].kids |-> prev.ids[pat[i].kids[k]]]
  BY Zenon
<1>5. PICK en0 : en0 = PatNode(pat, metadata, i)
  OBVIOUS
<1>6. PICK en : en = ENode(pat[i].op, metadata[i].text, metadata[i].data, kids)
  OBVIOUS
<1>7. PICK a : a = Add(prev.eg, en)
  OBVIOUS
<1>8. s.eg = a.eg /\ s.ids = Append(prev.ids, a.id)
  BY <1>0, <1>4, <1>6, <1>7, Zenon DEF PatStep, IsOperation
<1>9. /\ pat[i].op # "var" /\ en0 \in ENodes /\ HasParts(en0)
      /\ \A k \in DOMAIN pat[i].kids : pat[i].kids[k] \in 1 .. i - 1
  BY <1>5, Zenon DEF PositionOK, PatNode, IsOperation
<1>10. /\ en.op = pat[i].op /\ en.kids = kids /\ en.text = metadata[i].text /\ en.data = metadata[i].data
       /\ en0.op = pat[i].op /\ en0.kids = pat[i].kids /\ en0.text = metadata[i].text
       /\ en0.data = metadata[i].data
  BY <1>5, <1>6, ENodeIs DEF PatNode
<1>11. /\ pat[i].op \in TensorOps /\ metadata[i].text \in Texts /\ metadata[i].data \in Seq(Nat)
       /\ pat[i].kids \in Seq(Nat)
  BY <1>5, <1>9, ENodeIs DEF PatNode
<1>12. \A k \in 1 .. i - 1 : PartHolds(pv, ph, b, prev.eg, more, val2, home2, prev.ids[k], k)
  BY <1>2 DEF Valuation
<1>13. /\ Ids(prev.eg) = 1 .. Len(prev.eg.uf) /\ Len(prev.eg.uf) \in Nat
  BY <1>3, SoundIds
<1>14. DOMAIN kids = DOMAIN pat[i].kids
  BY <1>4
<1>15. \A k \in DOMAIN kids :
         /\ kids[k] \in Ids(prev.eg) /\ more[kids[k]] = b /\ kids[k] \in Nat
         /\ val2[kids[k]] = pv[pat[i].kids[k]] /\ home2[kids[k]] = ph[pat[i].kids[k]]
  BY <1>4, <1>9, <1>12, <1>13 DEF PartHolds
<1>16. /\ kids \in Seq(Nat) /\ Len(kids) = Len(pat[i].kids)
  <2>1. DOMAIN pat[i].kids = 1 .. Len(pat[i].kids) /\ Len(pat[i].kids) \in Nat
    BY <1>11
  <2>2. kids = [k \in 1 .. Len(pat[i].kids) |-> kids[k]]
    BY <1>4, <2>1
  <2>3. \A k \in 1 .. Len(pat[i].kids) : kids[k] \in Nat
    BY <1>14, <1>15, <2>1
  <2> QED
    BY <2>1, <2>2, <2>3, MapIsSeq
<1>17. en \in ENodes
  BY <1>6, <1>11, <1>16, ENodeIs
<1>18. HasParts(en)
  BY <1>9, <1>10, <1>16, Zenon DEF HasParts
<1>19. Of(val2, en) = Of(pv, en0) /\ Of(home2, en) = Of(ph, en0)
  BY <1>10, <1>14, <1>15 DEF Of
<1>20. IsTensor(pv[i], ph[i]) /\ Law(ct, en0, Of(pv, en0), Of(ph, en0), pv[i], ph[i])
  BY <1>5, Zenon DEF PartValue, IsOperation
<1>21. Law(ct, en, Of(val2, en), Of(home2, en), pv[i], ph[i])
  <2>1. en.op \in TensorOps /\ en.op = en0.op /\ en.text = en0.text /\ en.data = en0.data
    BY <1>10, <1>11
  <2>2. Law(ct, en, Of(pv, en0), Of(ph, en0), pv[i], ph[i])
    BY <1>20, <2>1, LawOfSameOperation
  <2> QED
    BY <1>19, <2>2
<1>22. NodeFor(ct, prev.eg, val2, home2, en, pv[i], ph[i])
  BY <1>9, <1>10, <1>15, <1>17, <1>18, <1>20, <1>21 DEF NodeFor
<1>23. /\ \E val3, home3 : Holds(ct, prev.eg, val2, home2, a.eg, val3, home3, a.id, pv[i], ph[i])
       /\ Stays(prev.eg, a.eg, a.id) /\ Fresh(a.eg, n0)
  BY <1>3, <1>7, <1>22, AddIsLawful
<1>24. PICK val3, home3 : Holds(ct, prev.eg, val2, home2, a.eg, val3, home3, a.id, pv[i], ph[i])
  BY <1>23
<1>25. /\ Lawful(ct, a.eg, val3, home3) /\ Len(prev.eg.uf) <= Len(a.eg.uf)
       /\ Extends(val3, val2, Len(prev.eg.uf)) /\ Extends(home3, home2, Len(prev.eg.uf))
       /\ a.id \in Classes(a.eg) /\ val3[a.id] = pv[i] /\ home3[a.id] = ph[i]
  BY <1>24 DEF Holds
<1>26. b = "raw" => en.op = "reshape"
  BY <1>10, Zenon DEF StaysOf, IsOperation
<1>27. Fits(more, en)
  BY <1>10, <1>15, <1>26 DEF Fits
<1>28. KindOf(more, en) = b
  <2>1. en.op = "reshape" => 1 \in DOMAIN kids
    BY <1>10, <1>17, <1>18, ReshapeHasKid
  <2> QED
    BY <1>9, <1>10, <1>15, <1>26, <2>1 DEF KindOf
<1>29. PICK most : Added(prev.eg, more, en, a.eg, most, a.id)
  BY <1>3, <1>7, <1>9, <1>10, <1>15, <1>17, <1>18, <1>27, AddIsSound
<1>30. Sound(a.eg, most) /\ Grows(prev.eg, more, a.eg, most) /\ a.id \in Ids(a.eg) /\ most[a.id] = b
  BY <1>28, <1>29 DEF Added
<1>31. Grows(g, kind, a.eg, most)
  BY <1>3, <1>30, GrowsTransitive
<1>32. /\ Ids(a.eg) = 1 .. Len(a.eg.uf) /\ Len(a.eg.uf) \in Nat
       /\ Len(g.uf) \in Nat /\ Len(g.uf) <= Len(prev.eg.uf)
  BY <1>3, <1>30, SoundIds DEF Grows
<1>33. Extends(val3, val, Len(g.uf)) /\ Extends(home3, home, Len(g.uf))
  BY <1>3, <1>13, <1>25, <1>32, ExtendsTransitive
<1>34. GrownLawful(ct, g, kind, val, home, n0, s.eg, most, val3, home3)
  BY <1>8, <1>23, <1>25, <1>30, <1>31, <1>33 DEF GrownLawful
<1>35. a.id \in Nat
  BY <1>30, <1>32
<1>36. s.ids \in Seq(Nat) /\ Len(s.ids) = i /\ s.ids[i] = a.id
       /\ \A k \in 1 .. i - 1 : s.ids[k] = prev.ids[k]
  BY <1>1, <1>8, <1>35, AppendFacts
<1>37. /\ \A k \in 1 .. i : k = i \/ k \in 1 .. i - 1
       /\ \A k \in 1 .. i - 1 : k \in 1 .. i
       /\ i \in 1 .. i
  OBVIOUS
<1>38. \A id \in Ids(prev.eg) : id \in Ids(a.eg) /\ most[id] = more[id] /\ val3[id] = val2[id] /\ home3[id] = home2[id]
  BY <1>13, <1>25, <1>30, <1>32 DEF Grows, Extends
<1>39. ASSUME NEW k \in 1 .. i PROVE PartHolds(pv, ph, b, s.eg, most, val3, home3, s.ids[k], k)
  <2>1. CASE k = i
    BY <1>8, <1>25, <1>30, <1>36, <2>1 DEF PartHolds
  <2>2. CASE k \in 1 .. i - 1
    <3>1. PartHolds(pv, ph, b, prev.eg, more, val2, home2, prev.ids[k], k) /\ s.ids[k] = prev.ids[k]
      BY <1>12, <1>36, <2>2
    <3> QED
      BY <1>8, <1>38, <3>1 DEF PartHolds
  <2> QED
    BY <1>37, <2>1, <2>2
<1>40. InfosBut(prev.eg, val2, pat, prev.ids, i - 1)
  BY <1>2 DEF Valuation
<1>41. ASSUME NEW c \in Classes(a.eg)
       PROVE  TrueAt(a.eg, val3, c) \/ \E k \in 1 .. i : pat[k].var = "" /\ s.ids[k] = c
  <2>1. CASE c = a.id
    BY <1>36, <1>37, <2>1, Zenon DEF IsOperation
  <2>2. CASE c \in Classes(prev.eg)
    <3>1. a.eg.info[c] = prev.eg.info[c] /\ val3[c] = val2[c]
      BY <1>23, <1>38, <2>2 DEF Stays, Classes
    <3>2. TrueAt(prev.eg, val2, c) \/ \E k \in 1 .. i - 1 : pat[k].var = "" /\ prev.ids[k] = c
      BY <1>40, <2>2, Zenon DEF InfosBut
    <3>3. TrueAt(prev.eg, val2, c) => TrueAt(a.eg, val3, c)
      BY <3>1 DEF TrueAt
    <3> QED
      BY <1>36, <1>37, <3>2, <3>3, Zenon
  <2> QED
    BY <1>23, <2>1, <2>2, Zenon DEF Stays
<1>42. InfosBut(s.eg, val3, pat, s.ids, i)
  BY <1>8, <1>41, Zenon DEF InfosBut
<1>43. Valuation(pat, pv, ph, b, s, i, most, val3, home3)
  BY <1>39, <1>42 DEF Valuation
<1>44. AppliedTo(ct, g, kind, val, home, n0, pat, pv, ph, b, s, i)
  BY <1>34, <1>36, <1>43 DEF AppliedTo
<1> QED
  BY <1>0, <1>44

\* The positions of a pattern get the classes of the tensors planned for them.
LEMMA ApplyPatHolds ==
  ASSUME NEW ct, NEW g, NEW kind, Sound(g, kind), NEW val, NEW home, Lawful(ct, g, val, home),
         NEW n0, Fresh(g, n0), TrueInfos(g, val), NEW b \in {"raw", "typed"},
         NEW pat, NEW metadata, NEW subst, NEW pv, NEW ph, Len(pat) \in Nat,
         \A i \in 1 .. Len(pat) :
           /\ PositionOK(pat, metadata, i) /\ StaysOf(g, kind, b, pat, subst, i)
           /\ PartValue(ct, val, home, pat, metadata, subst, pv, ph, i)
  PROVE  AppliedTo(ct, g, kind, val, home, n0, pat, pv, ph, b,
                   ApplyPat(g, pat, metadata, subst), Len(pat))
<1> DEFINE top == Len(pat)
           a == [eg |-> g, ids |-> <<>>]
           S == [eg : EGraphs, ids : Seq(Nat)]
           X == {w \in (0 .. top) \X S : AppliedTo(ct, g, kind, val, home, n0, pat, pv, ph, b, w[2], w[1])}
<1>2. \A k \in 0 .. top : \A x :
        AppliedTo(ct, g, kind, val, home, n0, pat, pv, ph, b, x, k) /\ x \in S <=> <<k, x>> \in X
  OBVIOUS
<1>3. <<0, a>> \in X
  <2>1. a.eg = g /\ a.ids = <<>> /\ 1 .. 0 = {} /\ 0 \in 0 .. top
    OBVIOUS
  <2>2. a \in S
    BY DEF Sound, IsEGraph
  <2>3. AppliedTo(ct, g, kind, val, home, n0, pat, pv, ph, b, a, 0)
    <3> HIDE DEF a
    <3>1. GrownLawful(ct, g, kind, val, home, n0, a.eg, kind, val, home)
      BY <2>1, GrowsReflexive, ExtendsReflexive DEF GrownLawful
    <3>2. InfosBut(a.eg, val, pat, a.ids, 0)
      BY <2>1 DEF InfosBut, TrueInfos
    <3>3. Valuation(pat, pv, ph, b, a, 0, kind, val, home)
      BY <2>1, <3>2 DEF Valuation
    <3>4. a.ids \in Seq(Nat) /\ Len(a.ids) = 0
      BY <2>1
    <3> QED
      BY <3>1, <3>3, <3>4 DEF AppliedTo
  <2> HIDE DEF X, S
  <2> QED
    BY <1>2, <2>1, <2>2, <2>3
<1>4. ASSUME NEW k \in 1 .. top, NEW x, <<k - 1, x>> \in X
      PROVE  <<k, PatStep(pat, metadata, subst, k, x)>> \in X
  <2>1. k - 1 \in 0 .. top /\ k \in 0 .. top /\ k \in Nat \ {0}
    OBVIOUS
  <2>2. AppliedTo(ct, g, kind, val, home, n0, pat, pv, ph, b, x, k - 1)
    BY <1>2, <1>4, <2>1
  <2> HIDE DEF X
  <2>3. PICK s : s = PatStep(pat, metadata, subst, k, x)
    OBVIOUS
  <2>4. AppliedTo(ct, g, kind, val, home, n0, pat, pv, ph, b, s, k)
    <3>1. PositionOK(pat, metadata, k) /\ StaysOf(g, kind, b, pat, subst, k)
          /\ PartValue(ct, val, home, pat, metadata, subst, pv, ph, k)
      OBVIOUS
    <3>2. CASE pat[k].var = ""
      BY <2>1, <2>2, <2>3, <3>1, <3>2, OpIsAppliedTo, Zenon DEF IsOperation
    <3>3. CASE pat[k].var # ""
      BY <2>1, <2>2, <2>3, <3>1, <3>3, VarIsAppliedTo, Zenon DEF IsOperation
    <3> QED
      BY <3>2, <3>3, Zenon
  <2>5. s \in S
    <3>1. s = [eg |-> s.eg, ids |-> s.ids]
      BY <2>3, Zenon DEF PatStep
    <3>2. s.ids \in Seq(Nat)
      BY <2>4 DEF AppliedTo
    <3>3. s.eg \in EGraphs
      <4>1. \E more : Sound(s.eg, more)
        BY <2>4 DEF AppliedTo, GrownLawful
      <4> QED
        BY <4>1 DEF Sound, IsEGraph
    <3> QED
      BY <3>1, <3>2, <3>3
  <2> QED
    BY <1>2, <2>1, <2>3, <2>4, <2>5
<1> HIDE DEF X
<1>5. <<top, ApplyPat(g, pat, metadata, subst)>> \in X
  BY <1>3, <1>4, ApplyPatStays
<1>6. top \in 0 .. top
  OBVIOUS
<1> QED
  BY <1>2, <1>5, <1>6

\* What an application may rely on: the tensors pv of the right-hand side,
\* the shapes it is given, and that its last is the tensor of the class cls.
Planned(ct, val, home, pat, metadata, shapes, subst, cls, pv, ph) ==
  /\ \A i \in 1 .. Len(pat) : PartValue(ct, val, home, pat, metadata, subst, pv, ph, i)
  /\ \A i \in 1 .. Len(pat) : IsOperation(pat, i) => i \in DOMAIN shapes
  /\ \A k \in DOMAIN shapes : shapes[k] = Info(pv[k].shape, pv[k].dtype)
  /\ val[cls] = pv[Len(pat)] /\ home[cls] = ph[Len(pat)]

\* The e-graph has grown, its e-nodes compute what their classes hold, and
\* its shapes and types are those of the tensors.
Keeps(ct, g, kind, val, home, n0, h) ==
  \E more, val2, home2 :
    GrownLawful(ct, g, kind, val, home, n0, h, more, val2, home2) /\ TrueInfos(h, val2)

LEMMA ShapesAreTrue ==
  ASSUME NEW f, NEW more, Sound(f, more), NEW ct, NEW val2, NEW home2, Lawful(ct, f, val2, home2),
         NEW n \in Nat, NEW pat, NEW ids, NEW b, NEW pv,
         \A k \in 1 .. n : ids[k] \in Ids(f) /\ val2[ids[k]] = pv[k],
         InfosBut(f, val2, pat, ids, n),
         NEW S, DOMAIN S \subseteq 1 .. n,
         \A k \in 1 .. n : IsOperation(pat, k) => k \in DOMAIN S,
         \A k \in DOMAIN S : S[k] = Info(pv[k].shape, pv[k].dtype),
         NEW h, h = WithShapes(f, ids, S)
  PROVE  TrueInfos(h, val2)
<1>1. f \in EGraphs /\ Len(f.info) = Len(f.uf)
  BY DEF Sound, IsEGraph
<1>2. Ids(f) = 1 .. Len(f.uf) /\ f.info \in Seq(Infos) /\ Len(f.uf) \in Nat /\ DOMAIN f.info = Ids(f)
  BY <1>1, EGraphFacts
<1> DEFINE at(cls) == {k \in DOMAIN S : Find(f, ids[k]) = cls}
           infos == [cls \in DOMAIN f.info |-> IF at(cls) = {} THEN f.info[cls]
                                               ELSE S[Max(at(cls))]]
<1>3. h = [f EXCEPT !.info = infos]
  BY <1>1 DEF WithShapes, EGraphs
<1>4. h.uf = f.uf /\ h.info = infos
  BY <1>1, <1>3 DEF EGraphs
<1>5. SUFFICES ASSUME NEW c \in Classes(f) PROVE TrueAt(h, val2, c)
  BY <1>4 DEF TrueInfos, Classes, Ids
<1>6. c \in Ids(f) /\ c \in DOMAIN f.info
  BY <1>2 DEF Classes
<1>7. CASE at(c) = {}
  <2>1. h.info[c] = f.info[c]
    BY <1>4, <1>6, <1>7
  <2>2. ~ \E k \in 1 .. n : pat[k].var = "" /\ ids[k] = c
    <3>1. SUFFICES ASSUME NEW k \in 1 .. n, pat[k].var = "", ids[k] = c PROVE FALSE
      BY Zenon
    <3>2. k \in DOMAIN S
      BY <3>1, Zenon DEF IsOperation
    <3>3. Find(f, ids[k]) = c
      BY <3>1, Zenon DEF Classes, Find
    <3> QED
      BY <1>7, <3>2, <3>3
  <2>3. TrueAt(f, val2, c)
    BY <2>2, Zenon DEF InfosBut
  <2> QED
    BY <2>1, <2>3 DEF TrueAt
<1>8. CASE at(c) # {}
  <2>1. at(c) \in SUBSET (0 .. n)
    OBVIOUS
  <2>2. Max(at(c)) \in at(c)
    <3> HIDE DEF at
    <3> QED
      BY <1>8, <2>1, MaxIsElement, Zenon
  <2>3. PICK k : k = Max(at(c)) /\ k \in DOMAIN S /\ Find(f, ids[k]) = c
    BY <2>2
  <2>4. h.info[c] = S[k]
    BY <1>4, <1>6, <1>8, <2>3
  <2>5. ids[k] \in Ids(f) /\ val2[ids[k]] = pv[k] /\ k \in 1 .. n
    BY <2>3
  <2>6. val2[c] = pv[k]
    BY <2>3, <2>5 DEF Lawful, ClassValue
  <2> QED
    BY <2>3, <2>4, <2>6 DEF TrueAt
<1> QED
  BY <1>7, <1>8

\* The e-graph that an application extends, applied to and then given shapes.
LEMMA ShapedHolds ==
  ASSUME NEW ct, NEW g, NEW kind, Sound(g, kind), NEW val, NEW home, Lawful(ct, g, val, home),
         NEW n0 \in Nat, Fresh(g, n0), TrueInfos(g, val), NEW b \in {"raw", "typed"},
         NEW pat, NEW metadata, NEW subst, NEW S, NEW pv, NEW ph, NEW cls \in Ids(g),
         NEW l \in Nat \ {0}, Len(pat) = l, DOMAIN S \subseteq 1 .. l, Shapes(S, b),
         Planned(ct, val, home, pat, metadata, S, subst, cls, pv, ph),
         kind[cls] = b, cls <= n0,
         NEW made, AppliedTo(ct, g, kind, val, home, n0, pat, pv, ph, b, made, l)
  PROVE  Keeps(ct, g, kind, val, home, n0,
               Union(WithShapes(made.eg, made.ids, S), cls, made.ids[Len(made.ids)]))
<1>1. PICK more, val2, home2 :
        /\ GrownLawful(ct, g, kind, val, home, n0, made.eg, more, val2, home2)
        /\ Valuation(pat, pv, ph, b, made, l, more, val2, home2)
  BY DEF AppliedTo
<1>2. PICK f : f = made.eg
  OBVIOUS
<1>3. PICK ids : ids = made.ids
  OBVIOUS
<1>4. PICK h : h = WithShapes(f, ids, S)
  OBVIOUS
<1>5. Len(ids) = l
  BY <1>3 DEF AppliedTo
<1>6. Sound(f, more) /\ Grows(g, kind, f, more) /\ Lawful(ct, f, val2, home2) /\ Fresh(f, n0)
      /\ Extends(val2, val, Len(g.uf)) /\ Extends(home2, home, Len(g.uf))
  BY <1>1, <1>2, Zenon DEF GrownLawful
<1>7. /\ \A k \in 1 .. l : ids[k] \in Ids(f) /\ more[ids[k]] = b /\ val2[ids[k]] = pv[k] /\ home2[ids[k]] = ph[k]
      /\ InfosBut(f, val2, pat, ids, l)
  BY <1>1, <1>2, <1>3, Zenon DEF Valuation, PartHolds
<1>8. Retyped(f, more, h)
  <2>1. \A k \in 1 .. l : ids[k] \in Ids(f) /\ more[ids[k]] = b
    BY <1>7
  <2>2. l \in Nat
    OBVIOUS
  <2> QED
    BY <1>4, <1>6, <2>1, <2>2, WithShapesRetypes, Zenon
<1>9. Sound(h, more) /\ h.uf = f.uf /\ Grows(f, more, h, more)
  BY <1>8 DEF Retyped
<1>10. h.nodes = f.nodes
  BY <1>4, <1>6 DEF WithShapes, Sound, IsEGraph, EGraphs
<1>11. Lawful(ct, h, val2, home2) /\ Fresh(h, n0)
  BY <1>6, <1>9, <1>10, RetypedIsLawful
<1>12. TrueInfos(h, val2)
  <2>1. \A k \in 1 .. l : ids[k] \in Ids(f) /\ val2[ids[k]] = pv[k]
    BY <1>7
  <2>2. \A k \in 1 .. l : IsOperation(pat, k) => k \in DOMAIN S
    BY DEF Planned
  <2>3. \A k \in DOMAIN S : S[k] = Info(pv[k].shape, pv[k].dtype)
    BY DEF Planned
  <2>4. l \in Nat
    OBVIOUS
  <2> QED
    BY <1>4, <1>6, <1>7, <2>1, <2>2, <2>3, <2>4, ShapesAreTrue
<1>13. Grows(g, kind, h, more)
  BY <1>6, <1>9, GrowsTransitive, Zenon
<1>14. PICK last : last = ids[Len(ids)]
  OBVIOUS
<1>15. last \in Ids(h) /\ more[last] = b /\ val2[last] = pv[l] /\ home2[last] = ph[l]
  <2>1. l \in 1 .. l
    OBVIOUS
  <2>2. Ids(h) = Ids(f)
    BY <1>9 DEF Ids
  <2> QED
    BY <1>5, <1>7, <1>14, <2>1, <2>2
<1>16. cls \in Ids(h) /\ more[cls] = b /\ cls \in 1 .. Len(g.uf)
  <2>1. g \in EGraphs /\ h \in EGraphs
    BY <1>9, Zenon DEF Sound, IsEGraph
  <2>2. Ids(g) = 1 .. Len(g.uf) /\ Ids(h) = 1 .. Len(h.uf) /\ Len(g.uf) \in Nat /\ Len(h.uf) \in Nat
    BY <2>1, EGraphFacts
  <2> QED
    BY <1>13, <2>2 DEF Grows
<1>17. val2[cls] = val2[last] /\ home2[cls] = home2[last]
  <2>1. val2[cls] = val[cls] /\ home2[cls] = home[cls]
    BY <1>6, <1>16 DEF Extends
  <2>2. val[cls] = pv[l] /\ home[cls] = ph[l]
    BY DEF Planned
  <2> QED
    BY <1>15, <2>1, <2>2
<1>18. PICK u : u = Union(h, cls, last)
  OBVIOUS
<1>19. Sound(u, more) /\ Grows(h, more, u, more)
  <2>1. more[cls] = more[last] /\ more[cls] # "input"
    BY <1>15, <1>16
  <2> QED
    BY <1>9, <1>15, <1>16, <1>18, <2>1, UnionIsSound, Zenon
<1>20. Unites(ct, h, u, val2, home2, n0)
  BY <1>9, <1>11, <1>15, <1>16, <1>17, <1>18, UnionIsLawful
<1>21. Grows(g, kind, u, more)
  BY <1>9, <1>13, <1>19, GrowsTransitive, Zenon
<1>22. TrueInfos(u, val2) /\ Lawful(ct, u, val2, home2) /\ Fresh(u, n0)
  BY <1>12, <1>20 DEF Unites
<1>23. GrownLawful(ct, g, kind, val, home, n0, u, more, val2, home2)
  BY <1>6, <1>19, <1>21, <1>22 DEF GrownLawful
<1>24. Keeps(ct, g, kind, val, home, n0, u)
  BY <1>22, <1>23 DEF Keeps
<1> QED
  BY <1>2, <1>3, <1>4, <1>14, <1>18, <1>24

\* One match: if the right-hand side is planned, the e-graph it leaves holds.
LEMMA ApplyMatchHolds ==
  ASSUME NEW ct, NEW g, NEW kind, Sound(g, kind), NEW val, NEW home, Lawful(ct, g, val, home),
         NEW n0 \in Nat, Fresh(g, n0), TrueInfos(g, val),
         NEW rule, NEW n, NEW m, NEW cls, NEW subst,
         SubstOK(g, kind, rule, cls, subst), MatchOf(g, kind, rule, n, m, cls), cls <= n0,
         NEW t, t = InfosOf(g, m.ids), Precond(rule, g, m.ids, t),
         NEW pv, NEW ph,
         Planned(ct, val, home, Rhs(rule), Metadata(rule, t, m.ens), SetShapes(rule, t), subst, cls, pv, ph)
  PROVE  Keeps(ct, g, kind, val, home, n0, ApplyMatch(g, rule, cls, subst, m))
<1>1. PICK pat : pat = Rhs(rule)
  OBVIOUS
<1>2. PICK M : M = Metadata(rule, t, m.ens)
  OBVIOUS
<1>3. PICK S : S = SetShapes(rule, t)
  OBVIOUS
<1>4. PICK made : made = ApplyPat(g, pat, M, subst)
  OBVIOUS
<1>5. ApplyMatch(g, rule, cls, subst, m) = Union(WithShapes(made.eg, made.ids, S), cls, made.ids[Len(made.ids)])
  BY <1>1, <1>2, <1>3, <1>4, Zenon DEF ApplyMatch
<1>6. rule \in Rules /\ cls \in Ids(g)
  BY Zenon DEF SubstOK
<1>7. Allowed(rule, t, m.ens)
  BY <1>6, MatchIsAllowed, Zenon
<1>8. MatchKind(kind, rule, cls)
  BY KindOfMatch, Zenon
<1>9. PICK b : b = kind[cls]
  OBVIOUS
<1>10. b \in {"raw", "typed"} /\ (b = "raw" => rule = 3) /\ kind[cls] = b
  BY <1>8, <1>9, Zenon DEF MatchKind
<1>11. PICK l : RhsFacts(rule, pat, M, l)
  BY <1>1, <1>2, <1>6, <1>7, RhsIsOK, Zenon
<1>12. l \in Nat \ {0} /\ Len(pat) = l /\ Len(pat) \in Nat
  BY <1>11 DEF RhsFacts
<1>13. Planned(ct, val, home, pat, M, S, subst, cls, pv, ph)
  BY <1>1, <1>2, <1>3
<1>14. \A i \in 1 .. Len(pat) :
         /\ PositionOK(pat, M, i) /\ StaysOf(g, kind, b, pat, subst, i)
         /\ PartValue(ct, val, home, pat, M, subst, pv, ph, i)
  <2>1. ASSUME NEW i \in 1 .. Len(pat) PROVE PositionOK(pat, M, i) /\ RightPart(rule, pat, i)
    BY <1>11, <1>12, Zenon DEF RhsFacts
  <2>2. ASSUME NEW i \in 1 .. Len(pat) PROVE StaysOf(g, kind, b, pat, subst, i)
    BY <1>10, <2>1, PartStays, Zenon
  <2>3. ASSUME NEW i \in 1 .. Len(pat) PROVE PartValue(ct, val, home, pat, M, subst, pv, ph, i)
    BY <1>13, Zenon DEF Planned
  <2> QED
    BY <2>1, <2>2, <2>3, Zenon
<1>15. AppliedTo(ct, g, kind, val, home, n0, pat, pv, ph, b, made, l)
  <2>1. AppliedTo(ct, g, kind, val, home, n0, pat, pv, ph, b, made, Len(pat))
    BY <1>4, <1>10, <1>12, <1>14, ApplyPatHolds, Zenon
  <2> QED
    BY <1>12, <2>1
<1>16. Shapes(S, b) /\ DOMAIN S \subseteq 1 .. l
  BY <1>1, <1>3, <1>6, <1>7, <1>10, <1>12, SetShapesFit, Zenon
<1>17. Keeps(ct, g, kind, val, home, n0,
             Union(WithShapes(made.eg, made.ids, S), cls, made.ids[Len(made.ids)]))
  BY <1>6, <1>10, <1>12, <1>13, <1>15, <1>16, ShapedHolds, Zenon
<1> QED
  BY <1>5, <1>17

-----------------------------------------------------------------------------
(* What the right-hand side of each rule makes of the tensors it is given. *)

BoundAt(val, home, pat, subst, pv, ph, i, name) ==
  /\ pat[i] = V(name) /\ name \in {"x", "y"}
  /\ pv[i] = val[subst[name]] /\ ph[i] = home[subst[name]]

\* A position of a right-hand side that is a variable.
LEMMA VarValued ==
  ASSUME NEW ct, NEW val, NEW home, NEW pat, NEW metadata, NEW subst, NEW pv, NEW ph, NEW i,
         NEW name, BoundAt(val, home, pat, subst, pv, ph, i, name)
  PROVE  PartValue(ct, val, home, pat, metadata, subst, pv, ph, i) /\ ~IsOperation(pat, i)
<1>1. pat[i].var = name /\ name \in {"x", "y"}
  BY Parts, Zenon DEF BoundAt
<1>2. pat[i].var # ""
  BY <1>1, Zenon
<1>3. pv[i] = val[subst[name]] /\ ph[i] = home[subst[name]]
  BY Zenon DEF BoundAt
<1> QED
  BY <1>1, <1>2, <1>3, Zenon DEF PartValue, IsOperation

LEMMA OperationIs ==
  \A op, kids : N(op, kids).var = "" /\ N(op, kids).op = op /\ N(op, kids).kids = kids
BY DEF N

\* ... and one that is an operation.
LEMMA OpValued ==
  ASSUME NEW ct, NEW val, NEW home, NEW pat, NEW metadata, NEW subst, NEW pv, NEW ph, NEW i,
         NEW op, NEW kids, pat[i] = N(op, kids),
         NEW en, en = ENode(op, metadata[i].text, metadata[i].data, kids),
         IsTensor(pv[i], ph[i]), Law(ct, en, Of(pv, en), Of(ph, en), pv[i], ph[i])
  PROVE  PartValue(ct, val, home, pat, metadata, subst, pv, ph, i)
<1>1. pat[i].var = "" /\ pat[i].op = op /\ pat[i].kids = kids
  <2>1. N(op, kids).var = "" /\ N(op, kids).op = op /\ N(op, kids).kids = kids
    BY OperationIs, Zenon
  <2>2. pat[i] = N(op, kids)
    OBVIOUS
  <2> QED
    BY <2>1, <2>2, Zenon
<1>2. PatNode(pat, metadata, i) = en
  BY <1>1, Zenon DEF PatNode
<1> QED
  BY <1>1, <1>2, Zenon DEF PartValue

LEMMA NodeParts ==
  ASSUME NEW op, NEW text, NEW data, NEW kids, NEW en, en = ENode(op, text, data, kids)
  PROVE  en.op = op /\ en.text = text /\ en.data = data /\ en.kids = kids
BY DEF ENode

LEMMA StringsAre ==
  /\ \A data : List(data).data = data
  /\ \A text : Str(text).text = text
BY Zenon DEF List, Str

LEMMA OfOne ==
  ASSUME NEW f, NEW en, NEW k, en.kids = <<k>>
  PROVE  Of(f, en)[1] = f[k]
BY DEF Of

LEMMA OfTwo ==
  ASSUME NEW f, NEW en, NEW j, NEW k, en.kids = <<j, k>>
  PROVE  Of(f, en)[1] = f[j] /\ Of(f, en)[2] = f[k]
BY DEF Of

\* The laws of the operations that right-hand sides are made of.
LEMMA LawsHold ==
  ASSUME NEW ct, NEW en, NEW kv, NEW kh, NEW v, NEW h
  PROVE  /\ en.op = "reshape" /\ v = Reshape(kv[1], en.data) /\ h = kh[1] => Law(ct, en, kv, kh, v, h)
         /\ en.op = "slice" /\ v = Slice(kv[1], en.data, 1) /\ h = kh[1] => Law(ct, en, kv, kh, v, h)
         /\ en.op = "copy" /\ v = kv[1] /\ h = kh[1] => Law(ct, en, kv, kh, v, h)
         /\ en.op = "dot" /\ v = Dot(kv[1], kv[2]) /\ h = kh[1] => Law(ct, en, kv, kh, v, h)
         /\ en.op = "add" /\ v = Binary("add", kv[1], kv[2]) /\ h = kh[1] => Law(ct, en, kv, kh, v, h)
         /\ en.op = "convert" /\ v = Convert(kv[1], DtypeOf(en.text)) /\ h = DtypeOf(en.text) =>
              Law(ct, en, kv, kh, v, h)
         /\ en.op = "eye" /\ v = Eye(en.data[1], en.text) /\ h = en.text => Law(ct, en, kv, kh, v, h)
         /\ en.op = "bitcvt" /\ v = Bitcast(kv[1], v.dtype) /\ h = kh[1]
              /\ v.dtype = (IF kv[1].dtype = "U8" THEN h ELSE "U8") => Law(ct, en, kv, kh, v, h)
<1> DEFINE info == Info(v.shape, v.dtype)
<1>1. info.dtype = v.dtype
  BY DEF Info
<1> HIDE DEF info
<1>2. "add" \in BinaryOps
  BY DEF BinaryOps
<1>3. ASSUME en.op \in {"reshape", "slice", "copy", "dot", "add"}, v = Computes(en, kv, info), h = kh[1]
      PROVE  Law(ct, en, kv, kh, v, h)
  BY <1>3 DEF Law, info
<1>4. ASSUME en.op = "convert", v = Computes(en, kv, info), h = DtypeOf(en.text)
      PROVE  Law(ct, en, kv, kh, v, h)
  BY <1>4 DEF Law, info
<1>5. ASSUME en.op = "eye", v = Computes(en, kv, info), h = en.text
      PROVE  Law(ct, en, kv, kh, v, h)
  BY <1>5 DEF Law, info
<1>6. ASSUME en.op = "bitcvt", v = Computes(en, kv, info), h = kh[1],
             v.dtype = IF kv[1].dtype = "U8" THEN h ELSE "U8"
      PROVE  Law(ct, en, kv, kh, v, h)
  BY <1>6 DEF Law, info
<1>7. /\ en.op = "reshape" => Computes(en, kv, info) = Reshape(kv[1], en.data)
      /\ en.op = "slice" => Computes(en, kv, info) = Slice(kv[1], en.data, 1)
  BY ComputesShapes
<1>8. /\ en.op = "copy" => Computes(en, kv, info) = kv[1]
      /\ en.op = "dot" => Computes(en, kv, info) = Dot(kv[1], kv[2])
      /\ en.op = "add" => Computes(en, kv, info) = Binary("add", kv[1], kv[2])
      /\ en.op = "convert" => Computes(en, kv, info) = Convert(kv[1], DtypeOf(en.text))
      /\ en.op = "eye" => Computes(en, kv, info) = Eye(en.data[1], en.text)
  BY <1>2, ComputesElements
<1>9. en.op = "bitcvt" => Computes(en, kv, info) = Bitcast(kv[1], v.dtype)
  BY <1>1, ComputesTyped, Zenon
<1> QED
  BY <1>3, <1>4, <1>5, <1>6, <1>7, <1>8, <1>9

FromOne(pat, metadata, pv, ph, i, op, k) ==
  /\ pat[i] = N(op, <<k>>) /\ IsTensor(pv[i], ph[i])
  /\ \/ op = "reshape" /\ pv[i] = Reshape(pv[k], metadata[i].data) /\ ph[i] = ph[k]
     \/ op = "slice" /\ pv[i] = Slice(pv[k], metadata[i].data, 1) /\ ph[i] = ph[k]
     \/ op = "copy" /\ pv[i] = pv[k] /\ ph[i] = ph[k]
     \/ op = "convert" /\ pv[i] = Convert(pv[k], DtypeOf(metadata[i].text))
                       /\ ph[i] = DtypeOf(metadata[i].text)
     \/ op = "bitcvt" /\ pv[i] = Bitcast(pv[k], pv[i].dtype) /\ ph[i] = ph[k]
                      /\ pv[i].dtype = IF pv[k].dtype = "U8" THEN ph[i] ELSE "U8"

FromTwo(pat, pv, ph, i, op, j, k) ==
  /\ pat[i] = N(op, <<j, k>>) /\ IsTensor(pv[i], ph[i]) /\ ph[i] = ph[j]
  /\ \/ op = "dot" /\ pv[i] = Dot(pv[j], pv[k])
     \/ op = "add" /\ pv[i] = Binary("add", pv[j], pv[k])

\* One operation with one operand, and with two.
LEMMA OneValued ==
  ASSUME NEW ct, NEW val, NEW home, NEW pat, NEW metadata, NEW subst, NEW pv, NEW ph, NEW i,
         NEW op, NEW k, FromOne(pat, metadata, pv, ph, i, op, k)
  PROVE  PartValue(ct, val, home, pat, metadata, subst, pv, ph, i)
<1>1. PICK en : en = ENode(op, metadata[i].text, metadata[i].data, <<k>>)
  OBVIOUS
<1>2. en.op = op /\ en.text = metadata[i].text /\ en.data = metadata[i].data /\ en.kids = <<k>>
  BY <1>1, NodeParts
<1>3. Of(pv, en)[1] = pv[k] /\ Of(ph, en)[1] = ph[k]
  BY <1>2, OfOne
<1>4. PICK kv, kh, v, h : kv = Of(pv, en) /\ kh = Of(ph, en) /\ v = pv[i] /\ h = ph[i]
  OBVIOUS
<1>5. Law(ct, en, kv, kh, v, h)
  BY <1>2, <1>3, <1>4, LawsHold DEF FromOne
<1>6. Law(ct, en, Of(pv, en), Of(ph, en), pv[i], ph[i])
  BY <1>4, <1>5
<1> QED
  BY <1>1, <1>6, OpValued, Zenon DEF FromOne

LEMMA TwoValued ==
  ASSUME NEW ct, NEW val, NEW home, NEW pat, NEW metadata, NEW subst, NEW pv, NEW ph, NEW i,
         NEW op, NEW j, NEW k, FromTwo(pat, pv, ph, i, op, j, k)
  PROVE  PartValue(ct, val, home, pat, metadata, subst, pv, ph, i)
<1>1. PICK en : en = ENode(op, metadata[i].text, metadata[i].data, <<j, k>>)
  OBVIOUS
<1>2. en.op = op /\ en.kids = <<j, k>>
  BY <1>1, NodeParts
<1>3. Of(pv, en)[1] = pv[j] /\ Of(ph, en)[1] = ph[j] /\ Of(pv, en)[2] = pv[k]
  BY <1>2, OfTwo
<1>4. PICK kv, kh, v, h : kv = Of(pv, en) /\ kh = Of(ph, en) /\ v = pv[i] /\ h = ph[i]
  OBVIOUS
<1>5. Law(ct, en, kv, kh, v, h)
  BY <1>2, <1>3, <1>4, LawsHold, Zenon DEF FromTwo
<1>6. Law(ct, en, Of(pv, en), Of(ph, en), pv[i], ph[i])
  BY <1>4, <1>5
<1> QED
  BY <1>1, <1>6, OpValued, Zenon DEF FromTwo

LEMMA EyeValued ==
  ASSUME NEW ct, NEW val, NEW home, NEW pat, NEW metadata, NEW subst, NEW pv, NEW ph, NEW i,
         pat[i] = N("eye", <<>>), IsTensor(pv[i], ph[i]), ph[i] = metadata[i].text,
         pv[i] = Eye(metadata[i].data[1], metadata[i].text)
  PROVE  PartValue(ct, val, home, pat, metadata, subst, pv, ph, i)
<1>1. PICK en : en = ENode("eye", metadata[i].text, metadata[i].data, <<>>)
  OBVIOUS
<1>2. en.op = "eye" /\ en.text = metadata[i].text /\ en.data = metadata[i].data
  BY <1>1, NodeParts
<1>3. PICK kv, kh, v, h : kv = Of(pv, en) /\ kh = Of(ph, en) /\ v = pv[i] /\ h = ph[i]
  OBVIOUS
<1>4. Law(ct, en, kv, kh, v, h)
  BY <1>2, <1>3, LawsHold, Zenon
<1>5. Law(ct, en, Of(pv, en), Of(ph, en), pv[i], ph[i])
  BY <1>3, <1>4
<1> QED
  BY <1>1, <1>5, OpValued, Zenon

-----------------------------------------------------------------------------

IsVar(val, home, subst, name, x, h) == val[subst[name]] = x /\ home[subst[name]] = h

IsPlan(ct, val, home, rule, t, ens, subst, cls, pv, ph) ==
  Planned(ct, val, home, Rhs(rule), Metadata(rule, t, ens), SetShapes(rule, t), subst, cls, pv, ph)

TypeIs(info, v) == info = Info(v.shape, v.dtype)

\* A copy of the tensor.
LEMMA PlanOf7 ==
  ASSUME NEW ct, NEW val, NEW home, NEW t, NEW ens, NEW subst, NEW cls, NEW x, NEW h,
         IsTensor(x, h), IsVar(val, home, subst, "x", x, h), val[cls] = x, home[cls] = h, TypeIs(t[1], x)
  PROVE  \E pv, ph : IsPlan(ct, val, home, 7, t, ens, subst, cls, pv, ph)
<1>1. PICK pat : pat = Rhs(7)
  OBVIOUS
<1>2. PICK M : M = Metadata(7, t, ens)
  OBVIOUS
<1>3. PICK S : S = SetShapes(7, t)
  OBVIOUS
<1>4. Len(pat) = 2 /\ pat[1] = V("x") /\ pat[2] = N("copy", <<1>>)
  BY <1>1 DEF Rhs
<1>5. DOMAIN S = {2} /\ S[2] = t[1]
  BY <1>3 DEF SetShapes, SetShapes_7
<1>6. PICK pv : pv = <<x, x>>
  BY Zenon
<1>7. PICK ph : ph = <<h, h>>
  BY Zenon
<1>8. pv[1] = x /\ pv[2] = x /\ ph[1] = h /\ ph[2] = h
  BY <1>6, <1>7
<1>9. PartValue(ct, val, home, pat, M, subst, pv, ph, 1) /\ ~IsOperation(pat, 1)
  <2>1. BoundAt(val, home, pat, subst, pv, ph, 1, "x")
    BY <1>4, <1>8 DEF BoundAt, IsVar
  <2> QED
    BY <2>1, VarValued, Zenon
<1>10. PartValue(ct, val, home, pat, M, subst, pv, ph, 2)
  <2>1. FromOne(pat, M, pv, ph, 2, "copy", 1)
    BY <1>4, <1>8 DEF FromOne
  <2> QED
    BY <2>1, OneValued, Zenon
<1>11. \A i \in 1 .. 2 : i = 1 \/ i = 2
  OBVIOUS
<1>12. Planned(ct, val, home, pat, M, S, subst, cls, pv, ph)
  BY <1>4, <1>5, <1>8, <1>9, <1>10, <1>11 DEF Planned, TypeIs
<1> QED
  BY <1>1, <1>2, <1>3, <1>12 DEF IsPlan

\* Flat and back.
LEMMA PlanOf3 ==
  ASSUME NEW ct, NEW val, NEW home, NEW t, NEW ens, NEW subst, NEW cls, NEW x, NEW h,
         IsTensor(x, h), IsVar(val, home, subst, "x", x, h), val[cls] = x, home[cls] = h, TypeIs(t[1], x)
  PROVE  \E pv, ph : IsPlan(ct, val, home, 3, t, ens, subst, cls, pv, ph)
<1>1. PICK pat : pat = Rhs(3)
  OBVIOUS
<1>2. PICK M : M = Metadata(3, t, ens)
  OBVIOUS
<1>3. PICK S : S = SetShapes(3, t)
  OBVIOUS
<1>4. Len(pat) = 3 /\ pat[1] = V("x") /\ pat[2] = N("reshape", <<1>>) /\ pat[3] = N("reshape", <<2>>)
  BY <1>1 DEF Rhs
<1>5. DOMAIN S = {2, 3} /\ S[2] = Info(<<Product(t[1].shape)>>, t[1].dtype) /\ S[3] = t[1]
  BY <1>3 DEF SetShapes, SetShapes_3
<1>6. t[1].shape = x.shape /\ t[1].dtype = x.dtype
  BY DEF TypeIs, Info
<1>7. M[2].data = <<Product(x.shape)>> /\ M[3].data = x.shape
  <2>1. M = <<None, List(<<Product(t[1].shape)>>), List(t[1].shape)>>
    BY <1>2 DEF Metadata, Metadata_3
  <2>2. M[2] = List(<<Product(t[1].shape)>>) /\ M[3] = List(t[1].shape)
    BY <2>1
  <2> QED
    BY <1>6, <2>2, StringsAre, Zenon
<1>8. PICK f : f = Reshape(x, <<Product(x.shape)>>)
  OBVIOUS
<1>9. /\ IsTensor(f, h) /\ f.shape = <<Product(x.shape)>> /\ f.dtype = x.dtype
      /\ Reshape(f, x.shape) = x
  BY <1>8, FlatAndBack
<1>10. PICK pv : pv = <<x, f, x>>
  BY Zenon
<1>11. PICK ph : ph = <<h, h, h>>
  BY Zenon
<1>12. pv[1] = x /\ pv[2] = f /\ pv[3] = x /\ ph[1] = h /\ ph[2] = h /\ ph[3] = h
  BY <1>10, <1>11
<1>13. PartValue(ct, val, home, pat, M, subst, pv, ph, 1) /\ ~IsOperation(pat, 1)
  <2>1. BoundAt(val, home, pat, subst, pv, ph, 1, "x")
    BY <1>4, <1>12 DEF BoundAt, IsVar
  <2> QED
    BY <2>1, VarValued, Zenon
<1>14. PartValue(ct, val, home, pat, M, subst, pv, ph, 2)
  <2>1. FromOne(pat, M, pv, ph, 2, "reshape", 1)
    BY <1>4, <1>7, <1>8, <1>9, <1>12 DEF FromOne
  <2> QED
    BY <2>1, OneValued, Zenon
<1>15. PartValue(ct, val, home, pat, M, subst, pv, ph, 3)
  <2>1. FromOne(pat, M, pv, ph, 3, "reshape", 2)
    BY <1>4, <1>7, <1>9, <1>12 DEF FromOne
  <2> QED
    BY <2>1, OneValued, Zenon
<1>16. \A i \in 1 .. 3 : i = 1 \/ i = 2 \/ i = 3
  OBVIOUS
<1>17. Planned(ct, val, home, pat, M, S, subst, cls, pv, ph)
  BY <1>4, <1>5, <1>6, <1>9, <1>12, <1>13, <1>14, <1>15, <1>16 DEF Planned, TypeIs
<1> QED
  BY <1>1, <1>2, <1>3, <1>17 DEF IsPlan

\* What a rule takes for its variable.
LEMMA PlanOfVar ==
  ASSUME NEW ct, NEW val, NEW home, NEW t, NEW ens, NEW subst, NEW cls, NEW x, NEW h,
         NEW rule \in {6, 8, 9, 10},
         IsTensor(x, h), IsVar(val, home, subst, "x", x, h), val[cls] = x, home[cls] = h
  PROVE  \E pv, ph : IsPlan(ct, val, home, rule, t, ens, subst, cls, pv, ph)
<1>1. PICK pat : pat = Rhs(rule)
  OBVIOUS
<1>2. PICK M : M = Metadata(rule, t, ens)
  OBVIOUS
<1>3. PICK S : S = SetShapes(rule, t)
  OBVIOUS
<1>4. Len(pat) = 1 /\ pat[1] = V("x")
  BY <1>1 DEF Rhs
<1>5. DOMAIN S = {}
  BY <1>3 DEF SetShapes
<1>6. PICK pv : pv = <<x>>
  BY Zenon
<1>7. PICK ph : ph = <<h>>
  BY Zenon
<1>8. pv[1] = x /\ ph[1] = h
  BY <1>6, <1>7
<1>9. PartValue(ct, val, home, pat, M, subst, pv, ph, 1) /\ ~IsOperation(pat, 1)
  <2>1. BoundAt(val, home, pat, subst, pv, ph, 1, "x")
    BY <1>4, <1>8 DEF BoundAt, IsVar
  <2> QED
    BY <2>1, VarValued, Zenon
<1>10. \A i \in 1 .. 1 : i = 1
  OBVIOUS
<1>11. Planned(ct, val, home, pat, M, S, subst, cls, pv, ph)
  BY <1>4, <1>5, <1>8, <1>9, <1>10 DEF Planned
<1> QED
  BY <1>1, <1>2, <1>3, <1>11 DEF IsPlan

\* The product with the unit matrix.
LEMMA PlanOf2 ==
  ASSUME NEW ct, NEW val, NEW home, NEW t, NEW ens, NEW subst, NEW cls, NEW x, NEW h,
         IsTensor(x, h), IsVar(val, home, subst, "x", x, h), val[cls] = x, home[cls] = h, TypeIs(t[1], x),
         Precond_2(t)
  PROVE  \E pv, ph : IsPlan(ct, val, home, 2, t, ens, subst, cls, pv, ph)
<1>1. PICK pat : pat = Rhs(2)
  OBVIOUS
<1>2. PICK M : M = Metadata(2, t, ens)
  OBVIOUS
<1>3. PICK S : S = SetShapes(2, t)
  OBVIOUS
<1>4. Len(pat) = 3 /\ pat[1] = V("x") /\ pat[2] = N("eye", <<>>) /\ pat[3] = N("dot", <<1, 2>>)
  BY <1>1 DEF Rhs
<1>5. DOMAIN S = {2, 3} /\ S[2] = t[1] /\ S[3] = t[1]
  BY <1>3 DEF SetShapes, SetShapes_2
<1>6. t[1] = Info(<<Side, Side>>, "I8") /\ t[1].shape = <<Side, Side>> /\ t[1].dtype = "I8"
  BY DEF Precond_2, Info
<1>7. x.shape = <<Side, Side>> /\ x.dtype = "I8" /\ h = "I8" /\ Side \in Pos
  BY <1>6, SideAssumption DEF TypeIs, Info, IsTensor, Pos
<1>8. M[2].text = "I8" /\ M[2].data = <<Side, Side>>
  <2>1. M = <<None, [text |-> t[1].dtype, data |-> t[1].shape], None>>
    BY <1>2 DEF Metadata, Metadata_2
  <2>2. M[2] = [text |-> t[1].dtype, data |-> t[1].shape]
    BY <2>1
  <2> QED
    BY <1>6, <2>2
<1>9. PICK e : e = Eye(Side, "I8")
  OBVIOUS
<1>10. IsTensor(e, "I8") /\ e.shape = <<Side, Side>> /\ e.dtype = "I8" /\ Dot(x, e) = x
  <2>1. h \in {"I8"} /\ x.dtype = h /\ e = Eye(Side, h)
    BY <1>7, <1>9
  <2>2. IsTensor(e, h) /\ e.shape = <<Side, Side>> /\ e.dtype = h /\ Dot(x, e) = x
    BY <1>7, <2>1, DotWithEye
  <2> QED
    BY <1>7, <2>2
<1>11. PICK pv : pv = <<x, e, x>>
  BY Zenon
<1>12. PICK ph : ph = <<"I8", "I8", "I8">>
  BY Zenon
<1>13. pv[1] = x /\ pv[2] = e /\ pv[3] = x /\ ph[1] = "I8" /\ ph[2] = "I8" /\ ph[3] = "I8"
  BY <1>11, <1>12
<1>14. PartValue(ct, val, home, pat, M, subst, pv, ph, 1) /\ ~IsOperation(pat, 1)
  <2>1. BoundAt(val, home, pat, subst, pv, ph, 1, "x")
    BY <1>4, <1>7, <1>13 DEF BoundAt, IsVar
  <2> QED
    BY <2>1, VarValued, Zenon
<1>15. PartValue(ct, val, home, pat, M, subst, pv, ph, 2)
  <2>1. M[2].data[1] = Side
    BY <1>8
  <2>2. pat[2] = N("eye", <<>>) /\ IsTensor(pv[2], ph[2]) /\ ph[2] = M[2].text
        /\ pv[2] = Eye(M[2].data[1], M[2].text)
    BY <1>4, <1>8, <1>9, <1>10, <1>13, <2>1
  <2> QED
    BY <2>2, EyeValued, Zenon
<1>16. PartValue(ct, val, home, pat, M, subst, pv, ph, 3)
  <2>1. FromTwo(pat, pv, ph, 3, "dot", 1, 2)
    BY <1>4, <1>7, <1>10, <1>13 DEF FromTwo
  <2> QED
    BY <2>1, TwoValued, Zenon
<1>17. \A i \in 1 .. 3 : i = 1 \/ i = 2 \/ i = 3
  OBVIOUS
<1>18. S[2] = Info(pv[2].shape, pv[2].dtype) /\ S[3] = Info(pv[3].shape, pv[3].dtype)
  BY <1>5, <1>6, <1>7, <1>10, <1>13
<1>19. Planned(ct, val, home, pat, M, S, subst, cls, pv, ph)
  BY <1>4, <1>5, <1>7, <1>13, <1>14, <1>15, <1>16, <1>17, <1>18 DEF Planned
<1> QED
  BY <1>1, <1>2, <1>3, <1>19 DEF IsPlan

\* To bytes and back.
LEMMA PlanOf4 ==
  ASSUME NEW ct, NEW val, NEW home, NEW t, NEW ens, NEW subst, NEW cls, NEW x, NEW h,
         IsTensor(x, h), IsVar(val, home, subst, "x", x, h), val[cls] = x, home[cls] = h, TypeIs(t[1], x),
         Precond_4(t)
  PROVE  \E pv, ph : IsPlan(ct, val, home, 4, t, ens, subst, cls, pv, ph)
<1>1. PICK pat : pat = Rhs(4)
  OBVIOUS
<1>2. PICK M : M = Metadata(4, t, ens)
  OBVIOUS
<1>3. PICK S : S = SetShapes(4, t)
  OBVIOUS
<1>4. Len(pat) = 3 /\ pat[1] = V("x") /\ pat[2] = N("bitcvt", <<1>>) /\ pat[3] = N("bitcvt", <<2>>)
  BY <1>1 DEF Rhs
<1>5. t[1].shape = x.shape /\ t[1].dtype = x.dtype /\ t[1].dtype # "U8"
  BY DEF TypeIs, Info, Precond_4
<1>6. x.dtype = h /\ h \in Dtypes /\ IsShapePos(x.shape)
  BY <1>5 DEF IsTensor
<1>7. DOMAIN S = {2, 3} /\ S[2] = Info(WithSize(x.shape, h), "U8") /\ S[3] = t[1]
  <2>1. S = SetShapes_4(t)
    BY <1>3 DEF SetShapes
  <2>2. PICK s : s = IF SizeInBytes(t[1].dtype) = 1 THEN t[1].shape ELSE Append(t[1].shape, SizeInBytes(t[1].dtype))
    BY Zenon
  <2>3. S = [k \in {2, 3} |-> IF k = 2 THEN Info(s, "U8") ELSE t[1]]
    BY <2>1, <2>2 DEF SetShapes_4
  <2>4. s = WithSize(x.shape, h)
    BY <1>5, <1>6, <2>2, WithSizeIs, Zenon
  <2> QED
    BY <2>3, <2>4
<1>8. PICK b : b = Bitcast(x, "U8")
  OBVIOUS
<1>9. IsTensor(b, h) /\ b.shape = WithSize(x.shape, h) /\ b.dtype = "U8"
  BY <1>6, <1>8, BytesAre
<1>10. Bitcast(b, h) = x
  BY <1>6, <1>8, BytesAndBack
<1>11. PICK pv : pv = <<x, b, x>>
  BY Zenon
<1>12. PICK ph : ph = <<h, h, h>>
  BY Zenon
<1>13. pv[1] = x /\ pv[2] = b /\ pv[3] = x /\ ph[1] = h /\ ph[2] = h /\ ph[3] = h
  BY <1>11, <1>12
<1>14. PartValue(ct, val, home, pat, M, subst, pv, ph, 1) /\ ~IsOperation(pat, 1)
  <2>1. BoundAt(val, home, pat, subst, pv, ph, 1, "x")
    BY <1>4, <1>13 DEF BoundAt, IsVar
  <2> QED
    BY <2>1, VarValued, Zenon
<1>15. PartValue(ct, val, home, pat, M, subst, pv, ph, 2)
  <2>1. FromOne(pat, M, pv, ph, 2, "bitcvt", 1)
    BY <1>4, <1>5, <1>8, <1>9, <1>13 DEF FromOne
  <2> QED
    BY <2>1, OneValued, Zenon
<1>16. PartValue(ct, val, home, pat, M, subst, pv, ph, 3)
  <2>1. FromOne(pat, M, pv, ph, 3, "bitcvt", 2)
    BY <1>4, <1>6, <1>9, <1>10, <1>13 DEF FromOne
  <2> QED
    BY <2>1, OneValued, Zenon
<1>17. \A i \in 1 .. 3 : i = 1 \/ i = 2 \/ i = 3
  OBVIOUS
<1>18. S[2] = Info(pv[2].shape, pv[2].dtype) /\ S[3] = Info(pv[3].shape, pv[3].dtype)
  BY <1>7, <1>9, <1>13 DEF TypeIs
<1>19. Planned(ct, val, home, pat, M, S, subst, cls, pv, ph)
  BY <1>4, <1>7, <1>13, <1>14, <1>15, <1>16, <1>17, <1>18 DEF Planned
<1> QED
  BY <1>1, <1>2, <1>3, <1>19 DEF IsPlan

\* The slice of a conversion is the conversion of the slice.
LEMMA PlanOf1 ==
  ASSUME NEW ct, NEW val, NEW home, NEW t, NEW ens, NEW subst, NEW cls, NEW x, NEW h,
         IsTensor(x, h), IsVar(val, home, subst, "x", x, h),
         NEW to \in Dtypes, NEW c, c = Convert(x, to), NEW ranges \in Seq(Nat), ranges = ens[3].data,
         NEW s, s = Slice(c, ranges, 1), IsTensor(s, to), val[cls] = s, home[cls] = to,
         TypeIs(t[1], x), TypeIs(t[2], c), TypeIs(t[3], s)
  PROVE  \E pv, ph : IsPlan(ct, val, home, 1, t, ens, subst, cls, pv, ph)
<1>1. PICK pat : pat = Rhs(1)
  OBVIOUS
<1>2. PICK M : M = Metadata(1, t, ens)
  OBVIOUS
<1>3. PICK S : S = SetShapes(1, t)
  OBVIOUS
<1>4. Len(pat) = 3 /\ pat[1] = V("x") /\ pat[2] = N("slice", <<1>>) /\ pat[3] = N("convert", <<2>>)
  BY <1>1 DEF Rhs
<1>5. PICK a : a = Slice(x, ranges, 1)
  OBVIOUS
<1>6. IsShapePos(s.shape)
  BY DEF IsTensor
<1>7. /\ IsTensor(a, h) /\ a.shape = s.shape /\ a.dtype = x.dtype
      /\ s.dtype = to /\ Convert(a, to) = s
  BY <1>5, <1>6, SliceOfConverted
<1>8. c.dtype = to
  BY ConvertIs
<1>9. t[1].dtype = x.dtype /\ t[2].dtype = to /\ t[3].shape = s.shape
  BY <1>8 DEF TypeIs, Info
<1>10. DOMAIN S = {2, 3} /\ S[2] = Info(s.shape, x.dtype) /\ S[3] = Info(s.shape, to)
  <2>1. S = [k \in {2, 3} |-> Info(t[3].shape, t[k - 1].dtype)]
    BY <1>3 DEF SetShapes, SetShapes_1
  <2>2. S[2] = Info(t[3].shape, t[2 - 1].dtype) /\ S[3] = Info(t[3].shape, t[3 - 1].dtype) /\ DOMAIN S = {2, 3}
    BY <2>1
  <2>3. 2 - 1 = 1 /\ 3 - 1 = 2
    OBVIOUS
  <2> QED
    BY <1>9, <2>2, <2>3
<1>11. M[2].data = ranges /\ DtypeOf(M[3].text) = to
  <2>1. M = <<None, List(ens[3].data), Str(t[2].dtype)>>
    BY <1>2 DEF Metadata, Metadata_1
  <2>2. M[2] = List(ens[3].data) /\ M[3] = Str(t[2].dtype)
    BY <2>1
  <2>3. DtypeOf(to) = to
    BY DtypeOfName
  <2> QED
    BY <1>9, <2>2, <2>3, StringsAre, Zenon
<1>12. PICK pv : pv = <<x, a, s>>
  BY Zenon
<1>13. PICK ph : ph = <<h, h, to>>
  BY Zenon
<1>14. pv[1] = x /\ pv[2] = a /\ pv[3] = s /\ ph[1] = h /\ ph[2] = h /\ ph[3] = to
  BY <1>12, <1>13
<1>15. PartValue(ct, val, home, pat, M, subst, pv, ph, 1) /\ ~IsOperation(pat, 1)
  <2>1. BoundAt(val, home, pat, subst, pv, ph, 1, "x")
    BY <1>4, <1>14 DEF BoundAt, IsVar
  <2> QED
    BY <2>1, VarValued, Zenon
<1>16. PartValue(ct, val, home, pat, M, subst, pv, ph, 2)
  <2>1. FromOne(pat, M, pv, ph, 2, "slice", 1)
    BY <1>4, <1>5, <1>7, <1>11, <1>14 DEF FromOne
  <2> QED
    BY <2>1, OneValued, Zenon
<1>17. PartValue(ct, val, home, pat, M, subst, pv, ph, 3)
  <2>1. FromOne(pat, M, pv, ph, 3, "convert", 2)
    BY <1>4, <1>7, <1>11, <1>14 DEF FromOne
  <2> QED
    BY <2>1, OneValued, Zenon
<1>18. \A i \in 1 .. 3 : i = 1 \/ i = 2 \/ i = 3
  OBVIOUS
<1>19. S[2] = Info(pv[2].shape, pv[2].dtype) /\ S[3] = Info(pv[3].shape, pv[3].dtype)
  BY <1>7, <1>10, <1>14
<1>20. Planned(ct, val, home, pat, M, S, subst, cls, pv, ph)
  BY <1>4, <1>10, <1>14, <1>15, <1>16, <1>17, <1>18, <1>19 DEF Planned
<1> QED
  BY <1>1, <1>2, <1>3, <1>20 DEF IsPlan

\* The narrowed sum of what has been widened.
LEMMA PlanOf5 ==
  ASSUME NEW ct, NEW val, NEW home, NEW t, NEW ens, NEW subst, NEW cls, NEW x, NEW h, NEW y, NEW k0,
         IsTensor(x, h), IsVar(val, home, subst, "x", x, h),
         IsTensor(y, k0), IsVar(val, home, subst, "y", y, k0),
         NEW r, r = Binary("add", x, y), IsTensor(r, h), val[cls] = r, home[cls] = h,
         TypeIs(t[1], x), TypeIs(t[2], y), Precond_5(t)
  PROVE  \E pv, ph : IsPlan(ct, val, home, 5, t, ens, subst, cls, pv, ph)
<1>1. PICK pat : pat = Rhs(5)
  OBVIOUS
<1>2. PICK M : M = Metadata(5, t, ens)
  OBVIOUS
<1>3. PICK S : S = SetShapes(5, t)
  OBVIOUS
<1>4. /\ Len(pat) = 6 /\ pat[1] = V("x") /\ pat[2] = N("convert", <<1>>) /\ pat[3] = V("y")
      /\ pat[4] = N("convert", <<3>>) /\ pat[5] = N("add", <<2, 4>>) /\ pat[6] = N("convert", <<5>>)
  BY <1>1 DEF Rhs
<1>5. t[1].dtype = "I8" /\ t[2].dtype = "I8"
  <2>1. 1 \in 1 .. 3 /\ 2 \in 1 .. 3
    OBVIOUS
  <2> QED
    BY <2>1 DEF Precond_5
<1>6. t[1].shape = x.shape /\ x.dtype = "I8" /\ y.dtype = "I8" /\ h = "I8"
  BY <1>5 DEF TypeIs, Info, IsTensor
<1>7. x.shape = y.shape
  <2>1. SUFFICES ASSUME x.shape # y.shape PROVE FALSE
    OBVIOUS
  <2>2. r = Nothing
    BY <2>1 DEF Binary
  <2> QED
    BY <2>2, NothingIsNone DEF IsTensor
<1>8. PICK a : a = Convert(x, "I32")
  OBVIOUS
<1>9. PICK b : b = Convert(y, "I32")
  OBVIOUS
<1>10. PICK s : s = Binary("add", a, b)
  OBVIOUS
<1>11. /\ IsTensor(a, "I32") /\ a.shape = x.shape /\ a.dtype = "I32"
       /\ IsTensor(b, "I32") /\ b.shape = x.shape /\ b.dtype = "I32"
       /\ IsTensor(s, "I32") /\ s.shape = x.shape /\ s.dtype = "I32"
       /\ Convert(s, "I8") = r
  BY <1>6, <1>7, <1>8, <1>9, <1>10, SumOfWidened
<1>12. r.shape = x.shape /\ r.dtype = "I8"
  <2>1. IsCombined(r, h, "add", x, y)
    BY <1>7, AddedIs
  <2> QED
    BY <1>6, <2>1 DEF IsCombined
<1>13. /\ DOMAIN S = {2, 4, 5, 6}
       /\ S[2] = Info(x.shape, "I32") /\ S[4] = Info(x.shape, "I32") /\ S[5] = Info(x.shape, "I32")
       /\ S[6] = Info(x.shape, "I8")
  <2>1. S = [k \in {2, 4, 5, 6} |-> Info(t[1].shape, IF k = 6 THEN "I8" ELSE "I32")]
    BY <1>3 DEF SetShapes, SetShapes_5
  <2> QED
    BY <1>6, <2>1
<1>14. DtypeOf(M[2].text) = "I32" /\ DtypeOf(M[4].text) = "I32" /\ DtypeOf(M[6].text) = "I8"
  <2>1. M = <<None, Str("I32"), None, Str("I32"), None, Str("I8")>>
    BY <1>2 DEF Metadata, Metadata_5
  <2>2. M[2] = Str("I32") /\ M[4] = Str("I32") /\ M[6] = Str("I8")
    BY <2>1
  <2>3. "I32" \in Dtypes /\ "I8" \in Dtypes
    BY Zenon DEF Dtypes
  <2>4. DtypeOf("I32") = "I32" /\ DtypeOf("I8") = "I8"
    BY <2>3, DtypeOfName, Zenon
  <2> QED
    BY <2>2, <2>4, StringsAre, Zenon
<1>15. PICK pv : pv = <<x, a, y, b, s, r>>
  BY Zenon
<1>16. PICK ph : ph = <<h, "I32", k0, "I32", "I32", h>>
  BY Zenon
<1>17. /\ pv[1] = x /\ pv[2] = a /\ pv[3] = y /\ pv[4] = b /\ pv[5] = s /\ pv[6] = r
       /\ ph[1] = h /\ ph[2] = "I32" /\ ph[3] = k0 /\ ph[4] = "I32" /\ ph[5] = "I32" /\ ph[6] = h
  BY <1>15, <1>16
<1>18. PartValue(ct, val, home, pat, M, subst, pv, ph, 1) /\ ~IsOperation(pat, 1)
  <2>1. BoundAt(val, home, pat, subst, pv, ph, 1, "x")
    BY <1>4, <1>17 DEF BoundAt, IsVar
  <2> QED
    BY <2>1, VarValued, Zenon
<1>19. PartValue(ct, val, home, pat, M, subst, pv, ph, 3) /\ ~IsOperation(pat, 3)
  <2>1. BoundAt(val, home, pat, subst, pv, ph, 3, "y")
    BY <1>4, <1>17 DEF BoundAt, IsVar
  <2> QED
    BY <2>1, VarValued, Zenon
<1>20. PartValue(ct, val, home, pat, M, subst, pv, ph, 2)
  <2>1. FromOne(pat, M, pv, ph, 2, "convert", 1)
    BY <1>4, <1>8, <1>11, <1>14, <1>17 DEF FromOne
  <2> QED
    BY <2>1, OneValued, Zenon
<1>21. PartValue(ct, val, home, pat, M, subst, pv, ph, 4)
  <2>1. FromOne(pat, M, pv, ph, 4, "convert", 3)
    BY <1>4, <1>9, <1>11, <1>14, <1>17 DEF FromOne
  <2> QED
    BY <2>1, OneValued, Zenon
<1>22. PartValue(ct, val, home, pat, M, subst, pv, ph, 5)
  <2>1. FromTwo(pat, pv, ph, 5, "add", 2, 4)
    BY <1>4, <1>10, <1>11, <1>17 DEF FromTwo
  <2> QED
    BY <2>1, TwoValued, Zenon
<1>23. PartValue(ct, val, home, pat, M, subst, pv, ph, 6)
  <2>1. FromOne(pat, M, pv, ph, 6, "convert", 5)
    BY <1>4, <1>6, <1>11, <1>14, <1>17 DEF FromOne
  <2> QED
    BY <2>1, OneValued, Zenon
<1>24. \A i \in 1 .. 6 : i = 1 \/ i = 2 \/ i = 3 \/ i = 4 \/ i = 5 \/ i = 6
  OBVIOUS
<1>25. /\ S[2] = Info(pv[2].shape, pv[2].dtype) /\ S[4] = Info(pv[4].shape, pv[4].dtype)
       /\ S[5] = Info(pv[5].shape, pv[5].dtype) /\ S[6] = Info(pv[6].shape, pv[6].dtype)
  BY <1>11, <1>12, <1>13, <1>17
<1>26. \A i \in 1 .. 6 : PartValue(ct, val, home, pat, M, subst, pv, ph, i)
  BY <1>18, <1>19, <1>20, <1>21, <1>22, <1>23, <1>24, Zenon
<1>27. \A i \in 1 .. 6 : IsOperation(pat, i) => i \in {2, 4, 5, 6}
  BY <1>18, <1>19, <1>24
<1>28. Planned(ct, val, home, pat, M, S, subst, cls, pv, ph)
  BY <1>4, <1>13, <1>17, <1>25, <1>26, <1>27 DEF Planned
<1> QED
  BY <1>1, <1>2, <1>3, <1>28 DEF IsPlan

=============================================================================
