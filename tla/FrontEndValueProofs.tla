------------------------- MODULE FrontEndValueProofs -------------------------
(***************************************************************************)
(* Proofs about FrontEnd, for every set of well-formed modules without     *)
(* tiles: whatever the rules make of an e-graph, each class holds the one  *)
(* tensor that all its e-nodes compute, the infos that the rules read are  *)
(* that tensor's, and the root's are the bytes that HLO means; and when an *)
(* iteration has merged nothing, every match has its other side.           *)
(*                                                                         *)
(* That a class has one tensor is not inductive.  A rule compares infos,   *)
(* and a conversion computes what its text says whatever its operand is:   *)
(* so which tensors the rules may take for equal depends on the type that  *)
(* the elements had when they were made.  The invariant gives each class a *)
(* home, the type its elements come from, which a conversion changes and   *)
(* the reading as bytes does not, and says of each e-node how its own      *)
(* follows from its operands'.                                             *)
(*                                                                         *)
(* Two things are assumed, and named: that the module is Typed, and that   *)
(* no step is Mistaken, which the runs with findings show some to be.      *)
(***************************************************************************)
EXTENDS TensorProofs

-----------------------------------------------------------------------------
(* What find_matches has found.                                            *)

Unfolded(g, kind, pat, size, s, n) ==
  AllFound(g, kind, pat, size, s, n) /\ \A j \in 1 .. n : s[j] = Matched(g, pat, s, j)

\* The matches of a position depend on those of the positions before it.
LEMMA MatchedLocally ==
  ASSUME NEW g, NEW pat, NEW size, NEW j, PartOK(pat, size, j), NEW s, NEW x,
         \A i \in 1 .. j - 1 : s[i] = x[i]
  PROVE  Matched(g, pat, s, j) = Matched(g, pat, x, j)
<1>1. CASE pat[j].var # ""
  BY <1>1, Zenon DEF Matched
<1>2. CASE pat[j].var = ""
  <2>1. \A k \in DOMAIN pat[j].kids : pat[j].kids[k] \in 1 .. j - 1
    BY <1>2, Zenon DEF PartOK
  <2>2. [k \in DOMAIN pat[j].kids |-> s[pat[j].kids[k]]] = [k \in DOMAIN pat[j].kids |-> x[pat[j].kids[k]]]
    BY <2>1
  <2> QED
    BY <2>2, Zenon DEF Matched
<1> QED
  BY <1>1, <1>2, Zenon

\* find_matches goes through the positions of the pattern.
LEMMA FindMatchesUnfolds ==
  ASSUME NEW g, NEW kind, Sound(g, kind), NEW pat, NEW size, Len(pat) \in Nat \ {0},
         LhsOK(pat, size), NEW cls \in Ids(g)
  PROVE  \E s : /\ Unfolded(g, kind, pat, size, s, Len(pat))
               /\ FindMatches(g, cls, pat) = s[Len(pat)][Find(g, cls)]
<1> DEFINE top == Len(pat)
           T == [Classes(g) -> SUBSET Matches]
           Body(f) == [i \in 0 .. top |-> IF i = 0 THEN <<>>
                                        ELSE Append(f[i - 1], Matched(g, pat, f[i - 1], i))]
           upto == CHOOSE f : f = Body(f)
           X == {w \in (0 .. top) \X Seq(T) : Unfolded(g, kind, pat, size, w[2], w[1])}
           F == [w \in X |-> Append(w[2], Matched(g, pat, w[2], w[1] + 1))]
<1>1. FindMatches(g, cls, pat) = upto[top][top][Find(g, cls)]
  BY DEF FindMatches, Matched
<1>2. \A k \in 0 .. top : \A x : Unfolded(g, kind, pat, size, x, k) <=> <<k, x>> \in X
  BY DEF Unfolded, AllFound
<1>3. <<0, <<>>>> \in X
  <2>1. <<>> \in Seq(T) /\ Len(<<>>) = 0 /\ 1 .. 0 = {} /\ 0 \in 0 .. top
    OBVIOUS
  <2>2. Unfolded(g, kind, pat, size, <<>>, 0)
    BY <2>1 DEF AllFound, Unfolded
  <2> QED
    BY <1>2, <2>1, <2>2
<1>4. ASSUME NEW k \in 1 .. top, NEW x, <<k - 1, x>> \in X
      PROVE  /\ F[<<k - 1, x>>] = Append(x, Matched(g, pat, x, k))
             /\ <<k, F[<<k - 1, x>>]>> \in X
  <2>1. k - 1 \in 0 .. top /\ k \in 0 .. top /\ k \in Nat \ {0} /\ (k - 1) + 1 = k
        /\ \A j \in 1 .. k : j \in 1 .. top
    OBVIOUS
  <2>2. Unfolded(g, kind, pat, size, x, k - 1) /\ AllFound(g, kind, pat, size, x, k - 1)
    BY <1>2, <1>4, <2>1 DEF Unfolded
  <2>3. F[<<k - 1, x>>] = Append(x, Matched(g, pat, x, k))
    BY <1>4, <2>1
  <2> HIDE DEF F, X
  <2> DEFINE M == Matched(g, pat, x, k)
             s == Append(x, M)
  <2>4. \A j \in 1 .. k : PartOK(pat, size, j)
    BY <2>1 DEF LhsOK
  <2>5. Found(g, kind, pat[k], size[k], M)
    BY <2>1, <2>2, <2>4, MatchedIsFound
  <2>6. M \in T /\ x \in Seq(T) /\ Len(x) = k - 1
    BY <2>2, <2>5 DEF AllFound, Found
  <2> HIDE DEF M, T
  <2>7. s \in Seq(T) /\ Len(s) = k /\ s[k] = M /\ \A j \in 1 .. k - 1 : s[j] = x[j]
    BY <2>1, <2>6, AppendFacts
  <2>8. \A j \in 1 .. k : j = k \/ j \in 1 .. k - 1
    OBVIOUS
  <2> HIDE DEF s
  <2>9. \A j \in 1 .. k : Found(g, kind, pat[j], size[j], s[j])
    BY <2>2, <2>5, <2>7, <2>8 DEF AllFound
  <2>10. AllFound(g, kind, pat, size, s, k)
    BY <2>7, <2>9 DEF AllFound, T
  <2>12. \A j \in 1 .. k : s[j] = Matched(g, pat, s, j)
    <3>1. \A j \in 1 .. k - 1 : x[j] = Matched(g, pat, x, j)
      BY <2>2 DEF Unfolded
    <3>2. ASSUME NEW j \in 1 .. k PROVE Matched(g, pat, s, j) = Matched(g, pat, x, j)
      <4>1. \A i \in 1 .. j - 1 : s[i] = x[i]
        <5>1. \A i \in 1 .. j - 1 : i \in 1 .. k - 1
          OBVIOUS
        <5> QED
          BY <2>7, <5>1
      <4>2. PartOK(pat, size, j)
        BY <2>4
      <4> QED
        BY <4>1, <4>2, MatchedLocally
    <3>3. s[k] = Matched(g, pat, x, k)
      BY <2>7 DEF M
    <3> QED
      BY <2>7, <2>8, <3>1, <3>2, <3>3
  <2>13. Unfolded(g, kind, pat, size, s, k)
    BY <2>10, <2>12 DEF Unfolded
  <2>11. F[<<k - 1, x>>] = s
    BY <2>3 DEF s, M
  <2> QED
    BY <1>2, <2>1, <2>3, <2>11, <2>13
<1> HIDE DEF F, X
<1>5. StaysIn(top, F, X)
  BY <1>4 DEF StaysIn
<1>6. PICK f : Follows(f, top, <<>>, F, X) /\ AllIn(f, top, X)
  <2> HIDE DEF top
  <2> QED
    BY <1>3, <1>5, FollowersExist DEF top
<1>7. \A k \in 1 .. top : k \in 0 .. top /\ k - 1 \in 0 .. top /\ k # 0
  OBVIOUS
<1>8. f = Body(f)
  <2>1. ASSUME NEW k \in 0 .. top
        PROVE  f[k] = IF k = 0 THEN <<>> ELSE Append(f[k - 1], Matched(g, pat, f[k - 1], k))
    <3>1. k = 0 \/ k \in 1 .. top
      OBVIOUS
    <3>2. ASSUME k \in 1 .. top PROVE f[k] = Append(f[k - 1], Matched(g, pat, f[k - 1], k))
      <4>1. <<k - 1, f[k - 1]>> \in X
        BY <1>6, <1>7, <3>2 DEF AllIn
      <4>2. f[k] = F[<<k - 1, f[k - 1]>>]
        BY <1>6, <3>2, <4>1, Zenon DEF Follows
      <4> QED
        BY <1>4, <3>2, <4>1, <4>2, Zenon
    <3> QED
      BY <1>6, <1>7, <3>1, <3>2, Zenon DEF Follows
  <2> QED
    BY <1>6, <2>1, Zenon DEF Follows
<1>9. upto = Body(upto)
  <2> HIDE DEF Body
  <2> QED
    BY <1>8
<1> HIDE DEF upto
<1>10. Follows(upto, top, <<>>, F, X)
  <2>1. upto = [k \in 0 .. top |-> upto[k]] /\ upto[0] = <<>>
    BY <1>9
  <2>2. \A k \in 1 .. top : upto[k] = Append(upto[k - 1], Matched(g, pat, upto[k - 1], k))
    BY <1>7, <1>9, Zenon
  <2>3. \A k \in 1 .. top : <<k - 1, upto[k - 1]>> \in X => upto[k] = F[<<k - 1, upto[k - 1]>>]
    BY <1>4, <2>2, Zenon
  <2> HIDE DEF top
  <2> QED
    BY <2>1, <2>3, Zenon DEF Follows
<1>11. AllIn(upto, top, X)
  <2> HIDE DEF top
  <2> QED
    BY <1>3, <1>5, <1>10, FollowersStay DEF top
<1>12. <<top, upto[top]>> \in X /\ top \in 0 .. top /\ top \in 1 .. top
  BY <1>11 DEF AllIn
<1>13. Unfolded(g, kind, pat, size, upto[top], top)
  BY <1>2, <1>12
<1> HIDE DEF top
<1> QED
  BY <1>1, <1>13 DEF top

\* Position j of the match is an e-node op of the e-graph, on the classes kids.
InGraph(g, m, j, op, kids) ==
  \E node \in g.nodes :
    node.cls = m.ids[j] /\ node.en = m.ens[j] /\ node.en.op = op /\ node.en.kids = kids

IsVarAt(pat, j) == pat[j].var # ""

LEMMA VarAtName ==
  ASSUME NEW pat, NEW j, NEW name, pat[j] = V(name), name \in {"x", "y", "c"}
  PROVE  IsVarAt(pat, j)
<1>1. pat[j].var = name
  BY Parts
<1> QED
  BY <1>1, Zenon DEF IsVarAt

\* A variable stands for the class alone.
LEMMA VarFound ==
  ASSUME NEW g, NEW kind, NEW pat, NEW size, NEW s, NEW n \in Nat,
         Unfolded(g, kind, pat, size, s, n), NEW j \in 1 .. n, IsVarAt(pat, j),
         NEW c \in Classes(g), NEW m \in s[j][c]
  PROVE  m.ids = <<c>> /\ m.ens = <<NoENode>>
<1>1. s[j] = Matched(g, pat, s, j)
  BY DEF Unfolded
<1>2. Matched(g, pat, s, j)[c] = {Match(<<c>>, <<NoENode>>)}
  BY Zenon DEF Matched, IsVarAt
<1>3. m = Match(<<c>>, <<NoENode>>)
  BY <1>1, <1>2
<1> QED
  BY <1>3 DEF Match

\* What an operation is found on: an e-node and a match of its operands.
IsOn(g, m, c, op, node, below) ==
  /\ node \in g.nodes /\ node.cls = c /\ node.en.op = op
  /\ m.ids = Append(below.ids, c) /\ m.ens = Append(below.ens, node.en)

LEMMA KidsOfN ==
  \A op, kids : N(op, kids).kids = kids
BY DEF N

LEMMA OperationFound ==
  ASSUME NEW g, NEW kind, Sound(g, kind), NEW pat, NEW size, NEW s, NEW n \in Nat,
         Unfolded(g, kind, pat, size, s, n), NEW j \in 1 .. n,
         NEW op, NEW kids, pat[j] = N(op, kids),
         NEW of, of = [k \in DOMAIN kids |-> s[kids[k]]],
         NEW c \in Classes(g), NEW m \in s[j][c]
  PROVE  \E node, below : IsOn(g, m, c, op, node, below) /\ below \in KidMatches(pat[j], of, node.en)
<1>1. s[j] = Matched(g, pat, s, j)
  BY DEF Unfolded
<1>2. PICK p : p = pat[j]
  OBVIOUS
<1>3. p.op = op /\ p.kids = kids /\ ~IsVarAt(pat, j)
  <2>1. N(op, kids).var = "" /\ N(op, kids).op = op /\ N(op, kids).kids = kids
    BY OperationIs, Zenon
  <2>2. p = N(op, kids) /\ pat[j] = N(op, kids)
    BY <1>2
  <2> QED
    BY <2>1, <2>2, Zenon DEF IsVarAt
<1>4. Matched(g, pat, s, j)[c] = Extended(g, p, c, of)
  BY <1>2, <1>3, Zenon DEF Matched, IsVarAt
<1>5. m \in Extended(g, p, c, of)
  BY <1>1, <1>4
<1>6. PICK en \in {e \in NodesOf(g, c) : e.op = p.op} :
        m \in {Match(Append(b.ids, c), Append(b.ens, en)) : b \in KidMatches(p, of, en)}
  BY <1>5, Zenon DEF Extended, KidMatches
<1>7. PICK below \in KidMatches(p, of, en) : m = Match(Append(below.ids, c), Append(below.ens, en))
  BY <1>6
<1>8. PICK node \in g.nodes : node.cls = Find(g, c) /\ node.en = en
  BY <1>6 DEF NodesOf
<1>9. Find(g, c) = c
  BY ClassesAreNumbers
<1>10. IsOn(g, m, c, op, node, below)
  BY <1>3, <1>6, <1>7, <1>8, <1>9 DEF IsOn, Match
<1> QED
  BY <1>2, <1>7, <1>8, <1>10

\* An e-node with one kid, and with two.
LEMMA OneKidOf ==
  ASSUME NEW g, NEW kind, Sound(g, kind), NEW node \in g.nodes, NumChildren(node.en.op) = 1
  PROVE  node.en.kids = <<node.en.kids[1]>> /\ node.en.kids[1] \in Classes(g)
<1>1. node.en \in ENodes /\ HasParts(node.en) /\ \A k \in DOMAIN node.en.kids : node.en.kids[k] \in Classes(g)
  BY SoundIds
<1>2. node.en.kids \in Seq(Nat) /\ Len(node.en.kids) = 1
  BY <1>1, Zenon DEF ENodes, HasParts
<1>3. 1 \in DOMAIN node.en.kids
  BY <1>2
<1> QED
  BY <1>1, <1>2, <1>3

LEMMA TwoKidsOf ==
  ASSUME NEW g, NEW kind, Sound(g, kind), NEW node \in g.nodes, NumChildren(node.en.op) = 2
  PROVE  /\ node.en.kids = <<node.en.kids[1], node.en.kids[2]>>
         /\ node.en.kids[1] \in Classes(g) /\ node.en.kids[2] \in Classes(g)
<1>1. node.en \in ENodes /\ HasParts(node.en) /\ \A k \in DOMAIN node.en.kids : node.en.kids[k] \in Classes(g)
  BY SoundIds
<1>2. node.en.kids \in Seq(Nat) /\ Len(node.en.kids) = 2
  BY <1>1, Zenon DEF ENodes, HasParts
<1>3. 1 \in DOMAIN node.en.kids /\ 2 \in DOMAIN node.en.kids
  BY <1>2
<1> QED
  BY <1>1, <1>2, <1>3

\* The matches of an operation with one operand.
OneFound(g, s, k, op, m, c) ==
  \E node, below :
    /\ IsOn(g, m, c, op, node, below) /\ node.en.kids = <<node.en.kids[1]>>
    /\ node.en.kids[1] \in Classes(g) /\ below \in s[k][node.en.kids[1]]

LEMMA UnaryFound ==
  ASSUME NEW g, NEW kind, Sound(g, kind), NEW pat, NEW size, NEW s, NEW n \in Nat,
         Unfolded(g, kind, pat, size, s, n), NEW j \in 1 .. n,
         NEW op, NEW k, pat[j] = N(op, <<k>>), NumChildren(op) = 1,
         NEW c \in Classes(g), NEW m \in s[j][c]
  PROVE  OneFound(g, s, k, op, m, c)
<1>1. PICK of : of = [i \in DOMAIN <<k>> |-> s[<<k>>[i]]]
  BY Zenon
<1>2. PICK node, below : IsOn(g, m, c, op, node, below) /\ below \in KidMatches(pat[j], of, node.en)
  BY <1>1, OperationFound
<1>3. Len(pat[j].kids) = 1
  <2>1. N(op, <<k>>).kids = <<k>>
    BY KidsOfN, Zenon
  <2>2. pat[j].kids = <<k>>
    BY <2>1, Zenon
  <2> QED
    BY <2>2
<1>4. of[1] = s[k]
  BY <1>1
<1>5. below \in s[k][node.en.kids[1]]
  BY <1>2, <1>3, <1>4 DEF KidMatches
<1>6. node.en.kids = <<node.en.kids[1]>> /\ node.en.kids[1] \in Classes(g)
  BY <1>2, OneKidOf DEF IsOn
<1> QED
  BY <1>2, <1>5, <1>6 DEF OneFound

TwoFound(g, s, k, l, op, m, c) ==
  \E node, left, right :
    /\ IsOn(g, m, c, op, node, Match(left.ids \o right.ids, left.ens \o right.ens))
    /\ node.en.kids = <<node.en.kids[1], node.en.kids[2]>>
    /\ node.en.kids[1] \in Classes(g) /\ left \in s[k][node.en.kids[1]]
    /\ node.en.kids[2] \in Classes(g) /\ right \in s[l][node.en.kids[2]]

LEMMA BinaryFound ==
  ASSUME NEW g, NEW kind, Sound(g, kind), NEW pat, NEW size, NEW s, NEW n \in Nat,
         Unfolded(g, kind, pat, size, s, n), NEW j \in 1 .. n,
         NEW op, NEW k, NEW l, pat[j] = N(op, <<k, l>>), NumChildren(op) = 2,
         NEW c \in Classes(g), NEW m \in s[j][c]
  PROVE  TwoFound(g, s, k, l, op, m, c)
<1>1. PICK of : of = [i \in DOMAIN <<k, l>> |-> s[<<k, l>>[i]]]
  BY Zenon
<1>2. PICK node, below : IsOn(g, m, c, op, node, below) /\ below \in KidMatches(pat[j], of, node.en)
  BY <1>1, OperationFound
<1>3. Len(pat[j].kids) = 2
  <2>1. N(op, <<k, l>>).kids = <<k, l>>
    BY KidsOfN, Zenon
  <2>2. pat[j].kids = <<k, l>>
    BY <2>1, Zenon
  <2> QED
    BY <2>2
<1>4. of[1] = s[k] /\ of[2] = s[l]
  BY <1>1
<1>5. PICK v \in s[k][node.en.kids[1]] \X s[l][node.en.kids[2]] :
        below = Match(v[1].ids \o v[2].ids, v[1].ens \o v[2].ens)
  BY <1>2, <1>3, <1>4 DEF KidMatches
<1>6. node.en.kids = <<node.en.kids[1], node.en.kids[2]>>
      /\ node.en.kids[1] \in Classes(g) /\ node.en.kids[2] \in Classes(g)
  BY <1>2, TwoKidsOf DEF IsOn
<1>7. v[1] \in s[k][node.en.kids[1]] /\ v[2] \in s[l][node.en.kids[2]]
  OBVIOUS
<1> QED
  BY <1>2, <1>5, <1>6, <1>7 DEF TwoFound

\* Sequences of two, three and four elements, as a match is put together.
LEMMA AppendOne == \A a, b : Append(<<a>>, b) = <<a, b>>
<1> TAKE a, b
<1>1. PICK S, s, t : S = {a, b} /\ s = <<a>> /\ t = <<a, b>>
  BY Zenon
<1>2. s \in Seq(S) /\ Len(s) = 1 /\ b \in S
  BY <1>1
<1>3. t \in Seq(S) /\ Len(t) = 2
  BY <1>1
<1>4. \A i \in 1 .. 1 : t[i] = s[i]
  BY <1>1
<1>5. t[2] = b
  BY <1>1
<1>6. PICK u : u = Append(s, b)
  BY Zenon
<1>7. /\ Append(s, b) \in Seq(S) /\ Len(Append(s, b)) = Len(s) + 1
      /\ Append(s, b)[Len(s) + 1] = b
      /\ \A k \in 1 .. Len(s) : Append(s, b)[k] = s[k]
  <2>1. s \in Seq(S) /\ b \in S
    BY <1>2
  <2> QED
    BY <2>1
<1>9. u \in Seq(S) /\ Len(u) = 2 /\ u[2] = b /\ \A i \in 1 .. 1 : u[i] = s[i]
  BY <1>2, <1>6, <1>7
<1>8. u = t
  BY <1>3, <1>4, <1>5, <1>9
<1> QED
  BY <1>1, <1>6, <1>8, Zenon

LEMMA AppendTwo == \A a, b, c : Append(<<a, b>>, c) = <<a, b, c>>
<1> TAKE a, b, c
<1>1. PICK S, s, t : S = {a, b, c} /\ s = <<a, b>> /\ t = <<a, b, c>>
  BY Zenon
<1>2. s \in Seq(S) /\ Len(s) = 2 /\ c \in S
  BY <1>1
<1>3. t \in Seq(S) /\ Len(t) = 3
  BY <1>1
<1>4. \A i \in 1 .. 2 : t[i] = s[i]
  BY <1>1
<1>5. t[3] = c
  BY <1>1
<1>6. PICK u : u = Append(s, c)
  BY Zenon
<1>7. /\ Append(s, c) \in Seq(S) /\ Len(Append(s, c)) = Len(s) + 1
      /\ Append(s, c)[Len(s) + 1] = c
      /\ \A k \in 1 .. Len(s) : Append(s, c)[k] = s[k]
  <2>1. s \in Seq(S) /\ c \in S
    BY <1>2
  <2> QED
    BY <2>1
<1>9. u \in Seq(S) /\ Len(u) = 3 /\ u[3] = c /\ \A i \in 1 .. 2 : u[i] = s[i]
  BY <1>2, <1>6, <1>7
<1>8. u = t
  BY <1>3, <1>4, <1>5, <1>9
<1> QED
  BY <1>1, <1>6, <1>8, Zenon

LEMMA AppendThree == \A a, b, c, d : Append(<<a, b, c>>, d) = <<a, b, c, d>>
<1> TAKE a, b, c, d
<1>1. PICK S, s, t : S = {a, b, c, d} /\ s = <<a, b, c>> /\ t = <<a, b, c, d>>
  BY Zenon
<1>2. s \in Seq(S) /\ Len(s) = 3 /\ d \in S
  BY <1>1
<1>3. t \in Seq(S) /\ Len(t) = 4
  BY <1>1
<1>4. \A i \in 1 .. 3 : t[i] = s[i]
  BY <1>1
<1>5. t[4] = d
  BY <1>1
<1>6. PICK u : u = Append(s, d)
  BY Zenon
<1>7. /\ Append(s, d) \in Seq(S) /\ Len(Append(s, d)) = Len(s) + 1
      /\ Append(s, d)[Len(s) + 1] = d
      /\ \A k \in 1 .. Len(s) : Append(s, d)[k] = s[k]
  <2>1. s \in Seq(S) /\ d \in S
    BY <1>2
  <2> QED
    BY <2>1
<1>9. u \in Seq(S) /\ Len(u) = 4 /\ u[4] = d /\ \A i \in 1 .. 3 : u[i] = s[i]
  BY <1>2, <1>6, <1>7
<1>8. u = t
  BY <1>3, <1>4, <1>5, <1>9
<1> QED
  BY <1>1, <1>6, <1>8, Zenon

LEMMA JoinOneOne == \A a, b : <<a>> \o <<b>> = <<a, b>>
<1> TAKE a, b
<1>1. PICK S, s, t, w : S = {a, b} /\ s = <<a>> /\ t = <<b>> /\ w = <<a, b>>
  BY Zenon
<1>2. s \in Seq(S) /\ Len(s) = 1 /\ t \in Seq(S) /\ Len(t) = 1
  BY <1>1
<1>3. w \in Seq(S) /\ Len(w) = 2
  BY <1>1
<1>4. w[1] = s[1] /\ w[2] = t[1]
  BY <1>1
<1>5. PICK u : u = s \o t
  BY Zenon
<1>9. /\ s \o t \in Seq(S) /\ Len(s \o t) = Len(s) + Len(t)
      /\ \A k \in 1 .. Len(s) : (s \o t)[k] = s[k]
      /\ \A k \in 1 .. Len(t) : (s \o t)[Len(s) + k] = t[k]
  <2>1. s \in Seq(S) /\ t \in Seq(S)
    BY <1>2
  <2> QED
    BY <2>1, ConcatFacts
<1>6. /\ u \in Seq(S) /\ Len(u) = 2
      /\ \A k \in 1 .. 1 : u[k] = s[k]
      /\ \A k \in 1 .. 1 : u[1 + k] = t[k]
  BY <1>2, <1>5, <1>9
<1>7. u[1] = s[1] /\ u[2] = t[1]
  BY <1>6
<1>8. u = w
  BY <1>3, <1>4, <1>6, <1>7
<1> QED
  BY <1>1, <1>5, <1>8, Zenon

LEMMA JoinOneTwo == \A a, b, c : <<a>> \o <<b, c>> = <<a, b, c>>
<1> TAKE a, b, c
<1>1. PICK S, s, t, w : S = {a, b, c} /\ s = <<a>> /\ t = <<b, c>> /\ w = <<a, b, c>>
  BY Zenon
<1>2. s \in Seq(S) /\ Len(s) = 1 /\ t \in Seq(S) /\ Len(t) = 2
  BY <1>1
<1>3. w \in Seq(S) /\ Len(w) = 3
  BY <1>1
<1>4. w[1] = s[1] /\ w[2] = t[1] /\ w[3] = t[2]
  BY <1>1
<1>5. PICK u : u = s \o t
  BY Zenon
<1>9. /\ s \o t \in Seq(S) /\ Len(s \o t) = Len(s) + Len(t)
      /\ \A k \in 1 .. Len(s) : (s \o t)[k] = s[k]
      /\ \A k \in 1 .. Len(t) : (s \o t)[Len(s) + k] = t[k]
  <2>1. s \in Seq(S) /\ t \in Seq(S)
    BY <1>2
  <2> QED
    BY <2>1, ConcatFacts
<1>6. /\ u \in Seq(S) /\ Len(u) = 3
      /\ \A k \in 1 .. 1 : u[k] = s[k]
      /\ \A k \in 1 .. 2 : u[1 + k] = t[k]
  BY <1>2, <1>5, <1>9
<1>7. u[1] = s[1] /\ u[2] = t[1] /\ u[3] = t[2]
  BY <1>6
<1>8. u = w
  BY <1>3, <1>4, <1>6, <1>7
<1> QED
  BY <1>1, <1>5, <1>8, Zenon

\* Which e-nodes a match of each rule consists of.
MatchNodes(g, rule, m) ==
  /\ rule = 1 => InGraph(g, m, 2, "convert", <<m.ids[1]>>) /\ InGraph(g, m, 3, "slice", <<m.ids[2]>>)
  /\ rule = 6 => InGraph(g, m, 2, "convert", <<m.ids[1]>>) /\ InGraph(g, m, 3, "convert", <<m.ids[2]>>)
  /\ rule = 9 => InGraph(g, m, 2, "reshape", <<m.ids[1]>>) /\ InGraph(g, m, 3, "reshape", <<m.ids[2]>>)
  /\ rule = 5 => InGraph(g, m, 3, "add", <<m.ids[1], m.ids[2]>>)
  /\ rule = 8 => InGraph(g, m, 2, "broadcast", <<m.ids[1]>>)
  /\ rule = 10 => /\ InGraph(g, m, 3, "broadcast", <<m.ids[2]>>)
                  /\ InGraph(g, m, 4, "maximum", <<m.ids[1], m.ids[3]>>)

\* One operation on another.
LEMMA ChainFound ==
  ASSUME NEW g, NEW kind, Sound(g, kind), NEW pat, NEW size, NEW s,
         Unfolded(g, kind, pat, size, s, 3), IsVarAt(pat, 1),
         NEW op2, pat[2] = N(op2, << 1 >>), NumChildren(op2) = 1,
         NEW op3, pat[3] = N(op3, << 2 >>), NumChildren(op3) = 1,
         NEW c \in Classes(g), NEW m \in s[3][c]
  PROVE  InGraph(g, m, 2, op2, <<m.ids[1]>>) /\ InGraph(g, m, 3, op3, <<m.ids[2]>>)
<1>0. 1 \in 1 .. 3 /\ 2 \in 1 .. 3 /\ 3 \in 1 .. 3 /\ 3 \in Nat
  OBVIOUS
<1>1. OneFound(g, s, 2, op3, m, c)
  BY <1>0, UnaryFound
<1>2. PICK node3, m2 :
        /\ IsOn(g, m, c, op3, node3, m2) /\ node3.en.kids = <<node3.en.kids[1]>>
        /\ node3.en.kids[1] \in Classes(g) /\ m2 \in s[2][node3.en.kids[1]]
  BY <1>1 DEF OneFound
<1>3. PICK c2 : c2 = node3.en.kids[1]
  OBVIOUS
<1>4. c2 \in Classes(g) /\ m2 \in s[2][c2]
  BY <1>2, <1>3
<1>5. OneFound(g, s, 1, op2, m2, c2)
  BY <1>0, <1>4, UnaryFound
<1>6. PICK node2, m1 :
        /\ IsOn(g, m2, c2, op2, node2, m1) /\ node2.en.kids = <<node2.en.kids[1]>>
        /\ node2.en.kids[1] \in Classes(g) /\ m1 \in s[1][node2.en.kids[1]]
  BY <1>5 DEF OneFound
<1>7. PICK c1 : c1 = node2.en.kids[1]
  OBVIOUS
<1>8. m1.ids = <<c1>> /\ m1.ens = <<NoENode>>
  BY <1>0, <1>6, <1>7, VarFound
<1>9. m2.ids = <<c1, c2>> /\ m2.ens = <<NoENode, node2.en>>
  BY <1>6, <1>8, AppendOne, Zenon DEF IsOn
<1>10. m.ids = <<c1, c2, c>> /\ m.ens = <<NoENode, node2.en, node3.en>>
  <2>1. Append(<<c1, c2>>, c) = <<c1, c2, c>>
    BY AppendTwo, Zenon
  <2>2. Append(<<NoENode, node2.en>>, node3.en) = <<NoENode, node2.en, node3.en>>
    BY AppendTwo, Zenon
  <2>3. m.ids = Append(m2.ids, c) /\ m.ens = Append(m2.ens, node3.en)
    BY <1>2, Zenon DEF IsOn
  <2> QED
    BY <1>9, <2>1, <2>2, <2>3
<1>11. m.ids[1] = c1 /\ m.ids[2] = c2 /\ m.ids[3] = c /\ m.ens[2] = node2.en /\ m.ens[3] = node3.en
  BY <1>10
<1>12. InGraph(g, m, 2, op2, <<c1>>)
  BY <1>6, <1>7, <1>11 DEF InGraph, IsOn
<1>13. InGraph(g, m, 3, op3, <<c2>>)
  BY <1>2, <1>3, <1>11 DEF InGraph, IsOn
<1> QED
  BY <1>11, <1>12, <1>13

\* A single operation with one operand.
LEMMA SingleFound ==
  ASSUME NEW g, NEW kind, Sound(g, kind), NEW pat, NEW size, NEW s,
         Unfolded(g, kind, pat, size, s, 2), IsVarAt(pat, 1),
         NEW op2, pat[2] = N(op2, << 1 >>), NumChildren(op2) = 1,
         NEW c \in Classes(g), NEW m \in s[2][c]
  PROVE  InGraph(g, m, 2, op2, <<m.ids[1]>>)
<1>0. 1 \in 1 .. 2 /\ 2 \in 1 .. 2 /\ 2 \in Nat
  OBVIOUS
<1>5. OneFound(g, s, 1, op2, m, c)
  BY <1>0, UnaryFound
<1>6. PICK node2, m1 :
        /\ IsOn(g, m, c, op2, node2, m1) /\ node2.en.kids = <<node2.en.kids[1]>>
        /\ node2.en.kids[1] \in Classes(g) /\ m1 \in s[1][node2.en.kids[1]]
  BY <1>5 DEF OneFound
<1>7. PICK c1 : c1 = node2.en.kids[1]
  OBVIOUS
<1>8. m1.ids = <<c1>> /\ m1.ens = <<NoENode>>
  BY <1>0, <1>6, <1>7, VarFound
<1>9. m.ids = <<c1, c>> /\ m.ens = <<NoENode, node2.en>>
  BY <1>6, <1>8, AppendOne, Zenon DEF IsOn
<1>11. m.ids[1] = c1 /\ m.ids[2] = c /\ m.ens[2] = node2.en
  BY <1>9
<1>12. InGraph(g, m, 2, op2, <<c1>>)
  BY <1>6, <1>7, <1>11 DEF InGraph, IsOn
<1> QED
  BY <1>11, <1>12

\* An operation on two variables.
LEMMA PairFound ==
  ASSUME NEW g, NEW kind, Sound(g, kind), NEW pat, NEW size, NEW s,
         Unfolded(g, kind, pat, size, s, 3), IsVarAt(pat, 1), IsVarAt(pat, 2),
         NEW op3, pat[3] = N(op3, <<1, 2>>), NumChildren(op3) = 2,
         NEW c \in Classes(g), NEW m \in s[3][c]
  PROVE  InGraph(g, m, 3, op3, <<m.ids[1], m.ids[2]>>)
<1>0. 1 \in 1 .. 3 /\ 2 \in 1 .. 3 /\ 3 \in 1 .. 3 /\ 3 \in Nat
  OBVIOUS
<1>1. TwoFound(g, s, 1, 2, op3, m, c)
  BY <1>0, BinaryFound
<1>2. PICK node, left, right :
        /\ IsOn(g, m, c, op3, node, Match(left.ids \o right.ids, left.ens \o right.ens))
        /\ node.en.kids = <<node.en.kids[1], node.en.kids[2]>>
        /\ node.en.kids[1] \in Classes(g) /\ left \in s[1][node.en.kids[1]]
        /\ node.en.kids[2] \in Classes(g) /\ right \in s[2][node.en.kids[2]]
  BY <1>1, Zenon DEF TwoFound
<1>3. PICK c1, c2 : c1 = node.en.kids[1] /\ c2 = node.en.kids[2]
  BY Zenon
<1>4. left.ids = <<c1>> /\ left.ens = <<NoENode>> /\ right.ids = <<c2>> /\ right.ens = <<NoENode>>
  BY <1>0, <1>2, <1>3, VarFound
<1>5. left.ids \o right.ids = <<c1, c2>> /\ left.ens \o right.ens = <<NoENode, NoENode>>
  BY <1>4, JoinOneOne, Zenon
<1>6. IsOn(g, m, c, op3, node, Match(<<c1, c2>>, <<NoENode, NoENode>>))
  BY <1>2, <1>5
<1>7. m.ids = <<c1, c2, c>> /\ m.ens = <<NoENode, NoENode, node.en>> /\ node \in g.nodes /\ node.cls = c
      /\ node.en.op = op3
  <2>1. PICK below : below = Match(<<c1, c2>>, <<NoENode, NoENode>>)
    OBVIOUS
  <2>2. below.ids = <<c1, c2>> /\ below.ens = <<NoENode, NoENode>>
    BY <2>1 DEF Match
  <2>3. IsOn(g, m, c, op3, node, below)
    BY <1>6, <2>1
  <2>4. Append(<<c1, c2>>, c) = <<c1, c2, c>>
    BY AppendTwo, Zenon
  <2>5. Append(<<NoENode, NoENode>>, node.en) = <<NoENode, NoENode, node.en>>
    BY AppendTwo, Zenon
  <2>6. m.ids = Append(below.ids, c) /\ m.ens = Append(below.ens, node.en)
        /\ node \in g.nodes /\ node.cls = c /\ node.en.op = op3
    BY <2>3, Zenon DEF IsOn
  <2> QED
    BY <2>2, <2>4, <2>5, <2>6
<1>8. m.ids[1] = c1 /\ m.ids[2] = c2 /\ m.ids[3] = c /\ m.ens[3] = node.en
  BY <1>7
<1>9. InGraph(g, m, 3, op3, <<c1, c2>>)
  BY <1>2, <1>3, <1>7, <1>8 DEF InGraph
<1> QED
  BY <1>8, <1>9

\* An operation on a variable and another operation.
LEMMA OnBroadcastFound ==
  ASSUME NEW g, NEW kind, Sound(g, kind), NEW pat, NEW size, NEW s,
         Unfolded(g, kind, pat, size, s, 4), IsVarAt(pat, 1), IsVarAt(pat, 2),
         NEW op3, pat[3] = N(op3, << 2 >>), NumChildren(op3) = 1,
         NEW op4, pat[4] = N(op4, <<1, 3>>), NumChildren(op4) = 2,
         NEW c \in Classes(g), NEW m \in s[4][c]
  PROVE  InGraph(g, m, 3, op3, <<m.ids[2]>>) /\ InGraph(g, m, 4, op4, <<m.ids[1], m.ids[3]>>)
<1>0. 1 \in 1 .. 4 /\ 2 \in 1 .. 4 /\ 3 \in 1 .. 4 /\ 4 \in 1 .. 4 /\ 4 \in Nat
  OBVIOUS
<1>1. TwoFound(g, s, 1, 3, op4, m, c)
  BY <1>0, BinaryFound
<1>2. PICK node, left, right :
        /\ IsOn(g, m, c, op4, node, Match(left.ids \o right.ids, left.ens \o right.ens))
        /\ node.en.kids = <<node.en.kids[1], node.en.kids[2]>>
        /\ node.en.kids[1] \in Classes(g) /\ left \in s[1][node.en.kids[1]]
        /\ node.en.kids[2] \in Classes(g) /\ right \in s[3][node.en.kids[2]]
  BY <1>1 DEF TwoFound
<1>3. PICK c1, c3 : c1 = node.en.kids[1] /\ c3 = node.en.kids[2]
  BY Zenon
<1>4. left.ids = <<c1>> /\ left.ens = <<NoENode>>
  BY <1>0, <1>2, <1>3, VarFound
<1>5. OneFound(g, s, 2, op3, right, c3)
  BY <1>0, <1>2, <1>3, UnaryFound
<1>6. PICK node3, m1 :
        /\ IsOn(g, right, c3, op3, node3, m1) /\ node3.en.kids = <<node3.en.kids[1]>>
        /\ node3.en.kids[1] \in Classes(g) /\ m1 \in s[2][node3.en.kids[1]]
  BY <1>5 DEF OneFound
<1>7. PICK c2 : c2 = node3.en.kids[1]
  OBVIOUS
<1>8. m1.ids = <<c2>> /\ m1.ens = <<NoENode>>
  BY <1>0, <1>6, <1>7, VarFound
<1>9. right.ids = <<c2, c3>> /\ right.ens = <<NoENode, node3.en>>
  BY <1>6, <1>8, AppendOne, Zenon DEF IsOn
<1>10. left.ids \o right.ids = <<c1, c2, c3>> /\ left.ens \o right.ens = <<NoENode, NoENode, node3.en>>
  BY <1>4, <1>9, JoinOneTwo, Zenon
<1>11. IsOn(g, m, c, op4, node, Match(<<c1, c2, c3>>, <<NoENode, NoENode, node3.en>>))
  BY <1>2, <1>10
<1>12. m.ids = <<c1, c2, c3, c>> /\ m.ens = <<NoENode, NoENode, node3.en, node.en>>
       /\ node \in g.nodes /\ node.cls = c /\ node.en.op = op4
  <2>1. PICK below : below = Match(<<c1, c2, c3>>, <<NoENode, NoENode, node3.en>>)
    OBVIOUS
  <2>2. below.ids = <<c1, c2, c3>> /\ below.ens = <<NoENode, NoENode, node3.en>>
    BY <2>1 DEF Match
  <2>3. IsOn(g, m, c, op4, node, below)
    BY <1>11, <2>1
  <2>4. Append(<<c1, c2, c3>>, c) = <<c1, c2, c3, c>>
    BY AppendThree, Zenon
  <2>5. Append(<<NoENode, NoENode, node3.en>>, node.en) = <<NoENode, NoENode, node3.en, node.en>>
    BY AppendThree, Zenon
  <2>6. m.ids = Append(below.ids, c) /\ m.ens = Append(below.ens, node.en)
        /\ node \in g.nodes /\ node.cls = c /\ node.en.op = op4
    BY <2>3, Zenon DEF IsOn
  <2> QED
    BY <2>2, <2>4, <2>5, <2>6
<1>13. m.ids[1] = c1 /\ m.ids[2] = c2 /\ m.ids[3] = c3 /\ m.ids[4] = c
       /\ m.ens[3] = node3.en /\ m.ens[4] = node.en
  BY <1>12
<1>14. InGraph(g, m, 4, op4, <<c1, c3>>)
  BY <1>2, <1>3, <1>12, <1>13 DEF InGraph
<1>15. InGraph(g, m, 3, op3, <<c2>>)
  BY <1>6, <1>7, <1>13 DEF InGraph, IsOn
<1> QED
  BY <1>13, <1>14, <1>15

\* A match, rule by rule.
LEMMA FoundNodes ==
  ASSUME NEW g, NEW kind, Sound(g, kind), NEW rule \in Rules, rule # 0, NEW cls \in Ids(g),
         NEW m \in FindMatches(g, cls, Lhs(rule))
  PROVE  MatchNodes(g, rule, m)
<1>1. PICK pat : pat = Lhs(rule)
  OBVIOUS
<1>2. PICK n : LhsFacts(rule, pat, Sizes(rule), n)
  BY <1>1, LhsIsOK, Zenon
<1>3. Len(pat) = n /\ n \in Nat \ {0} /\ LhsOK(pat, Sizes(rule))
  BY <1>2, Zenon DEF LhsFacts
<1>4. PICK s : /\ Unfolded(g, kind, pat, Sizes(rule), s, Len(pat))
               /\ FindMatches(g, cls, pat) = s[Len(pat)][Find(g, cls)]
  BY <1>3, FindMatchesUnfolds
<1>5. PICK c : c = Find(g, cls)
  OBVIOUS
<1>6. c \in Classes(g)
  BY <1>5, SoundIds
<1>7. Unfolded(g, kind, pat, Sizes(rule), s, n) /\ m \in s[n][c]
  BY <1>1, <1>3, <1>4, <1>5
<1>8. "x" \in {"x", "y", "c"} /\ "y" \in {"x", "y", "c"} /\ "c" \in {"x", "y", "c"}
  OBVIOUS
<1>9. /\ NumChildren("convert") = 1 /\ NumChildren("slice") = 1 /\ NumChildren("reshape") = 1
      /\ NumChildren("broadcast") = 1 /\ NumChildren("add") = 2 /\ NumChildren("maximum") = 2
  BY Arities
<1>10. ASSUME rule = 1 PROVE InGraph(g, m, 2, "convert", <<m.ids[1]>>) /\ InGraph(g, m, 3, "slice", <<m.ids[2]>>)
  <2>1. Len(pat) = 3 /\ pat[1] = V("x") /\ pat[2] = N("convert", <<1>>) /\ pat[3] = N("slice", <<2>>)
    BY <1>1, <1>10 DEF Lhs
  <2>2. IsVarAt(pat, 1) /\ n = 3
    BY <1>3, <1>8, <2>1, VarAtName
  <2> QED
    BY <1>6, <1>7, <1>9, <2>1, <2>2, ChainFound
<1>11. ASSUME rule = 6 PROVE InGraph(g, m, 2, "convert", <<m.ids[1]>>) /\ InGraph(g, m, 3, "convert", <<m.ids[2]>>)
  <2>1. Len(pat) = 3 /\ pat[1] = V("x") /\ pat[2] = N("convert", <<1>>) /\ pat[3] = N("convert", <<2>>)
    BY <1>1, <1>11 DEF Lhs
  <2>2. IsVarAt(pat, 1) /\ n = 3
    BY <1>3, <1>8, <2>1, VarAtName
  <2> QED
    BY <1>6, <1>7, <1>9, <2>1, <2>2, ChainFound
<1>12. ASSUME rule = 9 PROVE InGraph(g, m, 2, "reshape", <<m.ids[1]>>) /\ InGraph(g, m, 3, "reshape", <<m.ids[2]>>)
  <2>1. Len(pat) = 3 /\ pat[1] = V("x") /\ pat[2] = N("reshape", <<1>>) /\ pat[3] = N("reshape", <<2>>)
    BY <1>1, <1>12 DEF Lhs
  <2>2. IsVarAt(pat, 1) /\ n = 3
    BY <1>3, <1>8, <2>1, VarAtName
  <2> QED
    BY <1>6, <1>7, <1>9, <2>1, <2>2, ChainFound
<1>13. ASSUME rule = 5 PROVE InGraph(g, m, 3, "add", <<m.ids[1], m.ids[2]>>)
  <2>1. Len(pat) = 3 /\ pat[1] = V("x") /\ pat[2] = V("y") /\ pat[3] = N("add", <<1, 2>>)
    BY <1>1, <1>13 DEF Lhs
  <2>2. IsVarAt(pat, 1) /\ IsVarAt(pat, 2) /\ n = 3
    BY <1>3, <1>8, <2>1, VarAtName
  <2> QED
    BY <1>6, <1>7, <1>9, <2>1, <2>2, PairFound
<1>14. ASSUME rule = 8 PROVE InGraph(g, m, 2, "broadcast", <<m.ids[1]>>)
  <2>1. Len(pat) = 2 /\ pat[1] = V("x") /\ pat[2] = N("broadcast", <<1>>)
    BY <1>1, <1>14 DEF Lhs
  <2>2. IsVarAt(pat, 1) /\ n = 2
    BY <1>3, <1>8, <2>1, VarAtName
  <2> QED
    BY <1>6, <1>7, <1>9, <2>1, <2>2, SingleFound
<1>15. ASSUME rule = 10
       PROVE InGraph(g, m, 3, "broadcast", <<m.ids[2]>>) /\ InGraph(g, m, 4, "maximum", <<m.ids[1], m.ids[3]>>)
  <2>1. Len(pat) = 4 /\ pat[1] = V("x") /\ pat[2] = V("c") /\ pat[3] = N("broadcast", <<2>>)
        /\ pat[4] = N("maximum", <<1, 3>>)
    BY <1>1, <1>15 DEF Lhs
  <2>2. IsVarAt(pat, 1) /\ IsVarAt(pat, 2) /\ n = 4
    BY <1>3, <1>8, <2>1, VarAtName
  <2> QED
    BY <1>6, <1>7, <1>9, <2>1, <2>2, OnBroadcastFound
<1> QED
  BY <1>10, <1>11, <1>12, <1>13, <1>14, <1>15 DEF MatchNodes

-----------------------------------------------------------------------------
(* From the match of a rule to the tensors of what it adds.                *)

\* What a function gives along a match's classes.
Along(f, ids) == [j \in DOMAIN ids |-> f[ids[j]]]

AreTensors(vs, hs, n) == \A j \in 1 .. n : IsTensor(vs[j], hs[j])

AreTyped(t, vs, n) == \A j \in 1 .. n : TypeIs(t[j], vs[j])

IsConverted(v, h, x, to) == to \in Dtypes /\ v = Convert(x, to) /\ h = to

\* What a match says of the tensors of its classes; that of rule 6 is what the
\* rule itself takes for granted.
Meant(rule, ens, vs, hs) ==
  /\ rule = 1 => /\ \E to : IsConverted(vs[2], hs[2], vs[1], to)
                 /\ ens[3].data \in Seq(Nat) /\ vs[3] = Slice(vs[2], ens[3].data, 1) /\ hs[3] = hs[2]
  /\ rule = 5 => vs[3] = Binary("add", vs[1], vs[2]) /\ hs[3] = hs[1]
  /\ rule = 6 => vs[3] = vs[1]
  /\ rule = 8 => /\ ens[2].data \in Seq(Nat) /\ vs[2] = Broadcast(vs[1], ens[2].data, Leading(vs[1]))
                 /\ hs[2] = hs[1]
  /\ rule = 9 => /\ vs[2] = Reshape(vs[1], ens[2].data) /\ hs[2] = hs[1]
                 /\ vs[3] = Reshape(vs[2], ens[3].data) /\ hs[3] = hs[2]
  /\ rule = 10 => /\ ens[3].data \in Seq(Nat) /\ vs[3] = Broadcast(vs[2], ens[3].data, Leading(vs[2]))
                  /\ vs[4] = Binary("maximum", vs[1], vs[3]) /\ hs[4] = hs[1]

\* What a rule's condition says of rule 10's constant.
IsLeast(v) == \E d : d \in Dtypes /\ v = Scalar(NegInf, d)

IsLength(rule, n) ==
  /\ rule \in {1, 5, 6, 9} => n = 3
  /\ rule \in {2, 3, 4, 7} => n = 1
  /\ rule = 8 => n = 2
  /\ rule = 10 => n = 4

LEMMA LhsLength ==
  ASSUME NEW rule \in Rules
  PROVE  IsLength(rule, Len(Lhs(rule)))
<1>1. ASSUME rule = 1 PROVE Len(Lhs(rule)) = 3
  BY <1>1 DEF Lhs
<1>2. ASSUME rule = 5 PROVE Len(Lhs(rule)) = 3
  BY <1>2 DEF Lhs
<1>3. ASSUME rule = 6 PROVE Len(Lhs(rule)) = 3
  BY <1>3 DEF Lhs
<1>4. ASSUME rule = 9 PROVE Len(Lhs(rule)) = 3
  BY <1>4 DEF Lhs
<1>5. ASSUME rule \in {2, 3, 4, 7} PROVE Len(Lhs(rule)) = 1
  BY <1>5 DEF Lhs
<1>6. ASSUME rule = 8 PROVE Len(Lhs(rule)) = 2
  BY <1>6 DEF Lhs
<1>7. ASSUME rule = 10 PROVE Len(Lhs(rule)) = 4
  BY <1>7 DEF Lhs
<1> QED
  BY <1>1, <1>2, <1>3, <1>4, <1>5, <1>6, <1>7 DEF IsLength

\* A condition that holds, taken by itself.
CondHolds(rule, t) ==
  /\ rule = 2 => Precond_2(t)
  /\ rule = 4 => Precond_4(t)
  /\ rule = 5 => Precond_5(t)
  /\ rule = 6 => Precond_6(t)
  /\ rule = 8 => Precond_8(t)
  /\ rule = 9 => Precond_9(t)

LEMMA CondsHold ==
  ASSUME NEW rule, NEW g, NEW ids, NEW t, Precond(rule, g, ids, t)
  PROVE  CondHolds(rule, t)
<1>1. rule = 2 => Precond_2(t)
  BY DEF Precond
<1>2. rule = 4 => Precond_4(t)
  BY DEF Precond
<1>3. rule = 5 => Precond_5(t)
  BY DEF Precond
<1>4. rule = 6 => Precond_6(t)
  BY DEF Precond
<1>5. rule = 8 => Precond_8(t)
  BY DEF Precond
<1>6. rule = 9 => Precond_9(t)
  BY DEF Precond
<1> QED
  BY <1>1, <1>2, <1>3, <1>4, <1>5, <1>6, Zenon DEF CondHolds

\* The tensor of the root is the one that a rule that drops operations puts there.
LEMMA DroppedIsNone ==
  ASSUME NEW rule \in {6, 8, 9, 10}, NEW t, NEW ens, NEW n, IsLength(rule, n), NEW vs, NEW hs,
         AreTensors(vs, hs, n), AreTyped(t, vs, n), Meant(rule, ens, vs, hs), CondHolds(rule, t),
         rule = 10 => IsLeast(vs[2])
  PROVE  vs[n] = vs[1] /\ hs[n] = hs[1]
<1>1. CASE rule = 6
  <2>1. n = 3 /\ vs[3] = vs[1]
    BY <1>1 DEF IsLength, Meant
  <2>2. IsTensor(vs[1], hs[1]) /\ IsTensor(vs[3], hs[3]) /\ TypeIs(t[1], vs[1])
    BY <2>1 DEF AreTensors, AreTyped
  <2>3. t[1].dtype = "I32"
    BY <1>1 DEF CondHolds, Precond_6
  <2>4. vs[1].dtype = "I32"
    BY <2>2, <2>3 DEF TypeIs, Info
  <2>5. hs[1] = "I32" /\ hs[3] = "I32"
    BY <2>1, <2>2, <2>4 DEF IsTensor
  <2> QED
    BY <2>1, <2>5
<1>2. CASE rule = 8
  <2>1. n = 2 /\ ens[2].data \in Seq(Nat) /\ vs[2] = Broadcast(vs[1], ens[2].data, Leading(vs[1])) /\ hs[2] = hs[1]
    BY <1>2 DEF IsLength, Meant
  <2>2. IsTensor(vs[1], hs[1]) /\ TypeIs(t[1], vs[1]) /\ TypeIs(t[2], vs[2])
    BY <2>1 DEF AreTensors, AreTyped
  <2>3. t[2].shape = t[1].shape
    BY <1>2 DEF CondHolds, Precond_8
  <2>4. vs[2].shape = vs[1].shape
    BY <2>2, <2>3 DEF TypeIs, Info
  <2>5. vs[2] = vs[1]
    BY <2>1, <2>2, <2>4, BroadcastThatIsNone
  <2> QED
    BY <2>1, <2>5
<1>3. CASE rule = 9
  <2>1. n = 3 /\ vs[2] = Reshape(vs[1], ens[2].data) /\ hs[2] = hs[1]
        /\ vs[3] = Reshape(vs[2], ens[3].data) /\ hs[3] = hs[2]
    BY <1>3 DEF IsLength, Meant
  <2>2. /\ IsTensor(vs[1], hs[1]) /\ IsTensor(vs[2], hs[2]) /\ IsTensor(vs[3], hs[3])
        /\ TypeIs(t[1], vs[1]) /\ TypeIs(t[3], vs[3])
    BY <2>1 DEF AreTensors, AreTyped
  <2>3. t[1].shape = t[3].shape
    BY <1>3 DEF CondHolds, Precond_9
  <2>4. vs[3].shape = vs[1].shape
    BY <2>2, <2>3 DEF TypeIs, Info
  <2>5. vs[3] = vs[1]
    BY <2>1, <2>2, <2>4, ThereAndBack
  <2> QED
    BY <2>1, <2>5
<1>4. CASE rule = 10
  <2>1. n = 4 /\ ens[3].data \in Seq(Nat) /\ vs[3] = Broadcast(vs[2], ens[3].data, Leading(vs[2]))
        /\ vs[4] = Binary("maximum", vs[1], vs[3]) /\ hs[4] = hs[1]
    BY <1>4 DEF IsLength, Meant
  <2>2. IsTensor(vs[1], hs[1]) /\ IsTensor(vs[3], hs[3]) /\ IsTensor(vs[4], hs[4])
    BY <2>1 DEF AreTensors
  <2>3. PICK d : d \in Dtypes /\ vs[2] = Scalar(NegInf, d)
    BY <1>4 DEF IsLeast
  <2>4. IsShapePos(vs[4].shape)
    BY <2>2, TensorFacts
  <2>5. vs[4] = vs[1]
    BY <2>1, <2>2, <2>3, <2>4, MaximumWithLeast
  <2> QED
    BY <2>1, <2>5
<1> QED
  BY <1>1, <1>2, <1>3, <1>4

IsBound(val, home, rule, cls, subst, vs, hs, n) ==
  /\ val[cls] = vs[n] /\ home[cls] = hs[n]
  /\ IsVar(val, home, subst, "x", vs[1], hs[1])
  /\ rule = 5 => IsVar(val, home, subst, "y", vs[2], hs[2])

HasPlan(ct, val, home, rule, t, ens, subst, cls) ==
  \E pv, ph : IsPlan(ct, val, home, rule, t, ens, subst, cls, pv, ph)

\* Whatever rule: its right-hand side computes the tensor of the match's root.
LEMMA MeantIsPlanned ==
  ASSUME NEW ct, NEW val, NEW home, NEW rule \in Rules, rule # 0, NEW t, NEW ens, NEW subst, NEW cls,
         NEW n, IsLength(rule, n), NEW vs, NEW hs,
         AreTensors(vs, hs, n), AreTyped(t, vs, n), IsBound(val, home, rule, cls, subst, vs, hs, n),
         Meant(rule, ens, vs, hs), CondHolds(rule, t), rule = 10 => IsLeast(vs[2])
  PROVE  HasPlan(ct, val, home, rule, t, ens, subst, cls)
<1>1. PICK x, h : x = vs[1] /\ h = hs[1]
  OBVIOUS
<1>2. n \in {1, 2, 3, 4}
  BY DEF IsLength, Rules
<1>3. IsTensor(x, h) /\ TypeIs(t[1], x) /\ IsVar(val, home, subst, "x", x, h)
  BY <1>1, <1>2 DEF AreTensors, AreTyped, IsBound
<1>4. val[cls] = vs[n] /\ home[cls] = hs[n]
  BY DEF IsBound
<1>5. CASE rule \in {2, 3, 4, 7}
  <2>1. val[cls] = x /\ home[cls] = h
    BY <1>1, <1>4, <1>5 DEF IsLength
  <2>2. ASSUME rule = 2 PROVE HasPlan(ct, val, home, rule, t, ens, subst, cls)
    <3>1. Precond_2(t)
      BY <2>2 DEF CondHolds
    <3> QED
      BY <1>3, <2>1, <2>2, <3>1, PlanOf2 DEF HasPlan
  <2>3. ASSUME rule = 3 PROVE HasPlan(ct, val, home, rule, t, ens, subst, cls)
    BY <1>3, <2>1, <2>3, PlanOf3, Zenon DEF HasPlan
  <2>4. ASSUME rule = 4 PROVE HasPlan(ct, val, home, rule, t, ens, subst, cls)
    <3>1. Precond_4(t)
      BY <2>4 DEF CondHolds
    <3> QED
      BY <1>3, <2>1, <2>4, <3>1, PlanOf4, Zenon DEF HasPlan
  <2>5. ASSUME rule = 7 PROVE HasPlan(ct, val, home, rule, t, ens, subst, cls)
    BY <1>3, <2>1, <2>5, PlanOf7 DEF HasPlan
  <2> QED
    BY <1>5, <2>2, <2>3, <2>4, <2>5
<1>6. CASE rule \in {6, 8, 9, 10}
  <2>1. vs[n] = vs[1] /\ hs[n] = hs[1]
    BY <1>6, DroppedIsNone
  <2>2. val[cls] = x /\ home[cls] = h
    BY <1>1, <1>4, <2>1
  <2> QED
    BY <1>3, <1>6, <2>2, PlanOfVar, Zenon DEF HasPlan
<1>7. CASE rule = 1
  <2>1. n = 3
    BY <1>7 DEF IsLength
  <2>2. PICK to : IsConverted(vs[2], hs[2], vs[1], to)
    BY <1>7 DEF Meant
  <2>3. to \in Dtypes /\ vs[2] = Convert(x, to) /\ hs[2] = to
    BY <1>1, <2>2 DEF IsConverted
  <2>4. ens[3].data \in Seq(Nat) /\ vs[3] = Slice(vs[2], ens[3].data, 1) /\ hs[3] = to
    BY <1>7, <2>3 DEF Meant
  <2>5. IsTensor(vs[3], to) /\ TypeIs(t[2], vs[2]) /\ TypeIs(t[3], vs[3])
    BY <2>1, <2>4 DEF AreTensors, AreTyped
  <2>6. PICK c, s, ranges : c = vs[2] /\ s = vs[3] /\ ranges = ens[3].data
    OBVIOUS
  <2>7. /\ to \in Dtypes /\ c = Convert(x, to) /\ ranges \in Seq(Nat) /\ s = Slice(c, ranges, 1)
        /\ IsTensor(s, to) /\ val[cls] = s /\ home[cls] = to /\ TypeIs(t[2], c) /\ TypeIs(t[3], s)
    BY <1>4, <2>1, <2>3, <2>4, <2>5, <2>6
  <2>8. \E pv, ph : IsPlan(ct, val, home, 1, t, ens, subst, cls, pv, ph)
    BY <1>3, <2>6, <2>7, PlanOf1, Zenon
  <2> QED
    BY <1>7, <2>8 DEF HasPlan
<1>8. CASE rule = 5
  <2>1. n = 3
    BY <1>8 DEF IsLength
  <2>2. PICK y, k0, r : y = vs[2] /\ k0 = hs[2] /\ r = vs[3]
    OBVIOUS
  <2>3. IsTensor(y, k0) /\ TypeIs(t[2], y) /\ IsTensor(r, h)
    BY <1>1, <1>8, <2>1, <2>2 DEF AreTensors, AreTyped, Meant
  <2>4. r = Binary("add", x, y) /\ val[cls] = r /\ home[cls] = h
    BY <1>1, <1>4, <1>8, <2>1, <2>2 DEF Meant
  <2>5. IsVar(val, home, subst, "y", y, k0)
    BY <1>8, <2>2 DEF IsBound
  <2>6. Precond_5(t)
    BY <1>8 DEF CondHolds
  <2>7. \E pv, ph : IsPlan(ct, val, home, 5, t, ens, subst, cls, pv, ph)
    BY <1>3, <2>3, <2>4, <2>5, <2>6, PlanOf5
  <2> QED
    BY <1>8, <2>7 DEF HasPlan
<1> QED
  BY <1>5, <1>6, <1>7, <1>8 DEF Rules

\* The law, operation by operation.
Said(en, kv, kh, v, h) ==
  /\ en.op = "reshape" => v = Reshape(kv[1], en.data) /\ h = kh[1]
  /\ en.op = "slice" => v = Slice(kv[1], en.data, 1) /\ h = kh[1]
  /\ en.op = "broadcast" => v = Broadcast(kv[1], en.data, Leading(kv[1])) /\ h = kh[1]
  /\ en.op = "add" => v = Binary("add", kv[1], kv[2]) /\ h = kh[1]
  /\ en.op = "maximum" => v = Binary("maximum", kv[1], kv[2]) /\ h = kh[1]
  /\ en.op = "convert" => v = Convert(kv[1], DtypeOf(en.text)) /\ h = DtypeOf(en.text)
  /\ en.op = "constant" => v = Scalar(<<"constant", en.text>>, v.dtype)

LEMMA LawsSay ==
  ASSUME NEW ct, NEW en, NEW kv, NEW kh, NEW v, NEW h, Law(ct, en, kv, kh, v, h)
  PROVE  Said(en, kv, kh, v, h)
<1>1. PICK info : info = Info(v.shape, v.dtype)
  OBVIOUS
<1>2. v = Computes(en, kv, info)
  BY <1>1 DEF Law
<1>3. info.dtype = v.dtype
  BY <1>1 DEF Info
<1>4. /\ en.op = "reshape" => v = Reshape(kv[1], en.data)
      /\ en.op = "slice" => v = Slice(kv[1], en.data, 1)
      /\ en.op = "broadcast" => v = Broadcast(kv[1], en.data, Leading(kv[1]))
  BY <1>2, ComputesShapes
<1>5. /\ en.op = "convert" => v = Convert(kv[1], DtypeOf(en.text))
      /\ en.op \in BinaryOps => v = Binary(en.op, kv[1], kv[2])
  BY <1>2, ComputesElements
<1>6. en.op = "constant" => v = Scalar(<<"constant", en.text>>, v.dtype)
  BY <1>2, <1>3, ComputesTyped
<1>7. "add" \in BinaryOps /\ "maximum" \in BinaryOps
  BY DEF BinaryOps
<1>8. en.op \in {"reshape", "slice", "broadcast", "add", "maximum"} => h = kh[1]
  BY DEF Law
<1>9. en.op = "convert" => h = DtypeOf(en.text)
  BY DEF Law
<1> QED
  BY <1>4, <1>5, <1>6, <1>7, <1>8, <1>9 DEF Said

\* A position that is an e-node of the e-graph keeps the law.
AtNode(ct, val, home, m, j, op, kids) ==
  /\ m.ens[j] \in ENodes /\ m.ens[j].op = op /\ m.ens[j].kids = kids
  /\ Law(ct, m.ens[j], Of(val, m.ens[j]), Of(home, m.ens[j]), val[m.ids[j]], home[m.ids[j]])

LEMMA NodeIsLawful ==
  ASSUME NEW g, NEW kind, Sound(g, kind), NEW ct, NEW val, NEW home, Lawful(ct, g, val, home),
         NEW m, NEW j, NEW op, NEW kids, InGraph(g, m, j, op, kids)
  PROVE  AtNode(ct, val, home, m, j, op, kids)
<1>1. PICK node \in g.nodes : node.cls = m.ids[j] /\ node.en = m.ens[j] /\ node.en.op = op /\ node.en.kids = kids
  BY DEF InGraph
<1>2. NodeLaw(ct, val, home, node)
  BY DEF Lawful
<1>3. node.en \in ENodes
  BY SoundIds
<1> QED
  BY <1>1, <1>2, <1>3 DEF NodeLaw, AtNode

LEMMA AlongIs ==
  ASSUME NEW ids, NEW n, DOMAIN ids = 1 .. n, NEW f, NEW vs, vs = Along(f, ids)
  PROVE  \A j \in 1 .. n : vs[j] = f[ids[j]]
BY DEF Along

\* What the rule takes for granted of a match is not so.
MistakenAt(val, m, rule) == rule = 6 /\ val[m.ids[3]] # val[m.ids[1]]

OneSays(op, en, x, k, v, h) ==
  /\ en.data \in Seq(Nat)
  /\ op = "reshape" => v = Reshape(x, en.data) /\ h = k
  /\ op = "slice" => v = Slice(x, en.data, 1) /\ h = k
  /\ op = "broadcast" => v = Broadcast(x, en.data, Leading(x)) /\ h = k
  /\ op = "convert" => v = Convert(x, DtypeOf(en.text)) /\ h = DtypeOf(en.text)

LEMMA UnaryMeans ==
  ASSUME NEW ct, NEW val, NEW home, NEW m, NEW j, NEW op, NEW k, AtNode(ct, val, home, m, j, op, <<m.ids[k]>>)
  PROVE  OneSays(op, m.ens[j], val[m.ids[k]], home[m.ids[k]], val[m.ids[j]], home[m.ids[j]])
<1>1. PICK en, v, h : en = m.ens[j] /\ v = val[m.ids[j]] /\ h = home[m.ids[j]]
  OBVIOUS
<1>2. en \in ENodes /\ en.op = op /\ en.kids = <<m.ids[k]>>
  BY <1>1 DEF AtNode
<1>3. PICK kv, kh : kv = Of(val, en) /\ kh = Of(home, en)
  OBVIOUS
<1>4. Law(ct, en, kv, kh, v, h)
  BY <1>1, <1>3 DEF AtNode
<1>5. kv[1] = val[m.ids[k]] /\ kh[1] = home[m.ids[k]]
  BY <1>2, <1>3, OfOne
<1>6. en.data \in Seq(Nat)
  BY <1>2 DEF ENodes
<1>7. Said(en, kv, kh, v, h)
  BY <1>4, LawsSay
<1>8. OneSays(op, en, kv[1], kh[1], v, h)
  BY <1>2, <1>6, <1>7, Zenon DEF Said, OneSays
<1> QED
  BY <1>1, <1>5, <1>8, Zenon

TwoSays(op, x, k, y, v, h) ==
  op \in {"add", "maximum"} => v = Binary(op, x, y) /\ h = k

LEMMA BinaryMeans ==
  ASSUME NEW ct, NEW val, NEW home, NEW m, NEW j, NEW op, NEW k, NEW l,
         AtNode(ct, val, home, m, j, op, <<m.ids[k], m.ids[l]>>)
  PROVE  TwoSays(op, val[m.ids[k]], home[m.ids[k]], val[m.ids[l]], val[m.ids[j]], home[m.ids[j]])
<1>1. PICK en, v, h : en = m.ens[j] /\ v = val[m.ids[j]] /\ h = home[m.ids[j]]
  OBVIOUS
<1>2. en.op = op /\ en.kids = <<m.ids[k], m.ids[l]>>
  BY <1>1 DEF AtNode
<1>3. PICK kv, kh : kv = Of(val, en) /\ kh = Of(home, en)
  OBVIOUS
<1>4. Law(ct, en, kv, kh, v, h)
  BY <1>1, <1>3 DEF AtNode
<1>5. kv[1] = val[m.ids[k]] /\ kh[1] = home[m.ids[k]] /\ kv[2] = val[m.ids[l]]
  BY <1>2, <1>3, OfTwo
<1>6. Said(en, kv, kh, v, h)
  BY <1>4, LawsSay
<1>7. TwoSays(op, kv[1], kh[1], kv[2], v, h)
  BY <1>2, <1>6 DEF Said, TwoSays
<1> QED
  BY <1>1, <1>5, <1>7, Zenon

\* A match, by the tensors of its classes.
LEMMA MatchIsMeant ==
  ASSUME NEW g, NEW kind, Sound(g, kind), NEW ct, NEW val, NEW home, Lawful(ct, g, val, home),
         NEW rule, NEW n, IsLength(rule, n), NEW m, DOMAIN m.ids = 1 .. n,
         \A j \in 1 .. n : m.ids[j] \in Ids(g),
         MatchNodes(g, rule, m), ~MistakenAt(val, m, rule),
         NEW vs, vs = Along(val, m.ids), NEW hs, hs = Along(home, m.ids)
  PROVE  AreTensors(vs, hs, n) /\ Meant(rule, m.ens, vs, hs)
<1>1. \A j \in 1 .. n : vs[j] = val[m.ids[j]] /\ hs[j] = home[m.ids[j]]
  BY AlongIs
<1>2. AreTensors(vs, hs, n)
  BY <1>1 DEF AreTensors, Lawful, ClassValue
<1>3. ASSUME rule = 1
      PROVE  /\ \E to : IsConverted(vs[2], hs[2], vs[1], to)
             /\ m.ens[3].data \in Seq(Nat) /\ vs[3] = Slice(vs[2], m.ens[3].data, 1) /\ hs[3] = hs[2]
  <2>1. n = 3 /\ 1 \in 1 .. n /\ 2 \in 1 .. n /\ 3 \in 1 .. n
    BY <1>3 DEF IsLength
  <2>2. InGraph(g, m, 2, "convert", <<m.ids[1]>>) /\ InGraph(g, m, 3, "slice", <<m.ids[2]>>)
    BY <1>3 DEF MatchNodes
  <2>3. AtNode(ct, val, home, m, 2, "convert", <<m.ids[1]>>) /\ AtNode(ct, val, home, m, 3, "slice", <<m.ids[2]>>)
    BY <2>2, NodeIsLawful
  <2>4. val[m.ids[2]] = Convert(val[m.ids[1]], DtypeOf(m.ens[2].text)) /\ home[m.ids[2]] = DtypeOf(m.ens[2].text)
    <3>1. AtNode(ct, val, home, m, 2, "convert", <<m.ids[1]>>)
      BY <2>3
    <3>2. OneSays("convert", m.ens[2], val[m.ids[1]], home[m.ids[1]], val[m.ids[2]], home[m.ids[2]])
      BY <3>1, UnaryMeans, Zenon
    <3> QED
      BY <3>2 DEF OneSays
  <2>5. m.ens[3].data \in Seq(Nat) /\ val[m.ids[3]] = Slice(val[m.ids[2]], m.ens[3].data, 1)
        /\ home[m.ids[3]] = home[m.ids[2]]
    <3>1. AtNode(ct, val, home, m, 3, "slice", <<m.ids[2]>>)
      BY <2>3
    <3>2. OneSays("slice", m.ens[3], val[m.ids[2]], home[m.ids[2]], val[m.ids[3]], home[m.ids[3]])
      BY <3>1, UnaryMeans, Zenon
    <3> QED
      BY <3>2 DEF OneSays
  <2>6. hs[2] \in Dtypes
    BY <1>2, <2>1 DEF AreTensors, IsTensor
  <2>7. IsConverted(vs[2], hs[2], vs[1], DtypeOf(m.ens[2].text))
    BY <1>1, <2>1, <2>4, <2>6 DEF IsConverted
  <2> QED
    BY <1>1, <2>1, <2>5, <2>7
<1>4. ASSUME rule = 5 PROVE vs[3] = Binary("add", vs[1], vs[2]) /\ hs[3] = hs[1]
  <2>1. n = 3 /\ 1 \in 1 .. n /\ 2 \in 1 .. n /\ 3 \in 1 .. n
    BY <1>4 DEF IsLength
  <2>2. InGraph(g, m, 3, "add", <<m.ids[1], m.ids[2]>>)
    BY <1>4 DEF MatchNodes
  <2>3. AtNode(ct, val, home, m, 3, "add", <<m.ids[1], m.ids[2]>>)
    BY <2>2, NodeIsLawful
  <2>4. val[m.ids[3]] = Binary("add", val[m.ids[1]], val[m.ids[2]]) /\ home[m.ids[3]] = home[m.ids[1]]
    <3>1. AtNode(ct, val, home, m, 3, "add", <<m.ids[1], m.ids[2]>>)
      BY <2>3
    <3>2. TwoSays("add", val[m.ids[1]], home[m.ids[1]], val[m.ids[2]], val[m.ids[3]], home[m.ids[3]])
      BY <3>1, BinaryMeans, Zenon
    <3> QED
      BY <3>2 DEF TwoSays
  <2> QED
    BY <1>1, <2>1, <2>4
<1>5. ASSUME rule = 6 PROVE vs[3] = vs[1]
  <2>1. n = 3 /\ 1 \in 1 .. n /\ 3 \in 1 .. n
    BY <1>5 DEF IsLength
  <2> QED
    BY <1>1, <1>5, <2>1 DEF MistakenAt
<1>6. ASSUME rule = 8
      PROVE  /\ m.ens[2].data \in Seq(Nat) /\ vs[2] = Broadcast(vs[1], m.ens[2].data, Leading(vs[1]))
             /\ hs[2] = hs[1]
  <2>1. n = 2 /\ 1 \in 1 .. n /\ 2 \in 1 .. n
    BY <1>6 DEF IsLength
  <2>2. InGraph(g, m, 2, "broadcast", <<m.ids[1]>>)
    BY <1>6 DEF MatchNodes
  <2>3. AtNode(ct, val, home, m, 2, "broadcast", <<m.ids[1]>>)
    BY <2>2, NodeIsLawful
  <2>4. /\ m.ens[2].data \in Seq(Nat)
        /\ val[m.ids[2]] = Broadcast(val[m.ids[1]], m.ens[2].data, Leading(val[m.ids[1]]))
        /\ home[m.ids[2]] = home[m.ids[1]]
    <3>1. AtNode(ct, val, home, m, 2, "broadcast", <<m.ids[1]>>)
      BY <2>3
    <3>2. OneSays("broadcast", m.ens[2], val[m.ids[1]], home[m.ids[1]], val[m.ids[2]], home[m.ids[2]])
      BY <3>1, UnaryMeans, Zenon
    <3> QED
      BY <3>2 DEF OneSays
  <2> QED
    BY <1>1, <2>1, <2>4
<1>7. ASSUME rule = 9
      PROVE  /\ vs[2] = Reshape(vs[1], m.ens[2].data) /\ hs[2] = hs[1]
             /\ vs[3] = Reshape(vs[2], m.ens[3].data) /\ hs[3] = hs[2]
  <2>1. n = 3 /\ 1 \in 1 .. n /\ 2 \in 1 .. n /\ 3 \in 1 .. n
    BY <1>7 DEF IsLength
  <2>2. InGraph(g, m, 2, "reshape", <<m.ids[1]>>) /\ InGraph(g, m, 3, "reshape", <<m.ids[2]>>)
    BY <1>7 DEF MatchNodes
  <2>3. AtNode(ct, val, home, m, 2, "reshape", <<m.ids[1]>>) /\ AtNode(ct, val, home, m, 3, "reshape", <<m.ids[2]>>)
    BY <2>2, NodeIsLawful
  <2>4. val[m.ids[2]] = Reshape(val[m.ids[1]], m.ens[2].data) /\ home[m.ids[2]] = home[m.ids[1]]
    <3>1. AtNode(ct, val, home, m, 2, "reshape", <<m.ids[1]>>)
      BY <2>3
    <3>2. OneSays("reshape", m.ens[2], val[m.ids[1]], home[m.ids[1]], val[m.ids[2]], home[m.ids[2]])
      BY <3>1, UnaryMeans, Zenon
    <3> QED
      BY <3>2 DEF OneSays
  <2>5. val[m.ids[3]] = Reshape(val[m.ids[2]], m.ens[3].data) /\ home[m.ids[3]] = home[m.ids[2]]
    <3>1. AtNode(ct, val, home, m, 3, "reshape", <<m.ids[2]>>)
      BY <2>3
    <3>2. OneSays("reshape", m.ens[3], val[m.ids[2]], home[m.ids[2]], val[m.ids[3]], home[m.ids[3]])
      BY <3>1, UnaryMeans, Zenon
    <3> QED
      BY <3>2 DEF OneSays
  <2> QED
    BY <1>1, <2>1, <2>4, <2>5
<1>8. ASSUME rule = 10
      PROVE  /\ m.ens[3].data \in Seq(Nat) /\ vs[3] = Broadcast(vs[2], m.ens[3].data, Leading(vs[2]))
             /\ vs[4] = Binary("maximum", vs[1], vs[3]) /\ hs[4] = hs[1]
  <2>1. n = 4 /\ 1 \in 1 .. n /\ 2 \in 1 .. n /\ 3 \in 1 .. n /\ 4 \in 1 .. n
    BY <1>8 DEF IsLength
  <2>2. InGraph(g, m, 3, "broadcast", <<m.ids[2]>>) /\ InGraph(g, m, 4, "maximum", <<m.ids[1], m.ids[3]>>)
    BY <1>8 DEF MatchNodes
  <2>3. AtNode(ct, val, home, m, 3, "broadcast", <<m.ids[2]>>)
        /\ AtNode(ct, val, home, m, 4, "maximum", <<m.ids[1], m.ids[3]>>)
    BY <2>2, NodeIsLawful
  <2>4. /\ m.ens[3].data \in Seq(Nat)
        /\ val[m.ids[3]] = Broadcast(val[m.ids[2]], m.ens[3].data, Leading(val[m.ids[2]]))
    <3>1. AtNode(ct, val, home, m, 3, "broadcast", <<m.ids[2]>>)
      BY <2>3
    <3>2. OneSays("broadcast", m.ens[3], val[m.ids[2]], home[m.ids[2]], val[m.ids[3]], home[m.ids[3]])
      BY <3>1, UnaryMeans, Zenon
    <3> QED
      BY <3>2 DEF OneSays
  <2>5. val[m.ids[4]] = Binary("maximum", val[m.ids[1]], val[m.ids[3]]) /\ home[m.ids[4]] = home[m.ids[1]]
    <3>1. AtNode(ct, val, home, m, 4, "maximum", <<m.ids[1], m.ids[3]>>)
      BY <2>3
    <3>2. TwoSays("maximum", val[m.ids[1]], home[m.ids[1]], val[m.ids[3]], val[m.ids[4]], home[m.ids[4]])
      BY <3>1, BinaryMeans, Zenon
    <3> QED
      BY <3>2 DEF TwoSays
  <2> QED
    BY <1>1, <2>1, <2>4, <2>5
<1>9. Meant(rule, m.ens, vs, hs)
  BY <1>3, <1>4, <1>5, <1>6, <1>7, <1>8, Zenon DEF Meant
<1> QED
  BY <1>2, <1>9

\* Rule 10's condition, which looks for the constant as the rule is applied.
LEMMA ConstantIsLeast ==
  ASSUME NEW g, NEW kind, Sound(g, kind), NEW ct, NEW val, NEW home, Lawful(ct, g, val, home),
         NEW ids, NEW t, Precond_10(g, ids, t), ids[2] \in Ids(g)
  PROVE  IsLeast(val[ids[2]])
<1>1. PICK en \in NodesOf(g, ids[2]) : en.op = "constant" /\ en.text = "-inf"
  BY DEF Precond_10
<1>2. PICK node \in g.nodes : node.cls = Find(g, ids[2]) /\ node.en = en
  BY DEF NodesOf
<1>3. PICK v : v = val[ids[2]]
  OBVIOUS
<1>4. v = val[node.cls] /\ v.dtype \in Dtypes
  <2>1. ClassValue(g, val, home, ids[2])
    BY DEF Lawful
  <2>2. v = val[node.cls] /\ IsTensor(v, home[ids[2]])
    BY <1>2, <1>3, <2>1 DEF ClassValue
  <2> QED
    BY <2>2, TensorFacts
<1>5. NodeLaw(ct, val, home, node)
  BY DEF Lawful
<1>6. v = Scalar(<<"constant", "-inf">>, v.dtype)
  <2>1. PICK kv, kh, h : Law(ct, en, kv, kh, v, h)
    BY <1>2, <1>4, <1>5 DEF NodeLaw
  <2>2. Said(en, kv, kh, v, h)
    BY <2>1, LawsSay
  <2> QED
    BY <1>1, <2>2 DEF Said
<1> QED
  BY <1>3, <1>4, <1>6 DEF IsLeast, NegInf

-----------------------------------------------------------------------------
(* A step of apply_one that is not mistaken.                               *)

LEMMA VarOfN == \A op, kids : N(op, kids).var = ""
BY DEF N

\* The one variable of a name.
OnlyAt(pat, p, name) ==
  p \in DOMAIN pat /\ \A i \in DOMAIN pat : pat[i].var = name <=> i = p

BoundTo(pat, ids, name, id) == name \in Vars(pat) /\ Subst(pat, ids)[name] = id

LEMMA SubstOfOnly ==
  ASSUME NEW pat, NEW p, NEW name, name # "", OnlyAt(pat, p, name), NEW ids
  PROVE  BoundTo(pat, ids, name, ids[p])
<1>1. name \in Vars(pat)
  BY Zenon DEF Vars, OnlyAt
<1>2. (CHOOSE i \in DOMAIN pat : pat[i].var = name) = p
  BY Zenon DEF OnlyAt
<1> QED
  BY <1>1, <1>2, Zenon DEF Subst, BoundTo

\* x is the first position, and the y of rule 5 the second.
LEMMA VarsOfRule ==
  ASSUME NEW rule \in Rules, rule # 0
  PROVE  OnlyAt(Lhs(rule), 1, "x") /\ (rule = 5 => OnlyAt(Lhs(rule), 2, "y"))
<1> DEFINE pat == Lhs(rule)
<1>0. "x" # "" /\ "y" # "" /\ "x" # "y" /\ "c" # "x"
  OBVIOUS
<1>1. ASSUME rule = 1 PROVE OnlyAt(pat, 1, "x") /\ (rule = 5 => OnlyAt(pat, 2, "y"))
  <2>1. pat = <<V("x"), N("convert", <<1>>), N("slice", <<2>>)>>
    BY <1>1 DEF Lhs
  <2>2. DOMAIN pat = 1 .. 3 /\ pat[1] = V("x") /\ pat[2] = N("convert", <<1>>) /\ pat[3] = N("slice", <<2>>)
    BY <2>1
  <2> HIDE DEF pat
  <2>3. pat[1].var = "x"
    BY <2>2, Parts, Zenon
  <2>4. pat[2].var = ""
    BY <2>2, VarOfN, Zenon
  <2>5. pat[3].var = ""
    BY <2>2, VarOfN, Zenon
  <2>9. \A i \in DOMAIN pat : i = 1 \/ i = 2 \/ i = 3
    BY <2>2
  <2>10. 1 \in DOMAIN pat /\ 2 \in DOMAIN pat /\ 3 \in DOMAIN pat
    BY <2>2
  <2>11. 1 # 2 /\ 1 # 3 /\ 2 # 3 
    OBVIOUS
  <2>12. OnlyAt(pat, 1, "x")
    BY <1>0, <2>3, <2>4, <2>5, <2>9, <2>10, <2>11, Zenon DEF OnlyAt
  <2>13. rule # 5
    BY <1>1
  <2> QED
    BY <2>12, <2>13
<1>2. ASSUME rule \in {2, 3, 4, 7} PROVE OnlyAt(pat, 1, "x") /\ (rule = 5 => OnlyAt(pat, 2, "y"))
  <2>1. pat = <<V("x")>>
    BY <1>2 DEF Lhs
  <2>2. DOMAIN pat = 1 .. 1 /\ pat[1] = V("x")
    BY <2>1
  <2> HIDE DEF pat
  <2>3. pat[1].var = "x"
    BY <2>2, Parts, Zenon
  <2>9. \A i \in DOMAIN pat : i = 1
    BY <2>2
  <2>10. 1 \in DOMAIN pat
    BY <2>2
  <2>12. OnlyAt(pat, 1, "x")
    BY <1>0, <2>3, <2>9, <2>10, Zenon DEF OnlyAt
  <2>13. rule # 5
    BY <1>2
  <2> QED
    BY <2>12, <2>13
<1>3. ASSUME rule = 5 PROVE OnlyAt(pat, 1, "x") /\ (rule = 5 => OnlyAt(pat, 2, "y"))
  <2>1. pat = <<V("x"), V("y"), N("add", <<1, 2>>)>>
    BY <1>3 DEF Lhs
  <2>2. DOMAIN pat = 1 .. 3 /\ pat[1] = V("x") /\ pat[2] = V("y") /\ pat[3] = N("add", <<1, 2>>)
    BY <2>1
  <2> HIDE DEF pat
  <2>3. pat[1].var = "x"
    BY <2>2, Parts, Zenon
  <2>4. pat[2].var = "y"
    BY <2>2, Parts, Zenon
  <2>5. pat[3].var = ""
    BY <2>2, VarOfN, Zenon
  <2>9. \A i \in DOMAIN pat : i = 1 \/ i = 2 \/ i = 3
    BY <2>2
  <2>10. 1 \in DOMAIN pat /\ 2 \in DOMAIN pat /\ 3 \in DOMAIN pat
    BY <2>2
  <2>11. 1 # 2 /\ 1 # 3 /\ 2 # 3 
    OBVIOUS
  <2>12. OnlyAt(pat, 1, "x") /\ OnlyAt(pat, 2, "y")
    BY <1>0, <2>3, <2>4, <2>5, <2>9, <2>10, <2>11, Zenon DEF OnlyAt
  <2> QED
    BY <2>12
<1>4. ASSUME rule = 6 PROVE OnlyAt(pat, 1, "x") /\ (rule = 5 => OnlyAt(pat, 2, "y"))
  <2>1. pat = <<V("x"), N("convert", <<1>>), N("convert", <<2>>)>>
    BY <1>4 DEF Lhs
  <2>2. DOMAIN pat = 1 .. 3 /\ pat[1] = V("x") /\ pat[2] = N("convert", <<1>>) /\ pat[3] = N("convert", <<2>>)
    BY <2>1
  <2> HIDE DEF pat
  <2>3. pat[1].var = "x"
    BY <2>2, Parts, Zenon
  <2>4. pat[2].var = ""
    BY <2>2, VarOfN, Zenon
  <2>5. pat[3].var = ""
    BY <2>2, VarOfN, Zenon
  <2>9. \A i \in DOMAIN pat : i = 1 \/ i = 2 \/ i = 3
    BY <2>2
  <2>10. 1 \in DOMAIN pat /\ 2 \in DOMAIN pat /\ 3 \in DOMAIN pat
    BY <2>2
  <2>11. 1 # 2 /\ 1 # 3 /\ 2 # 3 
    OBVIOUS
  <2>12. OnlyAt(pat, 1, "x")
    BY <1>0, <2>3, <2>4, <2>5, <2>9, <2>10, <2>11, Zenon DEF OnlyAt
  <2>13. rule # 5
    BY <1>4
  <2> QED
    BY <2>12, <2>13
<1>5. ASSUME rule = 8 PROVE OnlyAt(pat, 1, "x") /\ (rule = 5 => OnlyAt(pat, 2, "y"))
  <2>1. pat = <<V("x"), N("broadcast", <<1>>)>>
    BY <1>5 DEF Lhs
  <2>2. DOMAIN pat = 1 .. 2 /\ pat[1] = V("x") /\ pat[2] = N("broadcast", <<1>>)
    BY <2>1
  <2> HIDE DEF pat
  <2>3. pat[1].var = "x"
    BY <2>2, Parts, Zenon
  <2>4. pat[2].var = ""
    BY <2>2, VarOfN, Zenon
  <2>9. \A i \in DOMAIN pat : i = 1 \/ i = 2
    BY <2>2
  <2>10. 1 \in DOMAIN pat /\ 2 \in DOMAIN pat
    BY <2>2
  <2>11. 1 # 2 
    OBVIOUS
  <2>12. OnlyAt(pat, 1, "x")
    BY <1>0, <2>3, <2>4, <2>9, <2>10, <2>11, Zenon DEF OnlyAt
  <2>13. rule # 5
    BY <1>5
  <2> QED
    BY <2>12, <2>13
<1>6. ASSUME rule = 9 PROVE OnlyAt(pat, 1, "x") /\ (rule = 5 => OnlyAt(pat, 2, "y"))
  <2>1. pat = <<V("x"), N("reshape", <<1>>), N("reshape", <<2>>)>>
    BY <1>6 DEF Lhs
  <2>2. DOMAIN pat = 1 .. 3 /\ pat[1] = V("x") /\ pat[2] = N("reshape", <<1>>) /\ pat[3] = N("reshape", <<2>>)
    BY <2>1
  <2> HIDE DEF pat
  <2>3. pat[1].var = "x"
    BY <2>2, Parts, Zenon
  <2>4. pat[2].var = ""
    BY <2>2, VarOfN, Zenon
  <2>5. pat[3].var = ""
    BY <2>2, VarOfN, Zenon
  <2>9. \A i \in DOMAIN pat : i = 1 \/ i = 2 \/ i = 3
    BY <2>2
  <2>10. 1 \in DOMAIN pat /\ 2 \in DOMAIN pat /\ 3 \in DOMAIN pat
    BY <2>2
  <2>11. 1 # 2 /\ 1 # 3 /\ 2 # 3 
    OBVIOUS
  <2>12. OnlyAt(pat, 1, "x")
    BY <1>0, <2>3, <2>4, <2>5, <2>9, <2>10, <2>11, Zenon DEF OnlyAt
  <2>13. rule # 5
    BY <1>6
  <2> QED
    BY <2>12, <2>13
<1>7. ASSUME rule = 10 PROVE OnlyAt(pat, 1, "x") /\ (rule = 5 => OnlyAt(pat, 2, "y"))
  <2>1. pat = <<V("x"), V("c"), N("broadcast", <<2>>), N("maximum", <<1, 3>>)>>
    BY <1>7 DEF Lhs
  <2>2. DOMAIN pat = 1 .. 4 /\ pat[1] = V("x") /\ pat[2] = V("c") /\ pat[3] = N("broadcast", <<2>>) /\ pat[4] = N("maximum", <<1, 3>>)
    BY <2>1
  <2> HIDE DEF pat
  <2>3. pat[1].var = "x"
    BY <2>2, Parts, Zenon
  <2>4. pat[2].var = "c"
    BY <2>2, Parts, Zenon
  <2>5. pat[3].var = ""
    BY <2>2, VarOfN, Zenon
  <2>6. pat[4].var = ""
    BY <2>2, VarOfN, Zenon
  <2>9. \A i \in DOMAIN pat : i = 1 \/ i = 2 \/ i = 3 \/ i = 4
    BY <2>2
  <2>10. 1 \in DOMAIN pat /\ 2 \in DOMAIN pat /\ 3 \in DOMAIN pat /\ 4 \in DOMAIN pat
    BY <2>2
  <2>11. 1 # 2 /\ 1 # 3 /\ 1 # 4 /\ 2 # 3 /\ 2 # 4 
    OBVIOUS
  <2>12. OnlyAt(pat, 1, "x")
    BY <1>0, <2>3, <2>4, <2>5, <2>6, <2>9, <2>10, <2>11, Zenon DEF OnlyAt
  <2>13. rule # 5
    BY <1>7
  <2> QED
    BY <2>12, <2>13
<1> QED
  BY <1>1, <1>2, <1>3, <1>4, <1>5, <1>6, <1>7 DEF Rules

LEMMA KeepsItself ==
  ASSUME NEW ct, NEW g, NEW kind, Sound(g, kind), NEW val, NEW home, Lawful(ct, g, val, home),
         NEW n0, Fresh(g, n0), TrueInfos(g, val)
  PROVE  Keeps(ct, g, kind, val, home, n0, g)
<1>1. Grows(g, kind, g, kind)
  BY GrowsReflexive
<1>2. Extends(val, val, Len(g.uf)) /\ Extends(home, home, Len(g.uf))
  BY ExtendsReflexive
<1> QED
  BY <1>1, <1>2, Zenon DEF Keeps, GrownLawful

LEMMA KeepsTransitive ==
  ASSUME NEW ct, NEW g, NEW kind, Sound(g, kind), NEW val, NEW home, NEW n0,
         NEW x, NEW more, NEW val2, NEW home2,
         GrownLawful(ct, g, kind, val, home, n0, x, more, val2, home2),
         NEW h, Keeps(ct, x, more, val2, home2, n0, h)
  PROVE  Keeps(ct, g, kind, val, home, n0, h)
<1>1. PICK most, val3, home3 :
        GrownLawful(ct, x, more, val2, home2, n0, h, most, val3, home3) /\ TrueInfos(h, val3)
  BY DEF Keeps
<1>2. Sound(x, more) /\ Sound(h, most) /\ Grows(g, kind, x, more) /\ Grows(x, more, h, most)
  BY <1>1, Zenon DEF GrownLawful
<1>3. Grows(g, kind, h, most)
  BY <1>2, GrowsTransitive, Zenon
<1>4. Len(g.uf) \in Nat /\ Len(x.uf) \in Nat /\ Len(g.uf) <= Len(x.uf)
  BY <1>2, SoundIds DEF Grows
<1>5. Extends(val2, val, Len(g.uf)) /\ Extends(val3, val2, Len(x.uf))
      /\ Extends(home2, home, Len(g.uf)) /\ Extends(home3, home2, Len(x.uf))
  BY <1>1, Zenon DEF GrownLawful
<1>6. Extends(val3, val, Len(g.uf)) /\ Extends(home3, home, Len(g.uf))
  BY <1>4, <1>5, ExtendsTransitive
<1>7. GrownLawful(ct, g, kind, val, home, n0, h, most, val3, home3)
  BY <1>1, <1>2, <1>3, <1>6, Zenon DEF GrownLawful
<1> QED
  BY <1>1, <1>7, Zenon DEF Keeps

\* The types of a match's classes are those of its tensors: they stay.
LEMMA MatchIsTyped ==
  ASSUME NEW g, NEW kind, Sound(g, kind), NEW ct, NEW val, NEW home, Lawful(ct, g, val, home),
         TrueInfos(g, val), NEW ids, NEW n, DOMAIN ids = 1 .. n, \A j \in 1 .. n : ids[j] \in Ids(g),
         NEW vs, vs = Along(val, ids)
  PROVE  AreTyped(InfosOf(g, ids), vs, n)
<1> SUFFICES ASSUME NEW j \in 1 .. n PROVE TypeIs(InfosOf(g, ids)[j], vs[j])
  BY DEF AreTyped
<1>1. PICK c : c = Find(g, ids[j])
  OBVIOUS
<1>2. c \in Classes(g) /\ ids[j] \in Ids(g)
  BY <1>1, SoundIds
<1>3. InfosOf(g, ids)[j] = g.info[c]
  BY <1>1 DEF InfosOf, InfoOf
<1>4. g.info[c] = Info(val[c].shape, val[c].dtype)
  BY <1>2 DEF TrueInfos, TrueAt
<1>5. val[ids[j]] = val[c]
  BY <1>1, <1>2 DEF Lawful, ClassValue
<1>6. vs[j] = val[ids[j]]
  BY DEF Along
<1> QED
  BY <1>3, <1>4, <1>5, <1>6 DEF TypeIs

LEMMA SameTypes ==
  ASSUME NEW g, NEW h, NEW ids, NEW n, DOMAIN ids = 1 .. n, NEW vs,
         AreTyped(InfosOf(g, ids), vs, n), AreTyped(InfosOf(h, ids), vs, n)
  PROVE  InfosOf(g, ids) = InfosOf(h, ids)
<1>1. \A j \in DOMAIN ids : InfoOf(g, ids[j]) = InfoOf(h, ids[j])
  BY DEF AreTyped, TypeIs, InfosOf
<1> QED
  BY <1>1 DEF InfosOf

LEMMA AlongExtended ==
  ASSUME NEW top, NEW val, NEW val2, Extends(val2, val, top), NEW ids, NEW n, DOMAIN ids = 1 .. n,
         \A j \in 1 .. n : ids[j] \in 1 .. top
  PROVE  Along(val2, ids) = Along(val, ids)
BY DEF Along, Extends

\* What apply_one may take for granted of the classes it was called for.
SoberAt(g, val, rule, cls, subst, m) ==
  rule = 10 \/ Precond(rule, g, m.ids, InfosOf(g, m.ids)) =>
    /\ rule # 0
    /\ \A v \in Vars(Lhs(rule)) : Find(g, Subst(Lhs(rule), m.ids)[v]) = Find(g, subst[v])
    /\ rule = 6 => val[Find(g, cls)] = val[Find(g, subst["x"])]

LEMMA CondOfOthers ==
  ASSUME NEW rule \in Rules, rule # 10, NEW g, NEW h, NEW ids, NEW t, Precond(rule, h, ids, t)
  PROVE  Precond(rule, g, ids, t)
<1>1. ASSUME rule = 0 PROVE Precond(rule, g, ids, t)
  <2>1. Precond_0(t)
    BY <1>1 DEF Precond
  <2> QED
    BY <1>1, <2>1 DEF Precond
<1>2. ASSUME rule = 1 PROVE Precond(rule, g, ids, t)
  <2>1. Precond_1(t)
    BY <1>2 DEF Precond
  <2> QED
    BY <1>2, <2>1 DEF Precond
<1>3. ASSUME rule = 2 PROVE Precond(rule, g, ids, t)
  <2>1. Precond_2(t)
    BY <1>3 DEF Precond
  <2> QED
    BY <1>3, <2>1 DEF Precond
<1>4. ASSUME rule = 3 PROVE Precond(rule, g, ids, t)
  <2>1. Precond_3(t)
    BY <1>4 DEF Precond
  <2> QED
    BY <1>4, <2>1 DEF Precond
<1>5. ASSUME rule = 4 PROVE Precond(rule, g, ids, t)
  <2>1. Precond_4(t)
    BY <1>5 DEF Precond
  <2> QED
    BY <1>5, <2>1 DEF Precond
<1>6. ASSUME rule = 5 PROVE Precond(rule, g, ids, t)
  <2>1. Precond_5(t)
    BY <1>6 DEF Precond
  <2> QED
    BY <1>6, <2>1 DEF Precond
<1>7. ASSUME rule = 6 PROVE Precond(rule, g, ids, t)
  <2>1. Precond_6(t)
    BY <1>7 DEF Precond
  <2> QED
    BY <1>7, <2>1 DEF Precond
<1>8. ASSUME rule = 7 PROVE Precond(rule, g, ids, t)
  <2>1. Precond_7(t)
    BY <1>8 DEF Precond
  <2> QED
    BY <1>8, <2>1 DEF Precond
<1>9. ASSUME rule = 8 PROVE Precond(rule, g, ids, t)
  <2>1. Precond_8(t)
    BY <1>9 DEF Precond
  <2> QED
    BY <1>9, <2>1 DEF Precond
<1>10. ASSUME rule = 9 PROVE Precond(rule, g, ids, t)
  <2>1. Precond_9(t)
    BY <1>10 DEF Precond
  <2> QED
    BY <1>10, <2>1 DEF Precond
<1> QED
  BY <1>1, <1>2, <1>3, <1>4, <1>5, <1>6, <1>7, <1>8, <1>9, <1>10 DEF Rules

\* The substitution binds what the match binds.
LEMMA MatchIsBound ==
  ASSUME NEW g, NEW kind, Sound(g, kind), NEW ct, NEW val, NEW home, Lawful(ct, g, val, home),
         NEW rule, rule # 0, NEW cls, NEW subst, SubstOK(g, kind, rule, cls, subst),
         NEW n, IsLength(rule, n), NEW m, DOMAIN m.ids = 1 .. n, n \in Nat \ {0},
         \A j \in 1 .. n : m.ids[j] \in Ids(g), m.ids[n] = Find(g, cls),
         \A v \in Vars(Lhs(rule)) : Find(g, Subst(Lhs(rule), m.ids)[v]) = Find(g, subst[v]),
         NEW vs, vs = Along(val, m.ids), NEW hs, hs = Along(home, m.ids)
  PROVE  IsBound(val, home, rule, cls, subst, vs, hs, n)
<1>0. rule \in Rules /\ cls \in Ids(g)
  BY DEF SubstOK
<1>1. \A j \in 1 .. n : vs[j] = val[m.ids[j]] /\ hs[j] = home[m.ids[j]]
  BY AlongIs
<1>2. \A a, b \in Ids(g) : Find(g, a) = Find(g, b) => val[a] = val[b] /\ home[a] = home[b]
  BY DEF Lawful, ClassValue
<1>3. val[cls] = vs[n] /\ home[cls] = hs[n]
  <2>1. n \in 1 .. n /\ val[cls] = val[Find(g, cls)] /\ home[cls] = home[Find(g, cls)]
    BY <1>0 DEF Lawful, ClassValue
  <2> QED
    BY <1>1, <2>1
<1>4. "x" \in RuleVars(rule) /\ (rule = 5 => "y" \in RuleVars(rule))
  BY <1>0 DEF RuleVars
<1>5. subst["x"] \in Ids(g) /\ (rule = 5 => subst["y"] \in Ids(g))
  BY <1>4 DEF SubstOK
<1>6. IsVar(val, home, subst, "x", vs[1], hs[1])
  <2>1. OnlyAt(Lhs(rule), 1, "x") /\ "x" # ""
    BY <1>0, VarsOfRule
  <2>2. BoundTo(Lhs(rule), m.ids, "x", m.ids[1])
    BY <2>1, SubstOfOnly, Zenon
  <2>3. Find(g, m.ids[1]) = Find(g, subst["x"])
    BY <2>2 DEF BoundTo
  <2>4. 1 \in 1 .. n
    OBVIOUS
  <2> QED
    BY <1>1, <1>2, <1>5, <2>3, <2>4 DEF IsVar
<1>7. ASSUME rule = 5 PROVE IsVar(val, home, subst, "y", vs[2], hs[2])
  <2>1. OnlyAt(Lhs(rule), 2, "y") /\ "y" # ""
    BY <1>0, <1>7, VarsOfRule
  <2>2. BoundTo(Lhs(rule), m.ids, "y", m.ids[2])
    BY <2>1, SubstOfOnly, Zenon
  <2>3. Find(g, m.ids[2]) = Find(g, subst["y"])
    BY <2>2 DEF BoundTo
  <2>4. 2 \in 1 .. n
    BY <1>7 DEF IsLength
  <2> QED
    BY <1>1, <1>2, <1>5, <1>7, <2>3, <2>4 DEF IsVar
<1> QED
  BY <1>3, <1>6, <1>7 DEF IsBound

\* A match of an e-graph whose tensors are known, and what is known of it.
KnownMatch(g, kind, val, rule, n, m, cls, subst) ==
  /\ MatchOf(g, kind, rule, n, m, cls) /\ IsLength(rule, n) /\ n \in Nat \ {0}
  /\ DOMAIN m.ids = 1 .. n /\ \A j \in 1 .. n : m.ids[j] \in Ids(g)
  /\ m.ids[n] = Find(g, cls)
  /\ rule # 0 => MatchNodes(g, rule, m)
  /\ SoberAt(g, val, rule, cls, subst, m)

\* A match found in g is applied to x, which g has grown to.
LEMMA MatchKeeps ==
  ASSUME NEW ct, NEW g, NEW kind, Sound(g, kind), NEW val, NEW home, Lawful(ct, g, val, home),
         NEW n0 \in Nat, TrueInfos(g, val),
         NEW rule, NEW n, NEW m, NEW cls, NEW subst, SubstOK(g, kind, rule, cls, subst), cls <= n0,
         KnownMatch(g, kind, val, rule, n, m, cls, subst),
         NEW x, Keeps(ct, g, kind, val, home, n0, x)
  PROVE  Keeps(ct, g, kind, val, home, n0, ApplyMatch(x, rule, cls, subst, m))
<1>0. /\ MatchOf(g, kind, rule, n, m, cls) /\ IsLength(rule, n) /\ n \in Nat \ {0}
      /\ DOMAIN m.ids = 1 .. n /\ \A j \in 1 .. n : m.ids[j] \in Ids(g)
      /\ m.ids[n] = Find(g, cls)
      /\ SoberAt(g, val, rule, cls, subst, m)
  BY Zenon DEF KnownMatch
<1>1. PICK more, val2, home2 :
        GrownLawful(ct, g, kind, val, home, n0, x, more, val2, home2) /\ TrueInfos(x, val2)
  BY DEF Keeps
<1>2. /\ Sound(x, more) /\ Grows(g, kind, x, more) /\ Lawful(ct, x, val2, home2) /\ Fresh(x, n0)
      /\ Extends(val2, val, Len(g.uf)) /\ Extends(home2, home, Len(g.uf))
  BY <1>1, Zenon DEF GrownLawful
<1>3. rule \in Rules /\ cls \in Ids(g)
  BY Zenon DEF SubstOK
<1>4. SubstOK(x, more, rule, cls, subst) /\ MatchOf(x, more, rule, n, m, cls)
  BY <1>0, <1>2, <1>3, SubstStaysOK, MatchStays, Zenon
<1>5. Ids(g) = 1 .. Len(g.uf) /\ Len(g.uf) \in Nat /\ Len(x.uf) \in Nat /\ Ids(x) = 1 .. Len(x.uf)
      /\ Len(g.uf) <= Len(x.uf)
  BY <1>2, SoundIds DEF Grows
<1>6. \A j \in 1 .. n : m.ids[j] \in Ids(x)
  BY <1>0, <1>5
<1>7. PICK vs, hs : vs = Along(val, m.ids) /\ hs = Along(home, m.ids)
  OBVIOUS
<1>8. vs = Along(val2, m.ids) /\ hs = Along(home2, m.ids)
  <2>1. \A j \in 1 .. n : m.ids[j] \in 1 .. Len(g.uf)
    BY <1>0, <1>5
  <2>2. PICK ids : ids = m.ids
    OBVIOUS
  <2>3. Along(val2, ids) = Along(val, ids) /\ Along(home2, ids) = Along(home, ids)
    BY <1>0, <1>2, <2>1, <2>2, AlongExtended
  <2> QED
    BY <1>7, <2>2, <2>3
<1>9. PICK t : t = InfosOf(x, m.ids)
  OBVIOUS
<1>10. AreTyped(t, vs, n) /\ t = InfosOf(g, m.ids)
  <2>1. PICK ids : ids = m.ids
    OBVIOUS
  <2>2. AreTyped(InfosOf(g, ids), vs, n)
    BY <1>0, <1>7, <2>1, MatchIsTyped
  <2>3. AreTyped(InfosOf(x, ids), vs, n)
    BY <1>0, <1>1, <1>2, <1>6, <1>8, <2>1, MatchIsTyped
  <2>4. InfosOf(g, ids) = InfosOf(x, ids)
    BY <1>0, <2>1, <2>2, <2>3, SameTypes
  <2> QED
    BY <1>9, <2>1, <2>2, <2>4
<1>11. CASE ~Precond(rule, x, m.ids, t)
  <2>1. ApplyMatch(x, rule, cls, subst, m) = x
    BY <1>9, <1>11 DEF ApplyMatch
  <2>2. Keeps(ct, x, more, val2, home2, n0, x)
    BY <1>1, <1>2, KeepsItself
  <2>3. Keeps(ct, g, kind, val, home, n0, x)
    BY Zenon
  <2> QED
    BY <2>1, <2>3
<1>12. CASE Precond(rule, x, m.ids, t)
  <2>1. rule = 10 \/ Precond(rule, g, m.ids, InfosOf(g, m.ids))
    BY <1>3, <1>10, <1>12, CondOfOthers
  <2>2. /\ rule # 0
        /\ \A v \in Vars(Lhs(rule)) : Find(g, Subst(Lhs(rule), m.ids)[v]) = Find(g, subst[v])
        /\ rule = 6 => val[Find(g, cls)] = val[Find(g, subst["x"])]
    BY <1>0, <2>1, Zenon DEF SoberAt
  <2>3. IsBound(val, home, rule, cls, subst, vs, hs, n)
    BY <1>0, <1>7, <2>2, MatchIsBound, Zenon
  <2>4. ~MistakenAt(val, m, rule)
    <3> SUFFICES ASSUME rule = 6 PROVE val[m.ids[3]] = val[m.ids[1]]
      BY DEF MistakenAt
    <3>1. n = 3
      BY <1>0 DEF IsLength
    <3>2. val[m.ids[3]] = val[Find(g, cls)] /\ val[Find(g, cls)] = val[Find(g, subst["x"])]
      BY <1>0, <2>2, <3>1
    <3>3. val[subst["x"]] = vs[1] /\ vs[1] = val[m.ids[1]]
      BY <1>0, <1>7, <2>3 DEF IsBound, IsVar, Along
    <3>4. subst["x"] \in Ids(g)
      <4>1. "x" \in RuleVars(rule)
        BY DEF RuleVars
      <4> QED
        BY <4>1 DEF SubstOK
    <3>5. val[subst["x"]] = val[Find(g, subst["x"])]
      BY <3>4 DEF Lawful, ClassValue
    <3> QED
      BY <3>2, <3>3, <3>5
  <2>5. MatchNodes(g, rule, m)
    BY <2>2 DEF KnownMatch
  <2>6. AreTensors(vs, hs, n) /\ Meant(rule, m.ens, vs, hs)
    BY <1>0, <1>7, <2>4, <2>5, MatchIsMeant
  <2>7. CondHolds(rule, t)
    BY <1>12, CondsHold
  <2>8. ASSUME rule = 10 PROVE IsLeast(vs[2])
    <3>1. n = 4 /\ 2 \in 1 .. n
      BY <1>0, <2>8 DEF IsLength
    <3>2. Precond_10(x, m.ids, t)
      BY <1>12, <2>8 DEF Precond
    <3>3. IsLeast(val2[m.ids[2]])
      <4>1. PICK ids : ids = m.ids
        OBVIOUS
      <4>2. Precond_10(x, ids, t) /\ ids[2] \in Ids(x)
        BY <1>6, <3>1, <3>2, <4>1
      <4>3. IsLeast(val2[ids[2]])
        BY <1>2, <4>2, ConstantIsLeast
      <4> QED
        BY <4>1, <4>3
    <3>4. vs[2] = val2[m.ids[2]]
      BY <1>0, <1>8, <3>1 DEF Along
    <3> QED
      BY <3>3, <3>4
  <2>9. IsBound(val2, home2, rule, cls, subst, vs, hs, n)
    <3>1. cls \in 1 .. Len(g.uf) /\ val2[cls] = val[cls] /\ home2[cls] = home[cls]
      BY <1>2, <1>3, <1>5 DEF Extends
    <3>2. "x" \in RuleVars(rule) /\ (rule = 5 => "y" \in RuleVars(rule))
      BY <1>3, <2>2 DEF RuleVars
    <3>3. subst["x"] \in 1 .. Len(g.uf) /\ (rule = 5 => subst["y"] \in 1 .. Len(g.uf))
      BY <1>5, <3>2 DEF SubstOK
    <3>4. /\ val2[subst["x"]] = val[subst["x"]] /\ home2[subst["x"]] = home[subst["x"]]
          /\ rule = 5 => val2[subst["y"]] = val[subst["y"]] /\ home2[subst["y"]] = home[subst["y"]]
      BY <1>2, <3>3 DEF Extends
    <3> QED
      BY <2>3, <3>1, <3>4 DEF IsBound, IsVar
  <2>10. HasPlan(ct, val2, home2, rule, t, m.ens, subst, cls)
    BY <1>0, <1>3, <1>10, <2>2, <2>6, <2>7, <2>8, <2>9, MeantIsPlanned
  <2>11. PICK pv, ph : IsPlan(ct, val2, home2, rule, t, m.ens, subst, cls, pv, ph)
    BY <2>10 DEF HasPlan
  <2>12. Keeps(ct, x, more, val2, home2, n0, ApplyMatch(x, rule, cls, subst, m))
    <3>1. Planned(ct, val2, home2, Rhs(rule), Metadata(rule, t, m.ens), SetShapes(rule, t), subst, cls, pv, ph)
      BY <2>11, Zenon DEF IsPlan
    <3> QED
      BY <1>1, <1>2, <1>4, <1>9, <1>12, <3>1, ApplyMatchHolds, Zenon
  <2> QED
    BY <1>1, <2>12, KeepsTransitive, Zenon
<1> QED
  BY <1>11, <1>12

\* What holds at first, and after each match, holds in the end.
LEMMA ApplyOneStays ==
  ASSUME NEW g, NEW rule, NEW cls, NEW subst,
         NEW matches, matches = SetToSeq(FindMatches(g, cls, Lhs(rule))), Len(matches) \in Nat,
         NEW X, << 0, g >> \in X,
         \A k \in 1 .. Len(matches) : \A x :
           << k - 1, x >> \in X => << k, ApplyMatch(x, rule, cls, subst, matches[k]) >> \in X
  PROVE  << Len(matches), ApplyOne(g, rule, cls, subst) >> \in X
<1> DEFINE top == Len(matches)
           Body(f) == [k \in 0 .. top |-> IF k = 0 THEN g
                                        ELSE ApplyMatch(f[k - 1], rule, cls, subst, matches[k])]
           upto == CHOOSE f : f = Body(f)
           F == [w \in X |-> ApplyMatch(w[2], rule, cls, subst, matches[w[1] + 1])]
<1>1. ApplyOne(g, rule, cls, subst) = upto[top]
  BY Zenon DEF ApplyOne
<1>2. ASSUME NEW k \in 1 .. top, NEW x, <<k - 1, x>> \in X
      PROVE  /\ F[<<k - 1, x>>] = ApplyMatch(x, rule, cls, subst, matches[k])
             /\ <<k, F[<<k - 1, x>>]>> \in X
  <2>1. (k - 1) + 1 = k
    OBVIOUS
  <2>2. F[<<k - 1, x>>] = ApplyMatch(x, rule, cls, subst, matches[k])
    BY <1>2, <2>1
  <2> HIDE DEF F
  <2> QED
    BY <1>2, <2>2
<1> HIDE DEF F
<1>3. top \in Nat /\ <<0, g>> \in X
  OBVIOUS
<1> HIDE DEF top
<1>4. StaysIn(top, F, X)
  BY <1>2 DEF StaysIn
<1>5. PICK f : Follows(f, top, g, F, X) /\ AllIn(f, top, X)
  BY <1>3, <1>4, FollowersExist
<1>6. \A k \in 1 .. top : k \in 0 .. top /\ k - 1 \in 0 .. top /\ k # 0
  BY <1>3
<1>7. f = Body(f)
  <2>1. ASSUME NEW k \in 0 .. top
        PROVE  f[k] = IF k = 0 THEN g ELSE ApplyMatch(f[k - 1], rule, cls, subst, matches[k])
    <3>1. k = 0 \/ k \in 1 .. top
      BY <1>3
    <3>2. ASSUME k \in 1 .. top PROVE f[k] = ApplyMatch(f[k - 1], rule, cls, subst, matches[k])
      BY <1>2, <1>5, <1>6, <3>2, Zenon DEF Follows, AllIn
    <3> QED
      BY <1>5, <1>6, <3>1, <3>2, Zenon DEF Follows
  <2> QED
    BY <1>5, <2>1, Zenon DEF Follows
<1>8. upto = Body(upto)
  <2> HIDE DEF Body
  <2> QED
    BY <1>7
<1> HIDE DEF upto
<1>9. Follows(upto, top, g, F, X)
  <2>1. upto = [k \in 0 .. top |-> upto[k]] /\ upto[0] = g
    BY <1>3, <1>8
  <2>2. \A k \in 1 .. top : upto[k] = ApplyMatch(upto[k - 1], rule, cls, subst, matches[k])
    BY <1>6, <1>8, Zenon
  <2> QED
    BY <1>2, <2>1, <2>2, Zenon DEF Follows
<1>10. AllIn(upto, top, X)
  BY <1>3, <1>4, <1>9, FollowersStay
<1>11. <<top, upto[top]>> \in X
  BY <1>3, <1>10 DEF AllIn
<1> QED
  BY <1>1, <1>11, Zenon DEF top

LEMMA FoundIsKnown ==
  ASSUME NEW g, NEW kind, Sound(g, kind), NEW val,
         NEW rule, NEW cls, NEW subst, SubstOK(g, kind, rule, cls, subst),
         \A m \in FindMatches(g, cls, Lhs(rule)) : SoberAt(g, val, rule, cls, subst, m)
  PROVE  /\ IsFiniteSet(FindMatches(g, cls, Lhs(rule)))
         /\ \E n : \A m \in FindMatches(g, cls, Lhs(rule)) :
                     KnownMatch(g, kind, val, rule, n, m, cls, subst)
<1> DEFINE pat == Lhs(rule)
           found == FindMatches(g, cls, pat)
<1>1. rule \in Rules /\ cls \in Ids(g)
  BY Zenon DEF SubstOK
<1>2. PICK n : LhsFacts(rule, pat, Sizes(rule), n)
  BY <1>1, LhsIsOK, Zenon
<1>3. n \in Nat \ {0} /\ Len(pat) = n /\ Sizes(rule)[n] = n /\ LhsOK(pat, Sizes(rule))
  BY <1>2, Zenon DEF LhsFacts
<1>4. Len(pat) \in Nat \ {0}
  BY <1>3, Zenon
<1> HIDE DEF pat
<1>5. /\ IsFiniteSet(found)
      /\ \A m \in found : MatchOK(g, kind, pat[Len(pat)], Sizes(rule)[Len(pat)], m, Find(g, cls))
  BY <1>1, <1>3, <1>4, FindMatchesIsFound
<1>6. \A m \in found : MatchOK(g, kind, pat[n], n, m, Find(g, cls))
  BY <1>3, <1>5, Zenon
<1>7. IsLength(rule, n)
  BY <1>1, <1>3, LhsLength, Zenon DEF pat
<1> HIDE DEF found
<1>8. ASSUME NEW m \in found PROVE KnownMatch(g, kind, val, rule, n, m, cls, subst)
  <2>1. MatchOK(g, kind, pat[n], n, m, Find(g, cls))
    BY <1>6, <1>8, Zenon
  <2>2. MatchOf(g, kind, rule, n, m, cls)
    BY <1>1, <1>2, <2>1, FoundIsMatch, Zenon DEF pat
  <2>3. DOMAIN m.ids = 1 .. n /\ \A j \in 1 .. n : m.ids[j] \in Ids(g)
    BY <2>2, Zenon DEF MatchOf
  <2>4. m.ids[n] = Find(g, cls)
    BY <2>1, Zenon DEF MatchOK
  <2>5. ASSUME rule # 0 PROVE MatchNodes(g, rule, m)
    BY <1>1, <1>8, <2>5, FoundNodes, Zenon DEF found, pat
  <2>6. SoberAt(g, val, rule, cls, subst, m)
    BY <1>8, Zenon DEF found, pat
  <2> QED
    BY <1>3, <1>7, <2>2, <2>3, <2>4, <2>5, <2>6, Zenon DEF KnownMatch
<1> QED
  BY <1>5, <1>8, Zenon DEF found, pat

\* The matches of a rule keep the tensors.
LEMMA ApplyOneKeeps ==
  ASSUME NEW ct, NEW g, NEW kind, Sound(g, kind), NEW val, NEW home, Lawful(ct, g, val, home),
         NEW n0 \in Nat, Fresh(g, n0), TrueInfos(g, val),
         NEW rule, NEW cls, NEW subst, SubstOK(g, kind, rule, cls, subst), cls <= n0,
         \A m \in FindMatches(g, cls, Lhs(rule)) : SoberAt(g, val, rule, cls, subst, m)
  PROVE  Keeps(ct, g, kind, val, home, n0, ApplyOne(g, rule, cls, subst))
<1> DEFINE found == FindMatches(g, cls, Lhs(rule))
           matches == SetToSeq(found)
           top == Len(matches)
           X == {w \in (0 .. top) \X EGraphs : Keeps(ct, g, kind, val, home, n0, w[2])}
<1>1. PICK n : IsFiniteSet(found) /\ \A m \in found : KnownMatch(g, kind, val, rule, n, m, cls, subst)
  BY FoundIsKnown, Zenon
<1>2. top \in Nat /\ \A k \in 1 .. top : KnownMatch(g, kind, val, rule, n, matches[k], cls, subst)
  BY <1>1, SetToSeqFacts
<1>3. \A k \in 0 .. top : \A x : <<k, x>> \in X <=> Keeps(ct, g, kind, val, home, n0, x)
  <2>1. ASSUME NEW x, Keeps(ct, g, kind, val, home, n0, x) PROVE x \in EGraphs
    BY <2>1, Zenon DEF Keeps, GrownLawful, Sound, IsEGraph
  <2> QED
    BY <2>1
<1>4. <<0, g>> \in X
  <2>1. 0 \in 0 .. top
    BY <1>2
  <2>2. Keeps(ct, g, kind, val, home, n0, g)
    BY KeepsItself, Zenon
  <2> QED
    BY <1>3, <2>1, <2>2
<1>5. ASSUME NEW k \in 1 .. top, NEW x, <<k - 1, x>> \in X
      PROVE  <<k, ApplyMatch(x, rule, cls, subst, matches[k])>> \in X
  <2>1. k - 1 \in 0 .. top /\ k \in 0 .. top
    BY <1>2
  <2>2. Keeps(ct, g, kind, val, home, n0, x)
    BY <1>3, <1>5, <2>1, Zenon
  <2> HIDE DEF X
  <2>3. PICK m : m = matches[k]
    OBVIOUS
  <2>4. KnownMatch(g, kind, val, rule, n, m, cls, subst)
    BY <1>2, <2>3, Zenon
  <2>5. Keeps(ct, g, kind, val, home, n0, ApplyMatch(x, rule, cls, subst, m))
    BY <2>2, <2>4, MatchKeeps, Zenon
  <2> QED
    BY <1>3, <2>1, <2>3, <2>5, Zenon
<1> HIDE DEF X
<1>6. <<top, ApplyOne(g, rule, cls, subst)>> \in X
  BY <1>2, <1>4, <1>5, ApplyOneStays
<1>7. top \in 0 .. top
  BY <1>2
<1> QED
  BY <1>3, <1>6, <1>7, Zenon

-----------------------------------------------------------------------------
(* The run: the tensors that the state holds stay what they are.           *)

\* The values are tensors the e-nodes compute, and the infos are theirs.
Carries(ct, g, val) == \E home : Lawful(ct, g, val, home) /\ TrueInfos(g, val)

\* What a step of the run does to them.
Carried(ct) == Carries(ct, eg', value') /\ Extends(value', value, Len(eg.uf))

LEMMA NextIsSober ==
  ASSUME NoMistake, phase = "apply", NEW p \in NextMatches, p \notin processed,
         NEW m \in FindMatches(eg, p.cls, Lhs(p.rule))
  PROVE  SoberAt(eg, value, p.rule, p.cls, p.subst, m)
<1>1. ~ \E q \in FindMatches(eg, p.cls, Lhs(p.rule)) :
         /\ p.rule = 10 \/ Precond(p.rule, eg, q.ids, InfosOf(eg, q.ids))
         /\ \/ \E v \in Vars(Lhs(p.rule)) : Find(eg, Subst(Lhs(p.rule), q.ids)[v]) # Find(eg, p.subst[v])
            \/ p.rule = 0
            \/ p.rule = 6 /\ ValueOf(p.cls) # ValueOf(p.subst["x"])
  BY Zenon DEF NoMistake, Mistaken
<1>2. ~ /\ p.rule = 10 \/ Precond(p.rule, eg, m.ids, InfosOf(eg, m.ids))
        /\ \/ \E v \in Vars(Lhs(p.rule)) : Find(eg, Subst(Lhs(p.rule), m.ids)[v]) # Find(eg, p.subst[v])
           \/ p.rule = 0
           \/ p.rule = 6 /\ ValueOf(p.cls) # ValueOf(p.subst["x"])
  BY <1>1, Zenon
<1> QED
  BY <1>2, Zenon DEF SoberAt, ValueOf

LEMMA ApplyCarries ==
  ASSUME NEW kind, IsInv(kind), NEW ct, Carries(ct, eg, value), Apply, NoMistake
  PROVE  Carried(ct)
<1>1. PICK m \in NextMatches :
         eg' = IF m \in processed THEN eg ELSE ApplyOne(eg, m.rule, m.cls, m.subst)
  BY DEF Apply
<1>2. phase = "apply" /\ value' = Valued(value, eg')
  BY Zenon DEF Apply
<1>3. Sound(eg, kind) /\ IsTuple(value, Len(eg.uf)) /\ \A p \in pending : PendingOK(eg, kind, p)
  BY Zenon DEF IsInv
<1>4. PICK home : Lawful(ct, eg, value, home) /\ TrueInfos(eg, value)
  BY DEF Carries
<1>5. PICK top : top = Len(eg.uf)
  BY Zenon
<1>6. top \in Nat /\ Ids(eg) = 1 .. top
  BY <1>3, <1>5, SoundIds
<1>7. m \in pending
  BY DEF NextMatches
<1>8. Fresh(eg, top)
  BY <1>6 DEF Fresh
<1>9. Keeps(ct, eg, kind, value, home, top, eg')
  <2>1. CASE m \in processed
    <3>1. eg' = eg
      BY <1>1, <2>1, Zenon
    <3>2. Keeps(ct, eg, kind, value, home, top, eg)
      BY <1>3, <1>4, <1>8, KeepsItself, Zenon
    <3> QED
      BY <3>1, <3>2, Zenon
  <2>2. CASE m \notin processed
    <3>1. eg' = ApplyOne(eg, m.rule, m.cls, m.subst)
      BY <1>1, <2>2, Zenon
    <3>2. SubstOK(eg, kind, m.rule, m.cls, m.subst)
      BY <1>3, <1>7, Zenon DEF PendingOK
    <3>3. m.cls <= top
      BY <1>6, <3>2 DEF SubstOK
    <3>4. \A q \in FindMatches(eg, m.cls, Lhs(m.rule)) : SoberAt(eg, value, m.rule, m.cls, m.subst, q)
      BY <1>1, <1>2, <2>2, NextIsSober, Zenon
    <3>5. PICK rule, cls, subst : rule = m.rule /\ cls = m.cls /\ subst = m.subst
      BY Zenon
    <3>6. Keeps(ct, eg, kind, value, home, top, ApplyOne(eg, rule, cls, subst))
      BY <1>3, <1>4, <1>6, <1>8, <3>2, <3>3, <3>4, <3>5, ApplyOneKeeps, Zenon
    <3> QED
      BY <3>1, <3>5, <3>6, Zenon
  <2> QED
    BY <2>1, <2>2, Zenon
<1>10. PICK more, val2, home2 :
         GrownLawful(ct, eg, kind, value, home, top, eg', more, val2, home2) /\ TrueInfos(eg', val2)
  BY <1>9, Zenon DEF Keeps
<1>11. /\ Sound(eg', more) /\ Grows(eg, kind, eg', more) /\ Lawful(ct, eg', val2, home2)
       /\ Fresh(eg', top) /\ Extends(val2, value, top)
  BY <1>5, <1>10, Zenon DEF GrownLawful
<1>12. value' = val2
  <2>1. PICK h : h = eg'
    OBVIOUS
  <2>2. /\ Sound(h, more) /\ Lawful(ct, h, val2, home2) /\ TrueInfos(h, val2) /\ Fresh(h, top)
        /\ top <= Len(h.uf) /\ IsTuple(value, top)
    BY <1>3, <1>5, <1>10, <1>11, <2>1 DEF Grows
  <2>3. Valued(value, h) = val2
    BY <1>6, <1>11, <2>2, ValuedIs, Zenon
  <2> QED
    BY <1>2, <2>1, <2>3, Zenon
<1> QED
  BY <1>5, <1>10, <1>11, <1>12, Zenon DEF Carried, Carries

LEMMA RebuildCarries ==
  ASSUME NEW kind, IsInv(kind), NEW ct, Carries(ct, eg, value), Rebuild
  PROVE  Carried(ct)
<1>1. PICK pair : pair = CHOOSE p \in Congruent(eg) : TRUE
  OBVIOUS
<1>2. Congruent(eg) # {} /\ eg' = Union(eg, pair[1], pair[2]) /\ value' = value
  BY <1>1, Zenon DEF Rebuild, ghost
<1>3. Sound(eg, kind) /\ pair \in Congruent(eg)
  BY <1>1, <1>2, Zenon DEF IsInv
<1>4. PICK home : Lawful(ct, eg, value, home) /\ TrueInfos(eg, value)
  BY DEF Carries
<1>5. PICK a : a = pair[1]
  OBVIOUS
<1>6. PICK b : b = pair[2]
  OBVIOUS
<1>7. a \in Ids(eg) /\ b \in Ids(eg) /\ value[a] = value[b] /\ home[a] = home[b]
  <2>1. /\ pair[1] \in Ids(eg) /\ pair[2] \in Ids(eg)
        /\ value[pair[1]] = value[pair[2]] /\ home[pair[1]] = home[pair[2]]
    BY <1>3, <1>4, CongruentHaveOneValue
  <2> QED
    BY <1>5, <1>6, <2>1, Zenon
<1>8. PICK h : h = eg'
  OBVIOUS
<1>9. h = Union(eg, a, b)
  BY <1>2, <1>5, <1>6, <1>8, Zenon
<1>10. Lawful(ct, h, value, home) /\ TrueInfos(h, value)
  BY <1>3, <1>4, <1>7, <1>9, UnionKeepsLaw
<1> QED
  BY <1>2, <1>8, <1>10, ExtendsReflexive, Zenon DEF Carried, Carries

LEMMA RestCarries ==
  ASSUME NEW ct, Carries(ct, eg, value),
         Panic \/ Iterate \/ Interrupt \/ EndIteration \/ Stop \/ UNCHANGED vars
  PROVE  Carried(ct)
<1>1. eg' = eg /\ value' = value
  BY Zenon DEF Panic, Iterate, Interrupt, EndIteration, Stop, vars, ghost
<1> QED
  BY <1>1, ExtendsReflexive, Zenon DEF Carried, Carries

-----------------------------------------------------------------------------
(* The initializer adds classes with tensors of the types it notes.        *)

\* An e-graph that has grown by the class id, which holds v.
Given(ct, g, val, home, n0, f, val2, home2, id, v, h) ==
  /\ Holds(ct, g, val, home, f, val2, home2, id, v, h)
  /\ TrueInfos(f, val2) /\ Fresh(f, n0)

Gives(ct, g, val, home, n0, f, id, v, h) ==
  \E val2, home2 : Given(ct, g, val, home, n0, f, val2, home2, id, v, h)

\* Each class has a TensorInfo.
HasInfos(f) ==
  /\ f = [nodes |-> f.nodes, uf |-> f.uf, info |-> f.info]
  /\ f.info \in Seq(Infos) /\ Len(f.info) = Len(f.uf) /\ Len(f.uf) \in Nat /\ Ids(f) = 1 .. Len(f.uf)

LEMMA SoundHasInfos ==
  ASSUME NEW g, NEW kind, Sound(g, kind)
  PROVE  HasInfos(g)
<1>1. g \in EGraphs /\ Len(g.info) = Len(g.uf)
  BY DEF Sound, IsEGraph
<1>2. g = [nodes |-> g.nodes, uf |-> g.uf, info |-> g.info]
  BY <1>1 DEF EGraphs
<1> QED
  BY <1>1, <1>2, EGraphFacts DEF HasInfos

LEMMA AddHasInfos ==
  ASSUME NEW g, NEW kind, Sound(g, kind), NEW en, NEW f, f = Add(g, en)
  PROVE  HasInfos(f.eg)
<1>1. PICK c : c = Canonical(g, en)
  OBVIOUS
<1>2. f.eg = g \/ f.eg = NewClass(g, c)
  BY <1>1, AddCases
<1>3. HasInfos(g)
  BY SoundHasInfos
<1>4. HasInfos(NewClass(g, c))
  <2>1. PICK uf, info, top : uf = g.uf /\ info = g.info /\ top = Len(g.uf)
    BY Zenon
  <2>2. uf \in Seq(Nat) /\ info \in Seq(Infos) /\ Len(info) = top /\ top \in Nat /\ Len(uf) = top
    BY <1>3, <2>1, EGraphFacts DEF HasInfos, Sound, IsEGraph
  <2>3. Default \in Infos
    <3>1. <<>> \in Seq(Nat) /\ "U8" \in Dtypes
      BY DEF Dtypes
    <3> QED
      BY <3>1, InfoFacts, Zenon DEF Default
  <2>4. PICK uf2, info2 : uf2 = Append(uf, top + 1) /\ info2 = Append(info, Default)
    BY Zenon
  <2>10. info2 \in Seq(Infos) /\ Len(info2) = top + 1 /\ Len(uf2) = top + 1 /\ DOMAIN uf2 = 1 .. top + 1
    BY <2>2, <2>3, <2>4
  <2>5. PICK f2 : f2 = NewClass(g, c)
    OBVIOUS
  <2>11. PICK nodes : f2 = [nodes |-> nodes, uf |-> uf2, info |-> info2]
    BY <2>1, <2>4, <2>5, Zenon DEF NewClass
  <2>6. f2.nodes = nodes /\ f2.uf = uf2 /\ f2.info = info2
    BY <2>11
  <2>7. f2 = [nodes |-> f2.nodes, uf |-> f2.uf, info |-> f2.info]
    BY <2>11, <2>6
  <2>8. HasInfos(f2)
    <3>1. Len(f2.uf) = top + 1 /\ DOMAIN f2.uf = 1 .. top + 1 /\ Len(f2.info) = top + 1 /\ f2.info \in Seq(Infos)
          /\ top + 1 \in Nat
      BY <2>2, <2>10, <2>6
    <3> QED
      BY <2>7, <3>1 DEF HasInfos, Ids
  <2> QED
    BY <2>5, <2>8
<1> QED
  BY <1>2, <1>3, <1>4

\* SetInfo at a class writes this class's TensorInfo.
IsPut(f, e, id, info) ==
  /\ e.uf = f.uf /\ e.nodes = f.nodes /\ Classes(e) = Classes(f)
  /\ \A c \in Classes(f) : e.info[c] = IF c = id THEN info ELSE f.info[c]

LEMMA PutIs ==
  ASSUME NEW f, HasInfos(f), NEW id, id \in Classes(f),
         NEW info, NEW e, e = SetInfo(f, id, info)
  PROVE  IsPut(f, e, id, info)
<1>1. Find(f, id) = id /\ Classes(f) \subseteq Ids(f)
  BY DEF Classes, Find
<1>2. PICK nodes, uf, infos : f = [nodes |-> nodes, uf |-> uf, info |-> infos]
  BY DEF HasInfos
<1>3. f.nodes = nodes /\ f.uf = uf /\ f.info = infos
  BY <1>2
<1>4. e = [f EXCEPT !.info[id] = info]
  BY <1>1 DEF SetInfo
<1>5. e.uf = f.uf /\ e.nodes = f.nodes /\ e.info = [infos EXCEPT ![id] = info]
  BY <1>2, <1>3, <1>4, Zenon
<1>6. Classes(e) = Classes(f)
  BY <1>5 DEF Classes, Ids
<1>7. \A c \in Ids(f) : e.info[c] = IF c = id THEN info ELSE f.info[c]
  <2>1. DOMAIN infos = Ids(f)
    BY <1>3 DEF HasInfos
  <2> QED
    BY <1>3, <1>5, <2>1
<1> QED
  BY <1>1, <1>5, <1>6, <1>7 DEF IsPut

LEMMA AddTypedGives ==
  ASSUME NEW g, NEW kind, Sound(g, kind), NEW ct, NEW val, NEW home, Lawful(ct, g, val, home),
         TrueInfos(g, val), NEW n0, Fresh(g, n0),
         NEW en, NEW v, NEW h, NodeFor(ct, g, val, home, en, v, h),
         NEW info, info = Info(v.shape, v.dtype), NEW added, added = AddTyped(g, en, info)
  PROVE  Gives(ct, g, val, home, n0, added.eg, added.id, v, h)
<1>1. PICK f : f = Add(g, en)
  OBVIOUS
<1>2. /\ \E val2, home2 : Holds(ct, g, val, home, f.eg, val2, home2, f.id, v, h)
      /\ Stays(g, f.eg, f.id) /\ Fresh(f.eg, n0)
  BY <1>1, AddIsLawful
<1>3. PICK val2, home2 : Holds(ct, g, val, home, f.eg, val2, home2, f.id, v, h)
  BY <1>2
<1>4. PICK x, id : x = f.eg /\ id = f.id
  OBVIOUS
<1>5. HasInfos(x)
  BY <1>1, <1>4, AddHasInfos
<1>6. /\ Lawful(ct, x, val2, home2) /\ Len(g.uf) <= Len(x.uf)
      /\ Extends(val2, val, Len(g.uf)) /\ Extends(home2, home, Len(g.uf))
      /\ id \in Classes(x) /\ val2[id] = v /\ home2[id] = h
  BY <1>3, <1>4, Zenon DEF Holds
<1>7. PICK e : e = SetInfo(x, id, info)
  OBVIOUS
<1>8. added.eg = e /\ added.id = id
  BY <1>1, <1>4, <1>7 DEF AddTyped
<1>9. IsPut(x, e, id, info)
  BY <1>5, <1>6, <1>7, PutIs
<1>10. e.uf = x.uf /\ e.nodes = x.nodes /\ Classes(e) = Classes(x)
  BY <1>9 DEF IsPut
<1>11. Lawful(ct, e, val2, home2) /\ Fresh(e, n0)
  BY <1>2, <1>4, <1>6, <1>10, RetypedIsLawful
<1>12. TrueInfos(e, val2)
  <2>1. ASSUME NEW c \in Classes(e), c # id PROVE e.info[c] = Info(val2[c].shape, val2[c].dtype)
    <3>1. e.info[c] = x.info[c]
      BY <1>9, <1>10, <2>1 DEF IsPut
    <3>2. c \in Classes(g) /\ x.info[c] = g.info[c]
      BY <1>2, <1>4, <1>10, <2>1 DEF Stays
    <3>3. g.info[c] = Info(val[c].shape, val[c].dtype)
      BY <3>2 DEF TrueInfos, TrueAt
    <3>4. val2[c] = val[c]
      <4>1. c \in 1 .. Len(g.uf)
        BY <3>2, SoundIds
      <4> QED
        BY <1>6, <4>1 DEF Extends
    <3> QED
      BY <3>1, <3>2, <3>3, <3>4
  <2>2. e.info[id] = info
    BY <1>6, <1>9 DEF IsPut
  <2> QED
    BY <1>6, <2>1, <2>2 DEF TrueInfos, TrueAt
<1>13. Holds(ct, g, val, home, e, val2, home2, id, v, h)
  BY <1>6, <1>10, <1>11 DEF Holds
<1> QED
  BY <1>8, <1>11, <1>12, <1>13 DEF Gives, Given

\* One after the other.
LEMMA GivesTransitive ==
  ASSUME NEW g, NEW kind, Sound(g, kind), NEW f, NEW more, Sound(f, more),
         NEW ct, NEW val, NEW home, NEW n0, NEW val2, NEW home2, NEW id, NEW v, NEW h,
         Given(ct, g, val, home, n0, f, val2, home2, id, v, h),
         NEW e, NEW id2, NEW w, NEW k, Gives(ct, f, val2, home2, n0, e, id2, w, k)
  PROVE  Gives(ct, g, val, home, n0, e, id2, w, k)
<1>1. PICK val3, home3 : Given(ct, f, val2, home2, n0, e, val3, home3, id2, w, k)
  BY DEF Gives
<1>2. /\ Len(g.uf) <= Len(f.uf)
      /\ Extends(val2, val, Len(g.uf)) /\ Extends(home2, home, Len(g.uf))
  BY Zenon DEF Given, Holds
<1>3. /\ Lawful(ct, e, val3, home3) /\ Len(f.uf) <= Len(e.uf)
      /\ Extends(val3, val2, Len(f.uf)) /\ Extends(home3, home2, Len(f.uf))
      /\ id2 \in Classes(e) /\ val3[id2] = w /\ home3[id2] = k
      /\ TrueInfos(e, val3) /\ Fresh(e, n0)
  BY <1>1, Zenon DEF Given, Holds
<1>4. PICK a, b : a = Len(g.uf) /\ b = Len(f.uf)
  BY Zenon
<1>5. a \in Nat /\ b \in Nat /\ a <= b
  BY <1>2, <1>4, SoundIds
<1>6. Extends(val3, val, a) /\ Extends(home3, home, a)
  BY <1>2, <1>3, <1>4, <1>5, ExtendsTransitive
<1>7. Len(g.uf) <= Len(e.uf)
  <2>1. Len(e.uf) \in Nat \/ Len(e.uf) \notin Nat
    OBVIOUS
  <2>2. IsTuple(val3, Len(e.uf))
    BY <1>3 DEF Lawful
  <2>3. Len(e.uf) \in Nat
    BY <2>2 DEF IsTuple
  <2> QED
    BY <1>3, <1>4, <1>5, <2>3
<1>8. Holds(ct, g, val, home, e, val3, home3, id2, w, k)
  BY <1>3, <1>4, <1>6, <1>7, Zenon DEF Holds
<1> QED
  BY <1>3, <1>8, Zenon DEF Gives, Given

-----------------------------------------------------------------------------
(* The values of a chain of two links.                                     *)

LinkTo(x, link) == AddTyped(x.eg, Listed(link.op, link.data, <<x.id>>), link.info)

ChainBody(f, start, links) ==
  [k \in 0 .. Len(links) |-> IF k = 0 THEN start ELSE LinkTo(f[k - 1], links[k])]

LEMMA ChainUnfolds ==
  ASSUME NEW g, NEW id, NEW links, NEW start, start = [eg |-> g, id |-> id]
  PROVE  AddChain(g, id, links) =
           (CHOOSE f : f = ChainBody(f, start, links))[Len(links)]
<1>1. PICK top : top = Len(links)
  BY Zenon
<1> DEFINE Body(f) == [k \in 0 .. top |->
                         IF k = 0 THEN [eg |-> g, id |-> id]
                         ELSE AddTyped(f[k - 1].eg,
                                       Listed(links[k].op, links[k].data, <<f[k - 1].id>>),
                                       links[k].info)]
<1>2. AddChain(g, id, links) = (CHOOSE f : f = Body(f))[top]
  BY <1>1 DEF AddChain
<1>3. \A f : Body(f) = ChainBody(f, start, links)
  BY <1>1 DEF ChainBody, LinkTo
<1> HIDE DEF Body
<1>4. (CHOOSE f : f = Body(f)) = (CHOOSE f : f = ChainBody(f, start, links))
  BY <1>3
<1> QED
  BY <1>1, <1>2, <1>4, Zenon

LEMMA ChainOfNone ==
  ASSUME NEW g, NEW id, NEW added, added = AddChain(g, id, <<>>)
  PROVE  added.eg = g /\ added.id = id
<1>1. PICK start, links : start = [eg |-> g, id |-> id] /\ links = <<>>
  BY Zenon
<1>2. Len(links) = 0
  BY <1>1
<1>3. PICK f : f = CHOOSE c : c = ChainBody(c, start, links)
  OBVIOUS
<1>4. f = ChainBody(f, start, links)
  <2>1. PICK e : e = [k \in 0 .. 0 |-> start]
    BY Zenon
  <2>2. e = ChainBody(e, start, links)
    BY <1>2, <2>1 DEF ChainBody
  <2> QED
    BY <1>3, <2>2, Zenon
<1>5. f[0] = start
  BY <1>2, <1>4 DEF ChainBody
<1>6. added = start
  BY <1>1, <1>2, <1>3, <1>5, ChainUnfolds
<1> QED
  BY <1>1, <1>6

LEMMA ChainOfTwo ==
  ASSUME NEW g, NEW id, NEW links, Len(links) = 2, NEW added, added = AddChain(g, id, links),
         NEW start, start = [eg |-> g, id |-> id]
  PROVE  \E x : x = LinkTo(start, links[1]) /\ added = LinkTo(x, links[2])
<1>2. PICK f : f = CHOOSE c : c = ChainBody(c, start, links)
  OBVIOUS
<1>3. PICK x : x = LinkTo(start, links[1])
  OBVIOUS
<1>4. PICK y : y = LinkTo(x, links[2])
  OBVIOUS
<1>5. f = ChainBody(f, start, links)
  <2>1. PICK e : e = [k \in 0 .. 2 |-> IF k = 0 THEN start ELSE IF k = 1 THEN x ELSE y]
    BY Zenon
  <2>2. e[0] = start /\ e[1] = x
    BY <2>1
  <2>3. \A k \in 0 .. 2 : (IF k = 0 THEN start ELSE LinkTo(e[k - 1], links[k]))
                            = (IF k = 0 THEN start ELSE IF k = 1 THEN x ELSE y)
    <3>1. ASSUME NEW k \in 0 .. 2
          PROVE  (IF k = 0 THEN start ELSE LinkTo(e[k - 1], links[k]))
                   = (IF k = 0 THEN start ELSE IF k = 1 THEN x ELSE y)
      <4>1. k = 0 \/ (k = 1 /\ k - 1 = 0) \/ (k = 2 /\ k - 1 = 1)
        OBVIOUS
      <4> QED
        BY <1>3, <1>4, <2>2, <4>1
    <3> QED
      BY <3>1
  <2>4. e = ChainBody(e, start, links)
    BY <2>1, <2>3 DEF ChainBody
  <2> QED
    BY <1>2, <2>4, Zenon
<1>6. f[0] = start /\ f[1] = LinkTo(f[0], links[1]) /\ f[2] = LinkTo(f[1], links[2])
  <2>1. \A k \in 0 .. 2 : f[k] = IF k = 0 THEN start ELSE LinkTo(f[k - 1], links[k])
    BY <1>5 DEF ChainBody
  <2>2. 0 \in 0 .. 2 /\ 1 \in 0 .. 2 /\ 2 \in 0 .. 2 /\ 1 # 0 /\ 2 # 0 /\ 1 - 1 = 0 /\ 2 - 1 = 1
    OBVIOUS
  <2>3. f[1] = LinkTo(f[1 - 1], links[1]) /\ f[2] = LinkTo(f[2 - 1], links[2]) /\ f[0] = start
    BY <2>1, <2>2, Zenon
  <2> QED
    BY <2>2, <2>3
<1>7. added = f[2]
  BY <1>2, ChainUnfolds, Zenon
<1> QED
  BY <1>3, <1>6, <1>7

\* The tensor w of home h that a link makes of v.
LinkFor(link, v, w, h) ==
  /\ IsTensor(w, h) /\ link.info = Info(w.shape, w.dtype)
  /\ \/ link.op = "reshape" /\ w = Reshape(v, link.data)
     \/ link.op = "bitcvt" /\ w = Bitcast(v, w.dtype)
                           /\ w.dtype = IF v.dtype = "U8" THEN h ELSE "U8"

LEMMA LinkGives ==
  ASSUME NEW g, NEW kind, Sound(g, kind), NEW ct, NEW val, NEW home, Lawful(ct, g, val, home),
         TrueInfos(g, val), NEW n0, Fresh(g, n0),
         NEW x, x.eg = g, x.id \in Ids(g), NEW link, LinkOK(link, kind[x.id]),
         NEW v, v = val[x.id], NEW h, h = home[x.id], NEW w, LinkFor(link, v, w, h),
         NEW added, added = LinkTo(x, link)
  PROVE  /\ Gives(ct, g, val, home, n0, added.eg, added.id, w, h)
         /\ Makes(g, kind, added, StepKind(kind[x.id], link.op))
<1>1. PICK en : en = Listed(link.op, link.data, <<x.id>>)
  OBVIOUS
<1>2. x.id \in Nat
  BY EGraphFacts DEF Sound, IsEGraph
<1>3. PICK id : id = x.id
  OBVIOUS
<1>4. /\ en \in ENodes /\ HasParts(en) /\ en.op = link.op /\ en.op # "var"
      /\ DOMAIN en.kids = {1} /\ en.kids[1] = id
  <2>1. id \in Nat /\ LinkOK(link, kind[id]) /\ en = Listed(link.op, link.data, <<id>>)
    BY <1>1, <1>2, <1>3
  <2> QED
    BY <2>1, LinkNode
<1>5. en.data = link.data
  BY <1>1, ListedFields
<1>6. Of(val, en)[1] = v /\ Of(home, en)[1] = h
  BY <1>3, <1>4 DEF Of
<1>7. Law(ct, en, Of(val, en), Of(home, en), w, h)
  <2>1. CASE link.op = "reshape" /\ w = Reshape(v, link.data)
    BY <1>4, <1>5, <1>6, <2>1, LawsHold, Zenon
  <2>2. CASE link.op = "bitcvt" /\ w = Bitcast(v, w.dtype) /\ w.dtype = IF v.dtype = "U8" THEN h ELSE "U8"
    BY <1>4, <1>5, <1>6, <2>2, LawsHold
  <2> QED
    BY <2>1, <2>2 DEF LinkFor
<1>8. NodeFor(ct, g, val, home, en, w, h)
  <2>1. \A k \in DOMAIN en.kids : en.kids[k] \in Ids(g)
    BY <1>3, <1>4
  <2> QED
    BY <1>4, <1>7, <2>1, Zenon DEF NodeFor, LinkFor
<1>9. link.info = Info(w.shape, w.dtype)
  BY DEF LinkFor
<1>10. added = AddTyped(g, en, link.info)
  BY <1>1, Zenon DEF LinkTo
<1>11. Gives(ct, g, val, home, n0, added.eg, added.id, w, h)
  BY <1>8, <1>9, <1>10, AddTypedGives
<1>12. Makes(g, kind, added, StepKind(kind[x.id], link.op))
  <2>1. added = AddTyped(g, Listed(link.op, link.data, <<id>>), link.info)
    BY <1>1, <1>3, <1>10
  <2>2. id \in Ids(g) /\ LinkOK(link, kind[id])
    BY <1>3
  <2>3. Makes(g, kind, added, StepKind(kind[id], link.op))
    BY <2>1, <2>2, LinkIsMade
  <2> QED
    BY <1>3, <2>3
<1> QED
  BY <1>11, <1>12

LEMMA TwoLinksGive ==
  ASSUME NEW g, NEW kind, Sound(g, kind), NEW ct, NEW val, NEW home, Lawful(ct, g, val, home),
         TrueInfos(g, val), NEW n0, Fresh(g, n0), NEW id \in Ids(g),
         NEW links, Len(links) = 2, NEW steps, Chained(links, steps), steps[0] = kind[id],
         NEW v, v = val[id], NEW h, h = home[id],
         NEW u, LinkFor(links[1], v, u, h), NEW w, LinkFor(links[2], u, w, h),
         NEW added, added = AddChain(g, id, links)
  PROVE  Gives(ct, g, val, home, n0, added.eg, added.id, w, h)
<1>1. PICK start : start = [eg |-> g, id |-> id]
  BY Zenon
<1>2. start.eg = g /\ start.id = id
  BY <1>1
<1>3. PICK x : x = LinkTo(start, links[1]) /\ added = LinkTo(x, links[2])
  BY <1>1, ChainOfTwo
<1>4. /\ LinkOK(links[1], steps[0]) /\ steps[1] = StepKind(steps[0], links[1].op)
      /\ LinkOK(links[2], steps[1])
  <2>1. 1 \in 1 .. Len(links) /\ 2 \in 1 .. Len(links) /\ 1 - 1 = 0 /\ 2 - 1 = 1
    OBVIOUS
  <2>2. /\ LinkOK(links[1], steps[1 - 1]) /\ steps[1] = StepKind(steps[1 - 1], links[1].op)
        /\ LinkOK(links[2], steps[2 - 1])
    BY <2>1, Zenon DEF Chained
  <2> QED
    BY <2>1, <2>2
<1>5. PICK link1, link2 : link1 = links[1] /\ link2 = links[2]
  OBVIOUS
<1>6. /\ Gives(ct, g, val, home, n0, x.eg, x.id, u, h)
      /\ Makes(g, kind, x, steps[1])
  <2>1. /\ start.id \in Ids(g) /\ LinkOK(link1, kind[start.id]) /\ v = val[start.id]
        /\ h = home[start.id] /\ LinkFor(link1, v, u, h) /\ x = LinkTo(start, link1)
    BY <1>2, <1>3, <1>4, <1>5
  <2>2. /\ Gives(ct, g, val, home, n0, x.eg, x.id, u, h)
        /\ Makes(g, kind, x, StepKind(kind[start.id], link1.op))
    BY <1>2, <2>1, LinkGives
  <2> QED
    BY <1>2, <1>4, <1>5, <2>2
<1>7. PICK more : Made(g, kind, x.eg, more, x.id, steps[1])
  BY <1>6, Zenon DEF Makes
<1>8. PICK val2, home2 : Given(ct, g, val, home, n0, x.eg, val2, home2, x.id, u, h)
  BY <1>6, Zenon DEF Gives
<1>9. PICK f : f = x.eg
  OBVIOUS
<1>10. Sound(f, more) /\ x.id \in Ids(f) /\ more[x.id] = steps[1]
  BY <1>7, <1>9, Zenon DEF Made
<1>11. /\ Lawful(ct, f, val2, home2) /\ TrueInfos(f, val2) /\ Fresh(f, n0)
       /\ u = val2[x.id] /\ h = home2[x.id]
  BY <1>8, <1>9, Zenon DEF Given, Holds
<1>12. Gives(ct, f, val2, home2, n0, added.eg, added.id, w, h)
  <2>1. x.eg = f /\ LinkOK(link2, more[x.id]) /\ LinkFor(link2, u, w, h) /\ added = LinkTo(x, link2)
    BY <1>3, <1>4, <1>5, <1>9, <1>10
  <2> QED
    BY <1>10, <1>11, <2>1, LinkGives
<1>13. Given(ct, g, val, home, n0, f, val2, home2, x.id, u, h)
  BY <1>8, <1>9
<1>14. PICK e, id2 : e = added.eg /\ id2 = added.id
  OBVIOUS
<1>15. Gives(ct, f, val2, home2, n0, e, id2, w, h)
  BY <1>12, <1>14
<1> QED
  BY <1>10, <1>13, <1>14, <1>15, GivesTransitive

-----------------------------------------------------------------------------
(* A parameter from its Var, and the root's way back to bytes.             *)

LEMMA UntiledIsLaid ==
  ASSUME NEW i, Untiled(i) PROVE Laid(i)
<1>1. IsShape(i.shape)
  BY PosShapeFacts DEF Untiled, IsShape, IsShapePos
<1> QED
  BY <1>1, Zenon DEF Untiled, Laid

LEMMA ParameterLinksAre ==
  ASSUME NEW i, i.tile = <<>>, NEW links, links = ParameterLinks(i),
         NEW sized, sized = WithSize(i.shape, i.dtype), NEW info, info = Info(sized, "U8"),
         NEW type, type = TypeOf(i)
  PROVE  Len(links) = 2 /\ links[1] = Link("reshape", sized, info)
         /\ links[2] = Link("bitcvt", <<>>, type)
<1>1. PICK one, two : one = Link("reshape", sized, info) /\ two = Link("bitcvt", <<>>, type)
  OBVIOUS
<1>2. links = <<one, two>>
  BY <1>1, Zenon DEF ParameterLinks
<1> QED
  BY <1>1, <1>2

LEMMA RootLinksAre ==
  ASSUME NEW i, i.tile = <<>>, NEW links, links = RootLinks(i),
         NEW sized, sized = WithSize(i.shape, i.dtype), NEW info, info = Info(sized, "U8"),
         NEW flat, flat = <<Bytes(TypeOf(i))>>, NEW type, type = Info(flat, "U8")
  PROVE  Len(links) = 2 /\ links[1] = Link("bitcvt", <<>>, info)
         /\ links[2] = Link("reshape", flat, type)
<1>1. PICK one, two : one = Link("bitcvt", <<>>, info) /\ two = Link("reshape", flat, type)
  OBVIOUS
<1>2. links = <<one, two>>
  BY <1>1, Zenon DEF RootLinks
<1> QED
  BY <1>1, <1>2

LEMMA ParameterLinksFor ==
  ASSUME NEW i, Untiled(i), NEW links, links = ParameterLinks(i),
         NEW v, v = VarValue(i), NEW u, u = BytesValue(i), NEW w, w = ParameterValue(i)
  PROVE  /\ LinkFor(links[1], v, u, i.dtype) /\ LinkFor(links[2], u, w, i.dtype)
         /\ IsOf(w, TypeOf(i)) /\ Len(links) = 2
<1>1. PICK n, s, h, flat, sized :
        /\ n = Bytes(TypeOf(i)) /\ s = i.shape /\ h = i.dtype /\ flat = <<n>>
        /\ sized = WithSize(s, h)
  BY Zenon
<1>2. n \in Pos /\ n = Product(s) * SizeInBytes(h) /\ IsShapePos(s) /\ h \in Dtypes
  BY <1>1, BytesOfType DEF Untiled
<1>3. IsTensor(v, h) /\ v.shape = flat /\ v.dtype = "U8"
  <2>1. v = InputBytes(<<n>>, i.sym)
    BY <1>1 DEF VarValue
  <2> QED
    BY <1>1, <1>2, <2>1, VarMakes
<1>4. IsShapePos(sized) /\ Product(sized) = n
  BY <1>1, <1>2, WithSizeIs
<1>5. Product(flat) = n
  BY <1>1, <1>2, FlatShape
<1>6. u = Reshape(v, sized) /\ w = Bitcast(u, h)
  BY <1>1 DEF BytesValue, ParameterValue
<1>7. IsTensor(u, h) /\ u.shape = sized /\ u.dtype = "U8"
  BY <1>3, <1>4, <1>5, <1>6, ReshapeFits
<1>8. IsTensor(w, h) /\ w.shape = s /\ w.dtype = h
  BY <1>1, <1>2, <1>6, <1>7, WordsAre
<1>9. PICK info, type : info = Info(sized, "U8") /\ type = TypeOf(i)
  OBVIOUS
<1>10. Len(links) = 2 /\ links[1] = Link("reshape", sized, info) /\ links[2] = Link("bitcvt", <<>>, type)
  BY <1>1, <1>9, ParameterLinksAre DEF Untiled
<1>11. /\ links[1].op = "reshape" /\ links[1].data = sized /\ links[1].info = info
       /\ links[2].op = "bitcvt" /\ links[2].info = type
  BY <1>10, LinkFields
<1>12. type = Info(s, h)
  BY <1>1, <1>9 DEF TypeOf
<1>13. LinkFor(links[1], v, u, h)
  BY <1>6, <1>7, <1>9, <1>11, Zenon DEF LinkFor
<1>14. LinkFor(links[2], u, w, h)
  <2>1. w.dtype = IF u.dtype = "U8" THEN h ELSE "U8"
    BY <1>7, <1>8
  <2> QED
    BY <1>6, <1>8, <1>11, <1>12, <2>1, Zenon DEF LinkFor
<1>15. IsOf(w, TypeOf(i))
  BY <1>1, <1>8, TypeFields DEF IsOf
<1> QED
  BY <1>1, <1>10, <1>13, <1>14, <1>15

LEMMA RootLinksFor ==
  ASSUME NEW i, Untiled(i), NEW links, links = RootLinks(i),
         NEW v, IsOf(v, TypeOf(i)), NEW u, u = Bitcast(v, "U8"), NEW w, w = RootValue(i, v)
  PROVE  /\ LinkFor(links[1], v, u, i.dtype) /\ LinkFor(links[2], u, w, i.dtype)
         /\ Len(links) = 2
<1>1. PICK n, s, h, flat, sized :
        /\ n = Bytes(TypeOf(i)) /\ s = i.shape /\ h = i.dtype /\ flat = <<n>>
        /\ sized = WithSize(s, h)
  BY Zenon
<1>2. n \in Pos /\ n = Product(s) * SizeInBytes(h) /\ IsShapePos(s) /\ h \in Dtypes
  BY <1>1, BytesOfType DEF Untiled
<1>3. IsTensor(v, h) /\ v.shape = s /\ v.dtype = h
  BY <1>1, TypeFields DEF IsOf
<1>4. IsShapePos(sized) /\ Product(sized) = n
  BY <1>1, <1>2, WithSizeIs
<1>5. IsShapePos(flat) /\ Product(flat) = n
  BY <1>1, <1>2, FlatShape
<1>6. w = Reshape(u, flat)
  BY <1>1 DEF RootValue
<1>7. IsTensor(u, h) /\ u.shape = sized /\ u.dtype = "U8"
  BY <1>1, <1>3, BytesAre
<1>8. IsTensor(w, h) /\ w.shape = flat /\ w.dtype = "U8"
  BY <1>4, <1>5, <1>6, <1>7, ReshapeFits
<1>9. PICK info, type : info = Info(sized, "U8") /\ type = Info(flat, "U8")
  OBVIOUS
<1>10. Len(links) = 2 /\ links[1] = Link("bitcvt", <<>>, info) /\ links[2] = Link("reshape", flat, type)
  <2>1. flat = <<Bytes(TypeOf(i))>>
    BY <1>1
  <2> QED
    BY <1>1, <1>9, <2>1, RootLinksAre DEF Untiled
<1>11. /\ links[1].op = "bitcvt" /\ links[1].info = info
       /\ links[2].op = "reshape" /\ links[2].data = flat /\ links[2].info = type
  BY <1>10, LinkFields
<1>13. LinkFor(links[1], v, u, h)
  <2>1. u.dtype = IF v.dtype = "U8" THEN h ELSE "U8"
    BY <1>3, <1>7
  <2>2. u = Bitcast(v, u.dtype)
    BY <1>7
  <2> QED
    BY <1>7, <1>9, <1>11, <2>1, <2>2, Zenon DEF LinkFor
<1>14. LinkFor(links[2], u, w, h)
  BY <1>6, <1>8, <1>9, <1>11, Zenon DEF LinkFor
<1> QED
  BY <1>1, <1>10, <1>13, <1>14

LEMMA VarNode ==
  ASSUME NEW text, IsName(text), NEW en, en = Texted("var", text, <<>>)
  PROVE  /\ en.op = "var" /\ en.text = text /\ en.data = <<>> /\ en.kids = <<>>
         /\ en \in ENodes /\ HasParts(en) /\ DOMAIN en.kids = {}
<1>1. "var" \in TensorOps /\ <<>> \in Seq(Nat)
  BY DEF TensorOps
<1>2. en = ENode("var", text, <<>>, <<>>) /\ text \in Texts
  BY Zenon DEF Texted, IsName
<1>3. en.op = "var" /\ en.text = text /\ en.data = <<>> /\ en.kids = <<>>
  BY <1>2, ENodeIs
<1>4. en \in ENodes
  <2>1. ENode("var", text, <<>>, <<>>) \in ENodes
    BY <1>1, <1>2, ENodeIn, Zenon
  <2> QED
    BY <1>2, <2>1
<1>5. NumChildren("var") = 0 /\ Len(<<>>) = 0 /\ DOMAIN <<>> = {} /\ "var" # "slice" /\ "var" \in {"var"}
  BY DEF NumChildren, BinaryOps
<1>6. Len(en.kids) = NumChildren(en.op) /\ DOMAIN en.kids = {}
  BY <1>3, <1>5, Zenon
<1>7. HasParts(en)
  BY <1>3, <1>5, <1>6, Zenon DEF HasParts, IsName
<1> QED
  BY <1>3, <1>4, <1>6, <1>7

LEMMA VarGives ==
  ASSUME NEW g, NEW kind, Sound(g, kind), NEW ct, NEW val, NEW home, Lawful(ct, g, val, home),
         TrueInfos(g, val), NEW n0, Fresh(g, n0),
         NEW i, Untiled(i), IsName(i.sym),
         \A n \in g.nodes : n.en.op = "var" => n.en.text # i.sym,
         NEW added, added = AddTyped(g, Texted("var", i.sym, <<>>), Info(<<Bytes(TypeOf(i))>>, "U8"))
  PROVE  Gives(ct, g, val, home, n0, added.eg, added.id, VarValue(i), i.dtype)
<1>1. PICK n, text, h, v : n = Bytes(TypeOf(i)) /\ text = i.sym /\ h = i.dtype /\ v = VarValue(i)
  OBVIOUS
<1>2. PICK en : en = Texted("var", text, <<>>)
  OBVIOUS
<1>3. /\ en.op = "var" /\ en.text = text /\ en.data = <<>> /\ en.kids = <<>>
      /\ en \in ENodes /\ HasParts(en) /\ DOMAIN en.kids = {}
  BY <1>1, <1>2, VarNode
<1>4. n \in Pos /\ h \in Dtypes
  BY <1>1, BytesOfType DEF Untiled
<1>5. v = InputBytes(<<n>>, text)
  BY <1>1 DEF VarValue
<1>6. IsTensor(v, h) /\ v.shape = <<n>> /\ v.dtype = "U8"
  BY <1>4, <1>5, VarMakes
<1>7. PICK info : info = Info(v.shape, v.dtype)
  OBVIOUS
<1>8. info.shape = <<n>>
  BY <1>6, <1>7, InfoFacts
<1>9. Law(ct, en, Of(val, en), Of(home, en), v, h)
  <2>1. v = Computes(en, Of(val, en), info)
    BY <1>3, <1>5, <1>8, ComputesTyped, Zenon
  <2> QED
    BY <1>3, <1>7, <2>1 DEF Law
<1>10. NodeFor(ct, g, val, home, en, v, h)
  <2>1. \A m \in g.nodes : m.en.op = "var" => m.en.text # en.text
    BY <1>1, <1>3
  <2> QED
    BY <1>3, <1>6, <1>9, <2>1, Zenon DEF NodeFor
<1>11. added = AddTyped(g, en, info)
  BY <1>1, <1>2, <1>6, <1>7
<1>12. Gives(ct, g, val, home, n0, added.eg, added.id, v, h)
  BY <1>7, <1>10, <1>11, AddTypedGives
<1> QED
  BY <1>1, <1>12

LEMMA ParameterGives ==
  ASSUME NEW g, NEW kind, Sound(g, kind), NEW ct, NEW val, NEW home, Lawful(ct, g, val, home),
         TrueInfos(g, val), NEW n0, Fresh(g, n0),
         NEW mod, NEW i, NEW is_root, NEW symbols,
         Untiled(i), IsName(i.sym), i.op = "parameter",
         \A n \in g.nodes : n.en.op = "var" => n.en.text # i.sym,
         NEW added, added = AddExpr(g, mod, i, is_root, symbols)
  PROVE  /\ Gives(ct, g, val, home, n0, added.eg, added.id, ParameterValue(i), i.dtype)
         /\ IsOf(ParameterValue(i), TypeOf(i))
<1>1. PICK info : info = Info(<<Bytes(TypeOf(i))>>, "U8")
  OBVIOUS
<1>2. PICK text : text = i.sym
  OBVIOUS
<1>3. PICK var : var = AddTyped(g, Texted("var", text, <<>>), info)
  OBVIOUS
<1>4. PICK links : links = ParameterLinks(i)
  OBVIOUS
<1>5. PICK chain : chain = AddChain(var.eg, var.id, links)
  OBVIOUS
<1>6. added.eg = chain.eg /\ added.id = chain.id
  BY <1>1, <1>2, <1>3, <1>4, <1>5, Zenon DEF AddExpr
<1>7. Laid(i)
  BY UntiledIsLaid
<1>8. info \in Infos /\ info.dtype = "U8" /\ Len(info.shape) <= 1
  BY <1>1, <1>7, BytesInfo
<1>9. PICK more : NewVar(g, kind, var.eg, more, var.id, info, text)
  <2>1. IsName(text) /\ \A n \in g.nodes : n.en.op = "var" => n.en.text # text
    BY <1>2, Zenon
  <2> QED
    BY <1>3, <1>8, <2>1, AddVarIsSound, Zenon
<1>10. PICK v, u, w, h : v = VarValue(i) /\ u = BytesValue(i) /\ w = ParameterValue(i) /\ h = i.dtype
  OBVIOUS
<1>11. Gives(ct, g, val, home, n0, var.eg, var.id, v, h)
  BY <1>1, <1>2, <1>3, <1>10, VarGives
<1>12. PICK f, id : f = var.eg /\ id = var.id
  OBVIOUS
<1>13. PICK val2, home2 : Given(ct, g, val, home, n0, f, val2, home2, id, v, h)
  BY <1>11, <1>12, Zenon DEF Gives
<1>14. Sound(f, more) /\ id \in Ids(f) /\ more[id] = "input"
  BY <1>9, <1>12, Zenon DEF NewVar, Classes
<1>15. /\ Lawful(ct, f, val2, home2) /\ TrueInfos(f, val2) /\ Fresh(f, n0)
       /\ v = val2[id] /\ h = home2[id]
  BY <1>13, Zenon DEF Given, Holds
<1>16. /\ LinkFor(links[1], v, u, h) /\ LinkFor(links[2], u, w, h)
       /\ IsOf(w, TypeOf(i)) /\ Len(links) = 2
  BY <1>4, <1>10, ParameterLinksFor
<1>17. Chained(links, ParameterSteps) /\ ParameterSteps[0] = more[id]
  <2>1. ParameterSteps[0] = "input"
    BY DEF ParameterSteps
  <2> QED
    BY <1>4, <1>7, <1>14, <2>1, ParameterLinksAreChained
<1>18. PICK e, id2 : e = chain.eg /\ id2 = chain.id
  OBVIOUS
<1>19. Gives(ct, f, val2, home2, n0, e, id2, w, h)
  <2>1. chain = AddChain(f, id, links)
    BY <1>5, <1>12
  <2>2. Gives(ct, f, val2, home2, n0, chain.eg, chain.id, w, h)
    BY <1>14, <1>15, <1>16, <1>17, <2>1, TwoLinksGive, Zenon
  <2> QED
    BY <1>18, <2>2
<1>20. Gives(ct, g, val, home, n0, e, id2, w, h)
  BY <1>13, <1>14, <1>19, GivesTransitive
<1> QED
  BY <1>6, <1>10, <1>16, <1>18, <1>20

-----------------------------------------------------------------------------
(* An operation's class holds what it computes of its operands' tensors.   *)

\* The operands' classes hold tensors of their types.
Supplied(ct, i, val, home, kids, x, y) ==
  /\ Untiled(i) /\ Inferred(i, x, y)
  /\ i.op \notin {"parameter", "constant", "convert"} => i.dtype = x.dtype
  /\ 1 \in DOMAIN kids => IsOf(val[kids[1]], x) /\ home[kids[1]] = x.dtype
  /\ 2 \in DOMAIN kids => IsOf(val[kids[2]], y)
  /\ i.op = "constant" => ct[i.text] = i.dtype

\* The operations whose tensor is of the home of the first operand.
Homely(op) == op \notin {"bitcvt", "eye", "var", "constant", "convert"}

LEMMA EncodedOp ==
  ASSUME NEW i, NEW regions, NEW en, Encodes(i, regions, en), i.op \in Supported, i.op # "parameter",
         i.op = "reduce" => regions[i.text] \in Seq(STRING) /\ Reduces(regions[i.text])
  PROVE  /\ i.op \in BinaryOps \cup {"dot", "concatenate"} => NumChildren(en.op) = 2
         /\ i.op # "constant" => NumChildren(en.op) \in {1, 2}
         /\ i.op \notin {"constant", "convert"} => Homely(en.op)
<1>1. CASE i.op = "constant"
  BY <1>1 DEF BinaryOps
<1>2. CASE i.op = "convert"
  <2>1. en.op = "convert"
    BY <1>2 DEF Encodes
  <2> QED
    BY <1>2, <2>1 DEF BinaryOps, NumChildren
<1>3. CASE i.op \in {"broadcast", "reshape", "slice", "transpose"}
  <2>1. en.op = i.op
    BY <1>3, Zenon DEF Encodes
  <2> QED
    BY <1>3, <2>1 DEF BinaryOps, NumChildren, Homely
<1>4. CASE i.op = "concatenate"
  <2>1. en.op = "concat"
    BY <1>4 DEF Encodes
  <2> QED
    BY <1>4, <2>1 DEF BinaryOps, NumChildren, Homely
<1>5. CASE i.op \in BinaryOps \cup UnaryOps \cup {"dot"}
  <2>1. en.op = i.op
    BY <1>5, Zenon DEF Encodes
  <2> QED
    BY <1>5, <2>1 DEF BinaryOps, UnaryOps, NumChildren, Homely
<1>6. CASE i.op = "reduce"
  <2>1. PICK region : region = regions[i.text]
    OBVIOUS
  <2>2. ReduceKind(region) \in Reductions
    BY <1>6, <2>1, ReduceKindIsOne
  <2>3. en.op \in Reductions
    BY <1>6, <2>1, <2>2 DEF Encodes
  <2> QED
    BY <1>6, <2>3 DEF Reductions, BinaryOps, NumChildren, Homely
<1> QED
  BY <1>1, <1>2, <1>3, <1>4, <1>5, <1>6 DEF Supported

LEMMA KidsOf ==
  ASSUME NEW en, HasParts(en), en \in ENodes, NEW n \in {1, 2}, NumChildren(en.op) \in {1, 2},
         n <= NumChildren(en.op)
  PROVE  n \in DOMAIN en.kids
<1>1. en.kids \in Seq(Nat)
  BY DEF ENodes
<1>2. Len(en.kids) = NumChildren(en.op)
  BY Zenon DEF HasParts
<1> QED
  BY <1>1, <1>2

LEMMA SuppliedIsReady ==
  ASSUME NEW ct, NEW i, NEW val, NEW home, NEW kids, NEW x, NEW y, Supplied(ct, i, val, home, kids, x, y),
         NEW regions, Fed(i, regions, kids), i.op \in Supported, i.op # "parameter",
         NEW en, en = Operation(i, regions, kids)
  PROVE  /\ NodeOn(en, kids) /\ Encodes(i, regions, en)
         /\ Ready(i, regions, Of(val, en), x, y)
         /\ i.op \notin {"constant", "convert"} => Of(home, en)[1] = i.dtype
<1>1. NodeOn(en, kids)
  BY OperationIsNode
<1>2. Encodes(i, regions, en)
  BY OperationEncodes
<1>3. i.op = "reduce" => regions[i.text] \in Seq(STRING) /\ Reduces(regions[i.text])
  BY Zenon DEF Fed
<1>4. /\ i.op \in BinaryOps \cup {"dot", "concatenate"} => NumChildren(en.op) = 2
      /\ i.op # "constant" => NumChildren(en.op) \in {1, 2}
      /\ i.op \notin {"constant", "convert"} => Homely(en.op)
  BY <1>2, <1>3, EncodedOp
<1>5. en \in ENodes /\ HasParts(en)
      /\ \A k \in DOMAIN en.kids : k \in DOMAIN kids /\ en.kids[k] = kids[k]
  BY <1>1, Zenon DEF NodeOn
<1>6. i.op # "constant" =>
        Of(val, en)[1] = val[kids[1]] /\ Of(home, en)[1] = home[kids[1]] /\ 1 \in DOMAIN kids
  <2>1. ASSUME i.op # "constant" PROVE 1 \in DOMAIN en.kids
    <3>1. NumChildren(en.op) \in {1, 2} /\ 1 <= NumChildren(en.op)
      BY <1>4, <2>1
    <3> QED
      BY <1>5, <3>1, KidsOf
  <2> QED
    BY <1>5, <2>1 DEF Of
<1>7. i.op \in BinaryOps \cup {"dot", "concatenate"} =>
        Of(val, en)[2] = val[kids[2]] /\ 2 \in DOMAIN kids
  <2>1. ASSUME i.op \in BinaryOps \cup {"dot", "concatenate"} PROVE 2 \in DOMAIN en.kids
    <3>1. NumChildren(en.op) \in {1, 2} /\ 2 <= NumChildren(en.op)
      BY <1>4, <2>1
    <3> QED
      BY <1>5, <3>1, KidsOf
  <2> QED
    BY <1>5, <2>1 DEF Of
<1>8. PICK args : args = Of(val, en)
  OBVIOUS
<1>9. Ready(i, regions, args, x, y)
  <2>1. IsShapePos(i.shape) /\ i.dtype \in Dtypes /\ Inferred(i, x, y)
    BY Zenon DEF Supplied, Untiled
  <2>2. i.op \notin {"parameter", "constant", "convert"} => i.dtype = x.dtype
    BY Zenon DEF Supplied
  <2>3. i.op \notin {"parameter", "constant"} => IsOf(args[1], x)
    <3>1. 1 \in DOMAIN kids => IsOf(val[kids[1]], x)
      BY Zenon DEF Supplied
    <3> QED
      BY <1>6, <1>8, <3>1
  <2>4. i.op \in BinaryOps \cup {"dot", "concatenate"} => IsOf(args[2], y)
    <3>1. 2 \in DOMAIN kids => IsOf(val[kids[2]], y)
      BY Zenon DEF Supplied
    <3> QED
      BY <1>7, <1>8, <3>1
  <2>5. i.op \in {"slice", "transpose", "concatenate", "reduce"} => IsShape(i.attr)
    BY Zenon DEF Fed
  <2> QED
    BY <1>3, <2>1, <2>2, <2>3, <2>4, <2>5, Zenon DEF Ready
<1>10. i.op \notin {"constant", "convert"} => Of(home, en)[1] = i.dtype
  <2>1. 1 \in DOMAIN kids => home[kids[1]] = x.dtype
    BY Zenon DEF Supplied
  <2>2. i.op \notin {"parameter", "constant", "convert"} => i.dtype = x.dtype
    BY Zenon DEF Supplied
  <2> QED
    BY <1>6, <2>1, <2>2
<1> QED
  BY <1>1, <1>2, <1>8, <1>9, <1>10

LEMMA OperationLaw ==
  ASSUME NEW ct, NEW i, NEW regions, NEW en, Encodes(i, regions, en), i.op \in Supported, i.op # "parameter",
         i.op = "reduce" => regions[i.text] \in Seq(STRING) /\ Reduces(regions[i.text]),
         NEW kv, NEW kh, i.op \notin {"constant", "convert"} => kh[1] = i.dtype,
         i.op = "constant" => ct[i.text] = i.dtype,
         NEW v, v = Computes(en, kv, TypeOf(i)), IsOf(v, TypeOf(i)), i.dtype \in Dtypes
  PROVE  Law(ct, en, kv, kh, v, i.dtype)
<1>1. v.shape = i.shape /\ v.dtype = i.dtype
  BY TypeFields DEF IsOf
<1>2. v = Computes(en, kv, Info(v.shape, v.dtype))
  <2>1. TypeOf(i) = Info(v.shape, v.dtype)
    BY <1>1 DEF TypeOf
  <2> QED
    BY <2>1
<1>3. CASE i.op = "constant"
  <2>1. en.op = "constant" /\ en.text = i.text
    BY <1>3, Zenon DEF Encodes
  <2>2. i.dtype = ct[en.text] /\ v.dtype = i.dtype
    BY <1>1, <1>3, <2>1
  <2> QED
    BY <1>2, <2>1, <2>2 DEF Law
<1>4. CASE i.op = "convert"
  <2>1. en.op = "convert" /\ en.text = Text[i.dtype]
    BY <1>4, Zenon DEF Encodes
  <2>2. DtypeOf(en.text) = i.dtype
    BY <2>1, DtypeOfName
  <2> QED
    BY <1>2, <2>1, <2>2 DEF Law
<1>5. CASE i.op \notin {"constant", "convert"}
  <2>1. Homely(en.op)
    BY <1>5, EncodedOp
  <2>2. i.dtype = kh[1]
    BY <1>5
  <2> QED
    BY <1>2, <2>1, <2>2 DEF Law, Homely
<1> QED
  BY <1>3, <1>4, <1>5

\* What the instruction computes of its operands' classes.
OperationValue(i, regions, kids, val) ==
  LET en == Operation(i, regions, kids) IN Computes(en, Of(val, en), TypeOf(i))

LEMMA NodeGives ==
  ASSUME NEW g, NEW kind, Sound(g, kind), NEW ct, NEW val, NEW home, Lawful(ct, g, val, home),
         TrueInfos(g, val), NEW n0, Fresh(g, n0),
         NEW i, NEW regions, NEW kids, NEW x, NEW y, Supplied(ct, i, val, home, kids, x, y),
         Fed(i, regions, kids), i.op \in Supported, i.op # "parameter",
         \A k \in DOMAIN kids : kids[k] \in Ids(g),
         NEW added, added = AddTyped(g, Operation(i, regions, kids), TypeOf(i)),
         NEW v, v = OperationValue(i, regions, kids, val)
  PROVE  /\ Gives(ct, g, val, home, n0, added.eg, added.id, v, i.dtype)
         /\ IsOf(v, TypeOf(i))
<1>1. PICK en : en = Operation(i, regions, kids)
  OBVIOUS
<1>2. /\ NodeOn(en, kids) /\ Encodes(i, regions, en)
      /\ Ready(i, regions, Of(val, en), x, y)
      /\ i.op \notin {"constant", "convert"} => Of(home, en)[1] = i.dtype
  BY <1>1, SuppliedIsReady
<1>3. PICK args : args = Of(val, en)
  OBVIOUS
<1>4. ComputesFor(i, regions, en, args, v)
  BY <1>1, <1>2, <1>3 DEF ComputesFor, OperationValue
<1>5. Ready(i, regions, args, x, y)
  BY <1>2, <1>3
<1>6. i.op = "concatenate" => i.attr # <<>>
  BY DEF Fed, IsShape
<1>7. IsOf(v, TypeOf(i))
  BY <1>4, <1>5, <1>6, OperationIsTyped
<1>8. IsTensor(v, i.dtype) /\ v.shape = i.shape /\ v.dtype = i.dtype
  BY <1>7, TypeFields DEF IsOf
<1>9. Law(ct, en, Of(val, en), Of(home, en), v, i.dtype)
  <2>1. PICK kh : kh = Of(home, en)
    OBVIOUS
  <2>2. i.op = "reduce" => regions[i.text] \in Seq(STRING) /\ Reduces(regions[i.text])
    BY Zenon DEF Fed
  <2>3. i.op = "constant" => ct[i.text] = i.dtype
    BY Zenon DEF Supplied
  <2>4. v = Computes(en, args, TypeOf(i)) /\ i.dtype \in Dtypes
    BY <1>4, Zenon DEF ComputesFor, Supplied, Untiled
  <2>5. i.op \notin {"constant", "convert"} => kh[1] = i.dtype
    BY <1>2, <2>1
  <2>6. Law(ct, en, args, kh, v, i.dtype)
    BY <1>2, <1>7, <2>2, <2>3, <2>4, <2>5, OperationLaw, Zenon
  <2> QED
    BY <1>3, <2>1, <2>6
<1>10. NodeFor(ct, g, val, home, en, v, i.dtype)
  <2>1. \A k \in DOMAIN en.kids : en.kids[k] \in Ids(g)
    BY <1>2, Zenon DEF NodeOn
  <2> QED
    BY <1>2, <1>8, <1>9, <2>1, Zenon DEF NodeFor, NodeOn
<1>11. PICK info, h : info = Info(v.shape, v.dtype) /\ h = i.dtype
  OBVIOUS
<1>12. added = AddTyped(g, en, info)
  BY <1>1, <1>8, <1>11 DEF TypeOf
<1>13. Gives(ct, g, val, home, n0, added.eg, added.id, v, h)
  BY <1>10, <1>11, <1>12, AddTypedGives
<1> QED
  BY <1>7, <1>11, <1>13

\* The classes of an instruction's operands.
OperandIds(i, symbols) == [a \in DOMAIN i.args |-> symbols[i.args[a]]]

TypedIds(g, kind, kids) == \A k \in DOMAIN kids : kids[k] \in Ids(g) /\ kind[kids[k]] = "typed"

\* What an operation's class holds in the end.
Rooted(i, is_root, v) == IF is_root THEN RootValue(i, v) ELSE v

LEMMA OperationGives ==
  ASSUME NEW g, NEW kind, Sound(g, kind), NEW ct, NEW val, NEW home, Lawful(ct, g, val, home),
         TrueInfos(g, val), NEW n0, Fresh(g, n0),
         NEW mod, NEW i, NEW is_root, NEW symbols,
         NEW kids, kids = OperandIds(i, symbols),
         NEW x, NEW y, Supplied(ct, i, val, home, kids, x, y),
         Fed(i, mod.regions, kids), i.op \in Supported, i.op # "parameter",
         TypedIds(g, kind, kids),
         NEW added, added = AddExpr(g, mod, i, is_root, symbols),
         NEW v, v = OperationValue(i, mod.regions, kids, val),
         NEW r, r = Rooted(i, is_root, v)
  PROVE  Gives(ct, g, val, home, n0, added.eg, added.id, r, i.dtype) /\ IsOf(v, TypeOf(i))
<1>1. PICK en : en = Operation(i, mod.regions, kids)
  OBVIOUS
<1>2. PICK links : links = IF is_root THEN RootLinks(i) ELSE <<>>
  OBVIOUS
<1>3. PICK node : node = AddTyped(g, en, TypeOf(i))
  OBVIOUS
<1>4. PICK chain : chain = AddChain(node.eg, node.id, links)
  OBVIOUS
<1>5. added.eg = chain.eg /\ added.id = chain.id
  BY <1>1, <1>2, <1>3, <1>4, Zenon DEF AddExpr, OperandIds
<1>6. PICK h, regions : h = i.dtype /\ regions = mod.regions
  OBVIOUS
<1>7. Gives(ct, g, val, home, n0, node.eg, node.id, v, h) /\ IsOf(v, TypeOf(i))
  <2>1. /\ Fed(i, regions, kids) /\ v = OperationValue(i, regions, kids, val)
        /\ node = AddTyped(g, Operation(i, regions, kids), TypeOf(i))
    BY <1>1, <1>3, <1>6
  <2>2. \A k \in DOMAIN kids : kids[k] \in Ids(g)
    BY DEF TypedIds
  <2>3. Gives(ct, g, val, home, n0, node.eg, node.id, v, i.dtype) /\ IsOf(v, TypeOf(i))
    BY <2>1, <2>2, NodeGives
  <2> QED
    BY <1>6, <2>3
<1>8. CASE ~is_root
  <2>1. links = <<>>
    BY <1>2, <1>8
  <2>2. chain = AddChain(node.eg, node.id, <<>>)
    BY <1>4, <2>1
  <2>3. chain.eg = node.eg /\ chain.id = node.id
    BY <2>2, ChainOfNone
  <2>4. r = v
    BY <1>8 DEF Rooted
  <2> QED
    BY <1>5, <1>6, <1>7, <2>3, <2>4
<1>9. CASE is_root
  <2>1. links = RootLinks(i) /\ Untiled(i)
    BY <1>2, <1>9 DEF Supplied
  <2>2. PICK u, w : u = Bitcast(v, "U8") /\ w = RootValue(i, v)
    OBVIOUS
  <2>3. /\ LinkFor(links[1], v, u, h) /\ LinkFor(links[2], u, w, h) /\ Len(links) = 2
    BY <1>6, <1>7, <2>1, <2>2, RootLinksFor
  <2>4. TypedNode(g, kind, en) /\ TypeOf(i) \in Infos
    <3>1. NodeOn(en, kids)
      BY <1>1, OperationIsNode, Zenon
    <3>2. Laid(i)
      BY <2>1, UntiledIsLaid
    <3>3. TypeOf(i) \in Infos
      BY <3>2, ShapeIsInfo, Zenon DEF TypeOf, Laid
    <3>4. \A k \in DOMAIN kids : kids[k] \in Ids(g) /\ kind[kids[k]] = "typed"
      BY DEF TypedIds
    <3> QED
      BY <3>1, <3>3, <3>4, TypedNodeFits, Zenon
  <2>5. PICK more : Added(g, kind, en, node.eg, more, node.id)
    <3>1. /\ en \in ENodes /\ HasParts(en) /\ en.op # "var"
          /\ \A k \in DOMAIN en.kids : en.kids[k] \in Ids(g)
          /\ Fits(kind, en) /\ KindOf(kind, en) = "typed"
      BY <2>4, Zenon DEF TypedNode
    <3> QED
      BY <1>3, <2>4, <3>1, AddTypedIsSound, Zenon
  <2>6. PICK f, id : f = node.eg /\ id = node.id
    OBVIOUS
  <2>7. Sound(f, more) /\ id \in Ids(f) /\ more[id] = "typed"
    BY <2>4, <2>5, <2>6, Zenon DEF Added, TypedNode
  <2>8. PICK val2, home2 : Given(ct, g, val, home, n0, f, val2, home2, id, v, h)
    BY <1>7, <2>6, Zenon DEF Gives
  <2>9. /\ Lawful(ct, f, val2, home2) /\ TrueInfos(f, val2) /\ Fresh(f, n0)
        /\ v = val2[id] /\ h = home2[id]
    BY <2>8, Zenon DEF Given, Holds
  <2>10. Chained(links, TypedSteps) /\ TypedSteps[0] = more[id]
    <3>1. TypedSteps[0] = "typed"
      BY DEF TypedSteps
    <3> QED
      BY <2>1, <2>7, <3>1, UntiledIsLaid, RootLinksAreChained
  <2>11. PICK e, id2 : e = chain.eg /\ id2 = chain.id
    OBVIOUS
  <2>12. Gives(ct, f, val2, home2, n0, e, id2, w, h)
    <3>1. chain = AddChain(f, id, links)
      BY <1>4, <2>6
    <3>2. Gives(ct, f, val2, home2, n0, chain.eg, chain.id, w, h)
      BY <2>3, <2>7, <2>9, <2>10, <3>1, TwoLinksGive
    <3> QED
      BY <2>11, <3>2
  <2>13. Gives(ct, g, val, home, n0, e, id2, w, h)
    BY <2>7, <2>8, <2>12, GivesTransitive
  <2>14. r = w
    BY <1>9, <2>2 DEF Rooted
  <2> QED
    BY <1>5, <1>6, <1>7, <2>11, <2>13, <2>14
<1> QED
  BY <1>8, <1>9

-----------------------------------------------------------------------------
(* A module that is typed.                                                 *)

IsConstantOf(mod, k, text) == k \in DOMAIN mod.code /\ mod.code[k].op = "constant" /\ mod.code[k].text = text

\* The type of the constants of a text.
ConstantTypes(mod) ==
  [text \in STRING |-> mod.code[CHOOSE k : IsConstantOf(mod, k, text)].dtype]

LEMMA ConstantHasType ==
  ASSUME NEW mod, Typed(mod), NEW k \in DOMAIN mod.code, NEW i, i = mod.code[k], i.op = "constant",
         i.text \in STRING
  PROVE  ConstantTypes(mod)[i.text] = i.dtype
<1>1. PICK j : j = CHOOSE c : IsConstantOf(mod, c, i.text)
  OBVIOUS
<1>2. IsConstantOf(mod, k, i.text)
  BY DEF IsConstantOf
<1>3. IsConstantOf(mod, j, i.text)
  BY <1>1, <1>2, Zenon
<1>4. ConstantTypes(mod)[i.text] = mod.code[j].dtype
  BY <1>1, Zenon DEF ConstantTypes
<1>5. mod.code[j].dtype = mod.code[k].dtype
  <2>1. /\ j \in DOMAIN mod.code /\ mod.code[j].op = "constant" /\ mod.code[k].op = "constant"
        /\ mod.code[j].text = mod.code[k].text
    BY <1>2, <1>3, Zenon DEF IsConstantOf
  <2> QED
    BY <2>1, Zenon DEF Typed
<1> QED
  BY <1>4, <1>5

LEMMA DefiningIs ==
  ASSUME NEW mod, WellFormed(mod), NEW j \in DOMAIN mod.code, NEW sym, mod.code[j].sym = sym
  PROVE  Defining(mod.code, sym) = j
<1>1. PICK code : code = mod.code
  OBVIOUS
<1>2. DOMAIN code = 1 .. Len(code) /\ Len(code) \in Nat
      /\ \A k \in DOMAIN code : \A m \in 1 .. k - 1 : code[m].sym # code[k].sym
  BY <1>1, Zenon DEF WellFormed
<1>3. PICK k : k = CHOOSE c \in DOMAIN code : code[c].sym = sym
  OBVIOUS
<1>4. k \in DOMAIN code /\ code[k].sym = sym
  BY <1>1, <1>3
<1>5. k = j
  <2>1. j \in DOMAIN code /\ code[j].sym = sym
    BY <1>1
  <2>2. k < j => k \in 1 .. j - 1
    BY <1>2, <1>4, <2>1
  <2>3. j < k => j \in 1 .. k - 1
    BY <1>2, <1>4, <2>1
  <2>4. k < j \/ j < k \/ k = j
    BY <1>2, <1>4, <2>1
  <2>5. ~(k < j)
    BY <1>2, <1>4, <2>1, <2>2, Zenon
  <2>6. ~(j < k)
    BY <1>2, <1>4, <2>1, <2>3, Zenon
  <2> QED
    BY <2>4, <2>5, <2>6
<1> QED
  BY <1>1, <1>3, <1>5 DEF Defining

LEMMA DefinerIs ==
  ASSUME NEW mod, WellFormed(mod), NEW j \in DOMAIN mod.code, NEW sym, mod.code[j].sym = sym
  PROVE  Definer(mod, sym) = mod.code[j]
BY DefiningIs, Zenon DEF Definer

\* What is typed of an instruction.
IsTyped(mod, i) ==
  /\ Untiled(i)
  /\ Inferred(i, OperandType(mod, i, 1), OperandType(mod, i, 2))
  /\ i.op \notin {"parameter", "constant", "convert"} => i.dtype = OperandType(mod, i, 1).dtype

LEMMA InstructionIsTyped ==
  ASSUME NEW mod, Typed(mod), NEW k \in DOMAIN mod.code, NEW i, i = mod.code[k], i.op \in Supported,
         Laid(i)
  PROVE  IsTyped(mod, i)
<1>1. /\ i.tile = <<>>
      /\ \A d \in DOMAIN i.shape : i.shape[d] > 0
      /\ Inferred(i, OperandType(mod, i, 1), OperandType(mod, i, 2))
      /\ i.op \notin {"parameter", "constant", "convert"} => i.dtype = OperandType(mod, i, 1).dtype
  BY Zenon DEF Typed
<1>2. IsShape(i.shape) /\ i.dtype \in Dtypes
  BY Zenon DEF Laid
<1>3. IsShapePos(i.shape)
  <2>1. PICK s : s = i.shape
    OBVIOUS
  <2>2. s \in Seq(Nat) /\ s # <<>>
    BY <1>2, <2>1 DEF IsShape
  <2>3. \A d \in 1 .. Len(s) : s[d] \in Nat /\ s[d] > 0
    BY <1>1, <2>1, <2>2
  <2>4. \A d \in 1 .. Len(s) : s[d] \in Pos
    BY <2>3 DEF Pos
  <2>5. s \in Seq(Pos)
    BY <2>2, <2>4
  <2> QED
    BY <2>1, <2>2, <2>5 DEF IsShapePos
<1> QED
  BY <1>1, <1>2, <1>3, Zenon DEF IsTyped, Untiled

-----------------------------------------------------------------------------
(* The initializer's symbols name classes that hold their tensors.         *)

\* The class that a table has for an instruction holds its tensor.
Seen(mod, val, at, symbols, j) ==
  /\ IsOf(val[symbols[mod.code[j].sym]], TypeOf(mod.code[j]))
  /\ at[symbols[mod.code[j].sym]] = mod.code[j].dtype

SeenUpTo(mod, val, at, symbols, k) == \A j \in 1 .. k - 1 : Seen(mod, val, at, symbols, j)

\* The tensor of the class an instruction is given.
ExprValue(mod, i, is_root, symbols, val) ==
  IF i.op = "parameter" THEN ParameterValue(i)
  ELSE Rooted(i, is_root, OperationValue(i, mod.regions, OperandIds(i, symbols), val))

\* A class holds a tensor of a type.
HoldsOf(val, at, id, type) == IsOf(val[id], type) /\ at[id] = type.dtype

LEMMA OperandIsSeen ==
  ASSUME NEW mod, WellFormed(mod), NEW k \in DOMAIN mod.code, NEW i, Promised(mod, k, i),
         k \in Nat, k <= Len(mod.code),
         NEW val, NEW home, NEW symbols,
         SeenUpTo(mod, val, home, symbols, k),
         NEW a, a \in DOMAIN i.args
  PROVE  HoldsOf(val, home, symbols[i.args[a]], OperandType(mod, i, a))
<1>1. PICK j \in 1 .. k - 1 : mod.code[j].sym = i.args[a]
  BY Zenon DEF Promised
<1>2. DOMAIN mod.code = 1 .. Len(mod.code) /\ Len(mod.code) \in Nat
  BY Zenon DEF WellFormed
<1>3. j \in DOMAIN mod.code
  <2>1. PICK n : n = Len(mod.code)
    OBVIOUS
  <2>2. j \in 1 .. n
    BY <1>2, <2>1
  <2> QED
    BY <1>2, <2>1, <2>2
<1>4. PICK sym : sym = i.args[a]
  OBVIOUS
<1>5. Definer(mod, sym) = mod.code[j]
  BY <1>1, <1>3, <1>4, DefinerIs, Zenon
<1>6. OperandType(mod, i, a) = TypeOf(mod.code[j])
  BY <1>4, <1>5, Zenon DEF OperandType
<1>7. Seen(mod, val, home, symbols, j)
  BY Zenon DEF SeenUpTo
<1>8. TypeOf(mod.code[j]).dtype = mod.code[j].dtype
  BY TypeFields
<1> QED
  BY <1>1, <1>6, <1>7, <1>8, Zenon DEF Seen, HoldsOf

\* An instruction's operands hold tensors of the operands' types.
LEMMA InstructionIsSupplied ==
  ASSUME NEW mod, WellFormed(mod), Typed(mod), NEW k \in DOMAIN mod.code, k \in Nat, k <= Len(mod.code),
         NEW i, i = mod.code[k], i.op \in Supported,
         NEW val, NEW home, NEW symbols,
         SeenUpTo(mod, val, home, symbols, k),
         NEW kids, kids = OperandIds(i, symbols)
  PROVE  Supplied(ConstantTypes(mod), i, val, home, kids, OperandType(mod, i, 1), OperandType(mod, i, 2))
<1>1. InstructionOK(mod, k)
  BY Zenon DEF WellFormed
<1>2. Promised(mod, k, i)
  BY <1>1, InstructionFacts, Zenon
<1>3. Laid(i)
  BY <1>2, Zenon DEF Promised
<1>4. IsTyped(mod, i)
  BY <1>3, InstructionIsTyped, Zenon
<1>5. DOMAIN kids = DOMAIN i.args /\ \A a \in DOMAIN i.args : kids[a] = symbols[i.args[a]]
  BY Zenon DEF OperandIds
<1>6. \A a \in DOMAIN kids : /\ IsOf(val[kids[a]], OperandType(mod, i, a))
                             /\ home[kids[a]] = OperandType(mod, i, a).dtype
  <2>1. ASSUME NEW a \in DOMAIN i.args
        PROVE  HoldsOf(val, home, symbols[i.args[a]], OperandType(mod, i, a))
    BY <1>2, OperandIsSeen
  <2> QED
    BY <1>5, <2>1, Zenon DEF HoldsOf
<1>7. i.op = "constant" => ConstantTypes(mod)[i.text] = i.dtype
  <2>1. i.text \in STRING
    BY <1>1, Zenon DEF InstructionOK
  <2> QED
    BY <2>1, ConstantHasType, Zenon
<1>8. /\ 1 \in DOMAIN kids => IsOf(val[kids[1]], OperandType(mod, i, 1))
                             /\ home[kids[1]] = OperandType(mod, i, 1).dtype
      /\ 2 \in DOMAIN kids => IsOf(val[kids[2]], OperandType(mod, i, 2))
  BY <1>6, Zenon
<1> QED
  BY <1>4, <1>7, <1>8, Zenon DEF Supplied, IsTyped

\* The symbols of the instructions before are the e-graph's.
SymbolsKnown(g, kind, mod, symbols, k) ==
  /\ \A j \in 1 .. k - 1 : symbols[mod.code[j].sym] \in Ids(g) /\ kind[symbols[mod.code[j].sym]] = "typed"
  /\ \A n \in g.nodes : n.en.op = "var" => \E j \in 1 .. k - 1 : n.en.text = mod.code[j].sym

ExprGiven(ct, g, val, home, n0, added, i, is_root, v) ==
  /\ Gives(ct, g, val, home, n0, added.eg, added.id, v, i.dtype)
  /\ ~is_root => IsOf(v, TypeOf(i))

\* The operands' classes are e-nodes' children.
LEMMA OperandsAreKnown ==
  ASSUME NEW g, NEW kind, NEW mod, NEW k, NEW i, Promised(mod, k, i),
         NEW symbols, SymbolsKnown(g, kind, mod, symbols, k)
  PROVE  Known(g, kind, i, symbols)
<1>1. ASSUME NEW a \in DOMAIN i.args
      PROVE  symbols[i.args[a]] \in Ids(g) /\ kind[symbols[i.args[a]]] = "typed"
  <2>1. PICK j \in 1 .. k - 1 : mod.code[j].sym = i.args[a]
    BY Zenon DEF Promised
  <2>2. symbols[mod.code[j].sym] \in Ids(g) /\ kind[symbols[mod.code[j].sym]] = "typed"
    BY Zenon DEF SymbolsKnown
  <2> QED
    BY <2>1, <2>2, Zenon
<1> QED
  BY <1>1, Zenon DEF Known

LEMMA InstructionIsFed ==
  ASSUME NEW g, NEW kind, Sound(g, kind), NEW mod, WellFormed(mod),
         NEW k \in DOMAIN mod.code,
         NEW i, i = mod.code[k], NEW is_root, NEW slots, Accepted(mod, i, is_root, slots),
         i.op # "parameter", NEW symbols, SymbolsKnown(g, kind, mod, symbols, k)
  PROVE  Fed(i, mod.regions, OperandIds(i, symbols))
<1>1. i.op \in Supported
  BY Zenon DEF Accepted
<1>2. Promised(mod, k, i)
  <2>1. InstructionOK(mod, k)
    BY <1>1, Zenon DEF WellFormed
  <2> QED
    BY <2>1, InstructionFacts, Zenon
<1>3. PICK kids : kids = OperandIds(i, symbols)
  OBVIOUS
<1>4. Known(g, kind, i, symbols)
  BY <1>2, OperandsAreKnown, Zenon
<1>5. i.args \in Seq(STRING) /\ Len(i.args) \in Operands(i.op) /\ Laid(i)
  BY <1>2, Zenon DEF Promised
<1>6. kids \in Seq(Nat) /\ Len(kids) = Len(i.args)
  <2>1. Ids(g) \subseteq Nat
    BY EGraphFacts DEF Sound, IsEGraph
  <2>2. \A a \in DOMAIN i.args : symbols[i.args[a]] \in Nat
    BY <1>4, <2>1, Zenon DEF Known
  <2>3. PICK args : args = i.args
    OBVIOUS
  <2>4. DOMAIN args = 1 .. Len(args) /\ Len(args) \in Nat
    BY <1>5, <2>3
  <2>5. PICK D : D = Nat
    BY Zenon
  <2>6. Len(args) \in D /\ D \subseteq Nat
    BY <2>4, <2>5
  <2>7. kids = [a \in DOMAIN args |-> symbols[args[a]]]
    BY <1>3, <2>3, Zenon DEF OperandIds
  <2>8. \A a \in DOMAIN args : symbols[args[a]] \in Nat
    BY <2>2, <2>3, Zenon
  <2>9. kids \in Seq(Nat) /\ Len(kids) = Len(args)
    BY <2>4, <2>6, <2>7, <2>8, KidsAreSeq
  <2> QED
    BY <2>3, <2>9, Zenon
<1>7. Len(kids) \in Operands(i.op)
  BY <1>5, <1>6, Zenon
<1>8. i.op \in {"slice", "transpose", "concatenate", "reduce"} => IsShape(i.attr)
  BY <1>2, Zenon DEF Promised
<1>9. i.op = "constant" => IsName(i.text)
  BY <1>2, Zenon DEF Promised
<1>10. i.op = "reduce" => mod.regions[i.text] \in Seq(STRING) /\ Reduces(mod.regions[i.text])
  BY Zenon DEF Accepted, WellFormed
<1> QED
  BY <1>3, <1>5, <1>6, <1>7, <1>8, <1>9, <1>10, Zenon DEF Fed

\* add_expr gives the instruction a class with its tensor.
LEMMA ExprGives ==
  ASSUME NEW g, NEW kind, Sound(g, kind), NEW mod, WellFormed(mod), Typed(mod),
         NEW ct, ct = ConstantTypes(mod), NEW val, NEW home, Lawful(ct, g, val, home),
         TrueInfos(g, val), NEW n0, Fresh(g, n0),
         NEW k \in DOMAIN mod.code, k \in Nat, k <= Len(mod.code),
         NEW i, i = mod.code[k], NEW is_root, NEW slots, Accepted(mod, i, is_root, slots),
         NEW symbols, SymbolsKnown(g, kind, mod, symbols, k),
         SeenUpTo(mod, val, home, symbols, k),
         NEW added, added = AddExpr(g, mod, i, is_root, symbols),
         NEW v, v = ExprValue(mod, i, is_root, symbols, val)
  PROVE  ExprGiven(ct, g, val, home, n0, added, i, is_root, v)
<1>1. i.op \in Supported /\ (is_root => i.op # "parameter")
  BY Zenon DEF Accepted
<1>2. InstructionOK(mod, k) /\ \A j \in 1 .. k - 1 : mod.code[j].sym # i.sym
  BY <1>1, Zenon DEF WellFormed
<1>3. Promised(mod, k, i)
  BY <1>2, InstructionFacts, Zenon
<1>4. Laid(i) /\ IsName(i.sym)
  BY <1>3, Zenon DEF Promised
<1>5. CASE i.op = "parameter"
  <2>1. \A n \in g.nodes : n.en.op = "var" => n.en.text # i.sym
    BY <1>2, Zenon DEF SymbolsKnown
  <2>2. IsTyped(mod, i)
    BY <1>1, <1>4, InstructionIsTyped, Zenon
  <2>3. Untiled(i)
    BY <2>2, Zenon DEF IsTyped
  <2>4. v = ParameterValue(i)
    BY <1>5, Zenon DEF ExprValue
  <2> QED
    BY <1>4, <1>5, <2>1, <2>3, <2>4, ParameterGives, Zenon DEF ExprGiven
<1>6. CASE i.op # "parameter"
  <2>1. PICK kids : kids = OperandIds(i, symbols)
    OBVIOUS
  <2>6. Fed(i, mod.regions, kids)
    <3>1. Fed(i, mod.regions, OperandIds(i, symbols))
      BY <1>6, InstructionIsFed, Zenon
    <3> QED
      BY <2>1, <3>1
  <2>7. TypedIds(g, kind, kids)
    <3>1. Known(g, kind, i, symbols)
      BY <1>3, OperandsAreKnown, Zenon
    <3> QED
      BY <2>1, <3>1, Zenon DEF Known, TypedIds, OperandIds
  <2>8. PICK x, y : x = OperandType(mod, i, 1) /\ y = OperandType(mod, i, 2)
    OBVIOUS
  <2>9. Supplied(ct, i, val, home, kids, x, y)
    <3>1. Supplied(ConstantTypes(mod), i, val, home, kids, OperandType(mod, i, 1), OperandType(mod, i, 2))
      BY <1>1, <2>1, InstructionIsSupplied
    <3> QED
      BY <2>8, <3>1
  <2>10. PICK w : w = OperationValue(i, mod.regions, kids, val)
    OBVIOUS
  <2>11. v = Rooted(i, is_root, w)
    BY <1>6, <2>1, <2>10, Zenon DEF ExprValue
  <2>12. Gives(ct, g, val, home, n0, added.eg, added.id, v, i.dtype) /\ IsOf(w, TypeOf(i))
    BY <1>1, <1>6, <2>1, <2>6, <2>7, <2>9, <2>10, <2>11, OperationGives
  <2> QED
    BY <2>11, <2>12 DEF Rooted, ExprGiven
<1> QED
  BY <1>5, <1>6

-----------------------------------------------------------------------------
(* The run once more, from the empty e-graph on.                           *)

\* The classes' tensors, their infos, and while the initializer is at work
\* the symbols' tensors.
HasValues(home) ==
  /\ Lawful(ConstantTypes(module), eg, value, home) /\ TrueInfos(eg, value)
  /\ phase = "build" => SeenUpTo(module, value, home, table, pc)

\* The class that an instruction has been given holds v, and the others hold
\* what they held.
Adding(home, v) ==
  /\ Lawful(ConstantTypes(module'), eg', value', home) /\ TrueInfos(eg', value')
  /\ phase' = "build" => SeenUpTo(module', value', home, table', pc')
  /\ Extends(value', value, Len(eg.uf)) /\ value'[table'[Instruction.sym]] = v
  /\ IsRoot => root' = table'[Instruction.sym]
  /\ ~IsRoot => IsOf(v, TypeOf(Instruction))

LEMMA AddInstructionGives ==
  ASSUME NEW kind, IsInv(kind), NEW home, HasValues(home), Typed(module), AddInstruction,
         NEW v, v = ExprValue(module, Instruction, IsRoot, table, value)
  PROVE  \E home2 : Adding(home2, v)
<1>1. PICK i, is_root, ct : i = Instruction /\ is_root = IsRoot /\ ct = ConstantTypes(module)
  OBVIOUS
<1>2. PICK added : added = AddExpr(eg, module, i, is_root, table)
  OBVIOUS
<1>3. phase = "build" /\ Accepted(module, i, is_root, offsets)
  BY <1>1, Zenon DEF AddInstruction
<1>4. /\ eg' = added.eg /\ table' = Inserted(table, i.sym, added.id)
      /\ root' = IF IsRoot THEN added.id ELSE root
  BY <1>1, <1>2, Zenon DEF AddInstruction
<1>5. /\ value' = Valued(value, eg') /\ pc' = pc + 1
      /\ phase' = IF IsRoot THEN "hook" ELSE "build"
      /\ module' = module
  BY Zenon DEF AddInstruction, run
<1>6. Control /\ Sound(eg, kind) /\ IsTuple(value, Len(eg.uf)) /\ SymbolsOK(kind)
  BY Zenon DEF IsInv
<1>7. /\ WellFormed(module)
      /\ Len(module.code) \in Nat \ {0} /\ DOMAIN module.code = 1 .. Len(module.code)
  BY <1>6, ModuleFacts, Zenon DEF Control
<1>8. pc \in DOMAIN module.code /\ pc \in Nat /\ pc <= Len(module.code) /\ i = module.code[pc]
  <2>1. pc \in 1 .. Len(module.code) + 1 /\ pc <= Len(module.code)
    BY <1>3, <1>6, Zenon DEF Control
  <2> QED
    BY <1>1, <1>7, <2>1 DEF Instruction
<1>9. /\ \A j \in 1 .. pc - 1 : table[module.code[j].sym] \in Ids(eg)
                                /\ kind[table[module.code[j].sym]] = "typed"
      /\ \A n \in eg.nodes : n.en.op = "var" => \E j \in 1 .. pc - 1 : n.en.text = module.code[j].sym
      /\ \A j \in 1 .. pc - 1 : module.code[j].sym \in DOMAIN table
  BY <1>6, Zenon DEF SymbolsOK
<1>10. PICK more : ExprOK(eg, kind, added.eg, more, added, i)
  BY <1>2, <1>3, <1>6, <1>7, <1>8, <1>9, AddExprIsSound, Zenon
<1>11. Sound(eg', more)
  BY <1>4, <1>10, Zenon DEF ExprOK, Built
<1>12. /\ Lawful(ct, eg, value, home) /\ TrueInfos(eg, value)
       /\ SeenUpTo(module, value, home, table, pc)
  BY <1>1, <1>3, Zenon DEF HasValues
<1>13. PICK top : top = Len(eg.uf)
  BY Zenon
<1>14. top \in Nat /\ Ids(eg) = 1 .. top
  BY <1>6, <1>13, SoundIds
<1>15. Fresh(eg, top)
  BY <1>14 DEF Fresh
<1>16. /\ Gives(ct, eg, value, home, top, added.eg, added.id, v, i.dtype)
       /\ ~is_root => IsOf(v, TypeOf(i))
  <2>1. v = ExprValue(module, i, is_root, table, value)
    BY <1>1
  <2>2. SymbolsKnown(eg, kind, module, table, pc)
    BY <1>9, Zenon DEF SymbolsKnown
  <2>3. ExprGiven(ct, eg, value, home, top, added, i, is_root, v)
    BY <1>1, <1>2, <1>3, <1>6, <1>7, <1>8, <1>12, <1>15, <2>1, <2>2, ExprGives, Zenon
  <2> QED
    BY <2>3, Zenon DEF ExprGiven
<1>17. PICK val2, home2 : Given(ct, eg, value, home, top, added.eg, val2, home2, added.id, v, i.dtype)
  BY <1>16, Zenon DEF Gives
<1>18. /\ Lawful(ct, eg', val2, home2) /\ TrueInfos(eg', val2) /\ Fresh(eg', top)
       /\ Len(eg.uf) <= Len(eg'.uf)
       /\ Extends(val2, value, top) /\ Extends(home2, home, top)
       /\ val2[added.id] = v /\ home2[added.id] = i.dtype
  BY <1>4, <1>13, <1>17, Zenon DEF Given, Holds
<1>19. value' = val2
  <2>1. PICK h : h = eg'
    OBVIOUS
  <2>2. /\ Sound(h, more) /\ Lawful(ct, h, val2, home2) /\ TrueInfos(h, val2) /\ Fresh(h, top)
        /\ top <= Len(h.uf) /\ IsTuple(value, top)
    BY <1>6, <1>11, <1>13, <1>18, <2>1
  <2>3. Valued(value, h) = val2
    BY <1>14, <1>18, <2>2, ValuedIs, Zenon
  <2> QED
    BY <1>5, <2>1, <2>3, Zenon
<1>20. /\ table'[i.sym] = added.id
       /\ \A x \in DOMAIN table : x # i.sym => table'[x] = table[x]
  <2>1. IsInserted(table', table, i.sym, added.id)
    BY <1>4, InsertedFacts, Zenon
  <2> QED
    BY <2>1, Zenon DEF IsInserted
<1>21. ASSUME phase' = "build" PROVE SeenUpTo(module, val2, home2, table', pc')
  <2>1. ~is_root
    BY <1>1, <1>5, <1>21
  <2> SUFFICES ASSUME NEW j \in 1 .. pc' - 1
               PROVE  Seen(module, val2, home2, table', j)
    BY Zenon DEF SeenUpTo
  <2>2. j \in 1 .. pc - 1 \/ j = pc
    BY <1>5, <1>8
  <2>3. CASE j = pc
    <3>1. module.code[j] = i
      BY <1>8, <2>3
    <3> QED
      BY <1>16, <1>18, <1>20, <2>1, <3>1, Zenon DEF Seen
  <2>4. CASE j \in 1 .. pc - 1
    <3>1. PICK sym : sym = module.code[j].sym
      OBVIOUS
    <3>2. sym \in DOMAIN table /\ table[sym] \in Ids(eg) /\ sym # i.sym
      BY <1>7, <1>8, <1>9, <2>4, <3>1, Zenon DEF WellFormed
    <3>3. table'[sym] = table[sym]
      BY <1>20, <3>2, Zenon
    <3>4. val2[table[sym]] = value[table[sym]] /\ home2[table[sym]] = home[table[sym]]
      BY <1>14, <1>18, <3>2, Zenon DEF Extends
    <3>5. Seen(module, value, home, table, j)
      BY <1>12, <2>4, Zenon DEF SeenUpTo
    <3> QED
      BY <3>1, <3>3, <3>4, <3>5, Zenon DEF Seen
  <2> QED
    BY <2>2, <2>3, <2>4
<1>22. IsRoot => root' = table'[i.sym]
  BY <1>4, <1>20
<1>23. value'[table'[i.sym]] = v /\ (~IsRoot => IsOf(v, TypeOf(i)))
  BY <1>1, <1>16, <1>18, <1>19, <1>20
<1>24. Adding(home2, v)
  BY <1>1, <1>5, <1>13, <1>18, <1>19, <1>21, <1>22, <1>23, Zenon DEF Adding
<1> QED
  BY <1>24, Zenon

\* The invariant of the tensors.
VInv == \E home : HasValues(home)

LEMMA EmptyIsLawful ==
  ASSUME NEW g, g = EmptyEGraph, NEW val, val = <<>>, NEW ct
  PROVE  Lawful(ct, g, val, <<>>) /\ TrueInfos(g, val)
<1>1. g.nodes = {} /\ g.uf = <<>>
  BY DEF EmptyEGraph
<1>2. Ids(g) = {} /\ Len(g.uf) = 0
  BY <1>1 DEF Ids
<1>3. Classes(g) = {}
  BY <1>2 DEF Classes
<1>4. IsTuple(val, 0) /\ val = <<>>
  BY DEF IsTuple
<1> QED
  BY <1>1, <1>2, <1>3, <1>4, Zenon DEF Lawful, TrueInfos

LEMMA InitHasValues == Init => VInv
<1> SUFFICES ASSUME Init PROVE VInv
  OBVIOUS
<1>1. module \in Modules /\ pc = 1 /\ eg = EmptyEGraph /\ value = <<>>
  BY Zenon DEF Init
<1>2. Lawful(ConstantTypes(module), eg, value, <<>>) /\ TrueInfos(eg, value)
  BY <1>1, EmptyIsLawful
<1>3. SeenUpTo(module, value, <<>>, table, pc)
  <2>1. 1 .. pc - 1 = {}
    BY <1>1
  <2> QED
    BY <2>1, Zenon DEF SeenUpTo
<1> QED
  BY <1>2, <1>3, Zenon DEF VInv, HasValues

\* Once it is built, the e-graph's tensors are all there is to it.
LEMMA CarriedHasValues ==
  ASSUME Carried(ConstantTypes(module)), module' = module, phase' # "build"
  PROVE  VInv'
<1>1. PICK home : Lawful(ConstantTypes(module), eg', value', home) /\ TrueInfos(eg', value')
  BY Zenon DEF Carried, Carries
<1>2. HasValues(home)'
  BY <1>1, Zenon DEF HasValues
<1> QED
  BY <1>2, Zenon DEF VInv

LEMMA StepHasValues ==
  ASSUME NEW kind, IsInv(kind), VInv, Typed(module), [Next]_vars, NoMistake
  PROVE  VInv'
<1>1. PICK home : HasValues(home)
  BY Zenon DEF VInv
<1>2. PICK ct : ct = ConstantTypes(module)
  OBVIOUS
<1>3. Carries(ct, eg, value)
  BY <1>1, <1>2, Zenon DEF HasValues, Carries
<1>4. CASE AddInstruction
  <2>1. PICK v, home2 : Adding(home2, v)
    BY <1>1, <1>4, AddInstructionGives
  <2>2. HasValues(home2)'
    BY <2>1, Zenon DEF Adding, HasValues
  <2> QED
    BY <2>2, Zenon DEF VInv
<1>5. CASE Panic
  <2>1. module' = module /\ phase' # "build"
    BY <1>5 DEF Panic
  <2> QED
    BY <1>2, <1>3, <1>5, <2>1, RestCarries, CarriedHasValues
<1>6. CASE Iterate
  <2>1. module' = module /\ phase' # "build"
    BY <1>6 DEF Iterate
  <2> QED
    BY <1>2, <1>3, <1>6, <2>1, RestCarries, CarriedHasValues
<1>7. CASE Apply
  <2>1. module' = module /\ phase' # "build"
    BY <1>7 DEF Apply
  <2> QED
    BY <1>2, <1>3, <1>7, <2>1, ApplyCarries, CarriedHasValues
<1>8. CASE Rebuild
  <2>1. module' = module /\ phase' # "build"
    BY <1>8 DEF Rebuild
  <2> QED
    BY <1>2, <1>3, <1>8, <2>1, RebuildCarries, CarriedHasValues
<1>9. CASE EndIteration
  <2>1. module' = module /\ phase' # "build"
    BY <1>9 DEF EndIteration
  <2> QED
    BY <1>2, <1>3, <1>9, <2>1, RestCarries, CarriedHasValues
<1>10. CASE Stop
  <2>1. module' = module /\ phase' # "build"
    BY <1>10 DEF Stop
  <2> QED
    BY <1>2, <1>3, <1>10, <2>1, RestCarries, CarriedHasValues
<1>11. CASE Interrupt
  <2>1. module' = module /\ phase' # "build"
    BY <1>11 DEF Interrupt
  <2> QED
    BY <1>2, <1>3, <1>11, <2>1, RestCarries, CarriedHasValues
<1>12. CASE UNCHANGED vars
  <2>1. /\ eg' = eg /\ module' = module /\ value' = value /\ phase' = phase /\ table' = table
        /\ pc' = pc
    BY <1>12, Zenon DEF vars, built, ghost
  <2>2. HasValues(home)'
    BY <1>1, <2>1, Zenon DEF HasValues
  <2> QED
    BY <2>2, Zenon DEF VInv
<1> QED
  BY <1>4, <1>5, <1>6, <1>7, <1>8, <1>9, <1>10, <1>11, <1>12, Zenon DEF Next, Step, Finished

\* No step changes the module.
LEMMA ModuleStays ==
  ASSUME [Next]_vars PROVE module' = module
<1>1. CASE UNCHANGED vars
  BY <1>1, Zenon DEF vars
<1> QED
  BY <1>1, Zenon DEF Next, Step, Finished, AddInstruction, Panic, Iterate, Apply,
     Interrupt, Rebuild, EndIteration, Stop

\* The classes' tensors are what their e-nodes compute ...
LEMMA ValuesAreOne ==
  ASSUME NEW kind, IsInv(kind), VInv
  PROVE  ClassesHoldOneValue
<1>1. PICK home : HasValues(home)
  BY Zenon DEF VInv
<1>2. PICK ct : ct = ConstantTypes(module)
  OBVIOUS
<1>3. Lawful(ct, eg, value, home) /\ TrueInfos(eg, value) /\ Sound(eg, kind)
  BY <1>1, <1>2, Zenon DEF HasValues, IsInv
<1> SUFFICES ASSUME NEW n \in eg.nodes
             PROVE  Same(Computes(n.en, [k \in DOMAIN n.en.kids |-> ValueOf(n.en.kids[k])],
                                  eg.info[n.cls]), ValueOf(n.cls))
  BY DEF ClassesHoldOneValue
<1>4. n.cls \in Classes(eg) /\ \A k \in DOMAIN n.en.kids : n.en.kids[k] \in Classes(eg)
  BY <1>3, Zenon DEF Sound, IsEGraph
<1>5. \A c \in Classes(eg) : ValueOf(c) = value[c]
  BY DEF ValueOf, Classes, Find
<1>6. [k \in DOMAIN n.en.kids |-> ValueOf(n.en.kids[k])] = Of(value, n.en)
  BY <1>4, <1>5 DEF Of
<1>7. PICK v : v = value[n.cls]
  OBVIOUS
<1>8. eg.info[n.cls] = Info(v.shape, v.dtype)
  BY <1>3, <1>4, <1>7, Zenon DEF TrueInfos, TrueAt
<1>9. v = Computes(n.en, Of(value, n.en), Info(v.shape, v.dtype))
  <2>1. NodeLaw(ct, value, home, n)
    BY <1>3, Zenon DEF Lawful
  <2> QED
    BY <1>7, <2>1, Zenon DEF NodeLaw, Law
<1>10. Computes(n.en, [k \in DOMAIN n.en.kids |-> ValueOf(n.en.kids[k])], eg.info[n.cls]) = v
       /\ ValueOf(n.cls) = v
  BY <1>4, <1>5, <1>6, <1>7, <1>8, <1>9, Zenon
<1> QED
  BY <1>10, Zenon DEF Same

\* ... and of the shapes and types that the rules read.
LEMMA ValuesHaveInfos ==
  ASSUME VInv
  PROVE  InfosAreTrue
<1>1. PICK home : HasValues(home)
  BY Zenon DEF VInv
<1>2. TrueInfos(eg, value)
  BY <1>1, Zenon DEF HasValues
<1>3. \A c \in Classes(eg) : ValueOf(c) = value[c]
  BY DEF ValueOf, Classes, Find
<1> QED
  BY <1>2, <1>3, Zenon DEF InfosAreTrue, TrueInfos, TrueAt

LEMMA ValuesAlways == Spec /\ []NoMistake => [](Typed(module) => VInv)
<1>1. Init => (Typed(module) => VInv)
  BY InitHasValues
<1>2. IInv /\ NoMistake /\ (Typed(module) => VInv) /\ [Next]_vars => (Typed(module) => VInv)'
  <2> SUFFICES ASSUME IInv, NoMistake, Typed(module) => VInv, [Next]_vars, Typed(module)'
               PROVE  VInv'
    OBVIOUS
  <2>1. PICK kind : IsInv(kind)
    BY Zenon DEF IInv
  <2>2. module' = module
    BY ModuleStays
  <2>3. Typed(module)
    BY <2>2, Zenon
  <2> QED
    BY <2>1, <2>3, StepHasValues
<1> QED
  BY <1>1, <1>2, InvAlways, PTL DEF Spec

\* Of a module that is typed, every e-node of a class computes the class's
\* tensor, whatever rules have rewritten the e-graph and merged its classes, as
\* long as no step of apply_one is mistaken.
THEOREM ClassesAlwaysHoldOneValue ==
  Spec /\ []NoMistake => [](Typed(module) => ClassesHoldOneValue)
<1>1. IInv /\ VInv => ClassesHoldOneValue
  BY ValuesAreOne DEF IInv
<1> QED
  BY <1>1, InvAlways, ValuesAlways, PTL

\* The shapes and types that the analysis keeps of the classes, and that the
\* conditions of the rules read, are those of the tensors in them.
THEOREM InfosAreAlwaysTrue ==
  Spec /\ []NoMistake => [](Typed(module) => InfosAreTrue)
<1>1. VInv => InfosAreTrue
  BY ValuesHaveInfos
<1> QED
  BY <1>1, ValuesAlways, PTL

-----------------------------------------------------------------------------
(* The tensor of an instruction's class is what HLO means by it.           *)

\* The tensors of an instruction's operands.
OperandValues(i, symbols, val) == [a \in DOMAIN i.args |-> val[symbols[i.args[a]]]]

\* The class of an instruction holds what HLO means of its operands' tensors.
Means(mod, val, symbols, j) ==
  /\ mod.code[j].op \in Supported
  /\ val[symbols[mod.code[j].sym]] =
       Meaning(mod.code[j], mod.regions, OperandValues(mod.code[j], symbols, val))

MeansUpTo(mod, val, symbols, k) == \A j \in 1 .. k - 1 : Means(mod, val, symbols, j)

\* The tensor an instruction stands for, before the root's is made bytes.
InstructionValue(mod, i, symbols, val) ==
  IF i.op = "parameter" THEN ParameterValue(i)
  ELSE OperationValue(i, mod.regions, OperandIds(i, symbols), val)

LEMMA ExprIsRooted ==
  ASSUME NEW mod, NEW i, NEW is_root, is_root => i.op # "parameter", NEW symbols, NEW val
  PROVE  ExprValue(mod, i, is_root, symbols, val) = Rooted(i, is_root, InstructionValue(mod, i, symbols, val))
BY DEF ExprValue, Rooted, InstructionValue

LEMMA OperandsAgree ==
  ASSUME NEW i, NEW regions, NEW symbols, NEW kids, kids = OperandIds(i, symbols),
         Fed(i, regions, kids), i.op \in Supported, i.op # "parameter",
         NEW en, NodeOn(en, kids), Encodes(i, regions, en),
         NEW val, NEW args, args = Of(val, en), NEW margs, margs = OperandValues(i, symbols, val)
  PROVE  Agree(i, args, margs)
<1>1. /\ i.op \in BinaryOps \cup {"dot", "concatenate"} => NumChildren(en.op) = 2
      /\ i.op # "constant" => NumChildren(en.op) \in {1, 2}
  BY EncodedOp, Zenon DEF Fed
<1>2. ASSUME NEW n \in {1, 2}, NumChildren(en.op) \in {1, 2}, n <= NumChildren(en.op)
      PROVE  margs[n] = args[n]
  <2>1. n \in DOMAIN en.kids
    BY <1>2, KidsOf DEF NodeOn
  <2>2. n \in DOMAIN kids /\ en.kids[n] = kids[n]
    BY <2>1, Zenon DEF NodeOn
  <2>3. n \in DOMAIN i.args /\ kids[n] = symbols[i.args[n]]
    BY <2>2, Zenon DEF OperandIds
  <2>4. args[n] = val[en.kids[n]]
    BY <2>1, Zenon DEF Of
  <2>5. margs[n] = val[symbols[i.args[n]]]
    BY <2>3, Zenon DEF OperandValues
  <2> QED
    BY <2>2, <2>3, <2>4, <2>5, Zenon
<1>3. i.op # "constant" => margs[1] = args[1]
  BY <1>1, <1>2
<1>4. i.op \in BinaryOps \cup {"dot", "concatenate"} => margs[2] = args[2]
  BY <1>1, <1>2
<1> QED
  BY <1>3, <1>4, Zenon DEF Agree

BeginsNeutral(i, regions, margs) ==
  margs[2].elems[1] = <<"constant", Neutral[LastOperator(regions[i.text])]>>

\* The initial value of a reduction that is lean.
LEMMA InitIsNeutral ==
  ASSUME NEW mod, WellFormed(mod), AsKept(mod), NEW k \in DOMAIN mod.code, NEW i, i = mod.code[k],
         Promised(mod, k, i), k \in Nat, k <= Len(mod.code),
         i.op = "reduce", i.text \in DOMAIN mod.regions,
         NEW symbols, NEW val, MeansUpTo(mod, val, symbols, k),
         NEW margs, margs = OperandValues(i, symbols, val)
  PROVE  BeginsNeutral(i, mod.regions, margs)
<1>1. 2 \in DOMAIN i.args
  <2>1. PICK args : args = i.args
    OBVIOUS
  <2>2. Operands(i.op) = {2}
    BY DEF Operands, BinaryOps
  <2>3. args \in Seq(STRING) /\ Len(args) = 2
    BY <2>1, <2>2, Zenon DEF Promised
  <2> QED
    BY <2>1, <2>3
<1>2. PICK sym : sym = i.args[2]
  OBVIOUS
<1>3. PICK j \in 1 .. k - 1 : mod.code[j].sym = sym
  BY <1>1, <1>2, Zenon DEF Promised
<1>4. DOMAIN mod.code = 1 .. Len(mod.code) /\ Len(mod.code) \in Nat
  BY Zenon DEF WellFormed
<1>5. j \in DOMAIN mod.code
  <2>1. PICK n : n = Len(mod.code)
    OBVIOUS
  <2>2. j \in 1 .. n
    BY <1>4, <2>1
  <2> QED
    BY <1>4, <2>1, <2>2
<1>6. PICK d : d = mod.code[j]
  OBVIOUS
<1>7. Definer(mod, sym) = d
  BY <1>3, <1>5, <1>6, DefinerIs, Zenon
<1>8. d.op = "constant" /\ d.text = Neutral[LastOperator(mod.regions[i.text])]
  BY <1>2, <1>7, Zenon DEF AsKept
<1>9. Means(mod, val, symbols, j)
  BY Zenon DEF MeansUpTo
<1>10. val[symbols[sym]] = Scalar(<<"constant", d.text>>, d.dtype)
  <2>1. val[symbols[sym]] = Meaning(d, mod.regions, OperandValues(d, symbols, val))
    BY <1>3, <1>6, <1>9, Zenon DEF Means
  <2> QED
    BY <1>8, <2>1, MeaningElements, Zenon
<1>11. margs[2] = val[symbols[sym]]
  BY <1>1, <1>2, Zenon DEF OperandValues
<1>12. PICK e : e = <<"constant", d.text>>
  BY Zenon
<1>13. margs[2] = Scalar(e, d.dtype)
  BY <1>10, <1>11, <1>12, Zenon
<1>14. margs[2].elems[1] = e
  BY <1>13 DEF Scalar
<1> QED
  BY <1>8, <1>12, <1>14, Zenon DEF BeginsNeutral

LEMMA IsLean ==
  ASSUME NEW mod, WellFormed(mod), AsKept(mod), NEW k \in DOMAIN mod.code, NEW i, i = mod.code[k],
         Promised(mod, k, i), k \in Nat, k <= Len(mod.code),
         NEW x, NEW y, Inferred(i, x, y), i.op = "reduce" => i.text \in DOMAIN mod.regions,
         NEW symbols, NEW val, MeansUpTo(mod, val, symbols, k),
         NEW margs, margs = OperandValues(i, symbols, val)
  PROVE  Lean(i, mod.regions, margs)
<1>1. ASSUME i.op = "concatenate" PROVE Len(margs) = 2
  <2>1. PICK args : args = i.args
    OBVIOUS
  <2>2. Len(args) = 2
    BY <1>1, <2>1, Zenon DEF Inferred
  <2>3. args \in Seq(STRING)
    BY <2>1, Zenon DEF Promised
  <2>4. DOMAIN args = 1 .. 2
    BY <2>2, <2>3
  <2>5. margs = [a \in 1 .. 2 |-> margs[a]]
    BY <2>1, <2>4, Zenon DEF OperandValues
  <2> QED
    BY <2>5, FunctionLen
<1>2. i.op = "dot" => i.attr = <<1, 0>>
  BY Zenon DEF AsKept
<1>3. i.op = "reduce" => BeginsNeutral(i, mod.regions, margs)
  BY InitIsNeutral
<1> QED
  BY <1>1, <1>2, <1>3, Zenon DEF Lean, BeginsNeutral

MeansIt(mod, i, symbols, val, v) ==
  /\ v = Meaning(i, mod.regions, OperandValues(i, symbols, val))
  /\ i.op # "parameter" => IsOf(v, TypeOf(i))

\* The instruction's tensor is what HLO means by the instruction.
LEMMA InstructionMeans ==
  ASSUME NEW g, NEW kind, Sound(g, kind), NEW mod, WellFormed(mod), Typed(mod), AsKept(mod),
         NEW k \in DOMAIN mod.code, k \in Nat, k <= Len(mod.code),
         NEW i, i = mod.code[k], NEW is_root, NEW slots, Accepted(mod, i, is_root, slots),
         NEW symbols, SymbolsKnown(g, kind, mod, symbols, k),
         NEW val, NEW home, SeenUpTo(mod, val, home, symbols, k), MeansUpTo(mod, val, symbols, k),
         NEW v, v = InstructionValue(mod, i, symbols, val)
  PROVE  MeansIt(mod, i, symbols, val, v)
<1>1. i.op \in Supported /\ (i.op = "reduce" => i.text \in DOMAIN mod.regions)
  BY Zenon DEF Accepted
<1>2. Promised(mod, k, i)
  <2>1. InstructionOK(mod, k)
    BY <1>1, Zenon DEF WellFormed
  <2> QED
    BY <2>1, InstructionFacts, Zenon
<1>3. PICK x, y : x = OperandType(mod, i, 1) /\ y = OperandType(mod, i, 2)
  OBVIOUS
<1>4. IsTyped(mod, i)
  <2>1. Laid(i)
    BY <1>2, Zenon DEF Promised
  <2> QED
    BY <1>1, <2>1, InstructionIsTyped, Zenon
<1>5. PICK margs : margs = OperandValues(i, symbols, val)
  OBVIOUS
<1>6. CASE i.op = "parameter"
  <2>1. v = ParameterValue(i)
    BY <1>6, Zenon DEF InstructionValue
  <2>2. Meaning(i, mod.regions, margs) = ParameterMeaning(i)
    BY <1>6, MeaningElements, Zenon
  <2>3. ParameterMeaning(i) = ParameterValue(i)
    BY <1>4, ParameterMeans, Zenon DEF IsTyped
  <2> QED
    BY <1>5, <1>6, <2>1, <2>2, <2>3, Zenon DEF MeansIt
<1>7. CASE i.op # "parameter"
  <2>1. PICK kids, regions : kids = OperandIds(i, symbols) /\ regions = mod.regions
    OBVIOUS
  <2>2. Fed(i, regions, kids)
    <3>1. Fed(i, mod.regions, OperandIds(i, symbols))
      BY <1>7, InstructionIsFed, Zenon
    <3> QED
      BY <2>1, <3>1
  <2>3. Supplied(ConstantTypes(mod), i, val, home, kids, x, y)
    <3>1. Supplied(ConstantTypes(mod), i, val, home, kids, OperandType(mod, i, 1), OperandType(mod, i, 2))
      BY <1>1, <2>1, InstructionIsSupplied
    <3> QED
      BY <1>3, <3>1
  <2>4. PICK en, ct : en = Operation(i, regions, kids) /\ ct = ConstantTypes(mod)
    OBVIOUS
  <2>5. NodeOn(en, kids) /\ Encodes(i, regions, en) /\ Ready(i, regions, Of(val, en), x, y)
    <3>1. Supplied(ct, i, val, home, kids, x, y)
      BY <2>3, <2>4
    <3> QED
      BY <1>1, <1>7, <2>2, <2>4, <3>1, SuppliedIsReady
  <2>6. PICK args : args = Of(val, en)
    OBVIOUS
  <2>7. Agree(i, args, margs)
    BY <1>1, <1>5, <1>7, <2>1, <2>2, <2>5, <2>6, OperandsAgree
  <2>8. Lean(i, regions, margs)
    <3>1. Inferred(i, x, y)
      BY <1>3, <1>4, Zenon DEF IsTyped
    <3>2. Lean(i, mod.regions, margs)
      BY <1>1, <1>2, <1>5, <3>1, IsLean, Zenon
    <3> QED
      BY <2>1, <3>2
  <2>9. ComputesFor(i, regions, en, args, v)
    <3>1. v = OperationValue(i, regions, kids, val)
      BY <1>7, <2>1, Zenon DEF InstructionValue
    <3>2. v = Computes(en, args, TypeOf(i))
      BY <2>4, <2>6, <3>1, Zenon DEF OperationValue
    <3> QED
      BY <2>5, <3>2, Zenon DEF ComputesFor
  <2>10. Meaning(i, regions, margs) = v
    BY <1>1, <1>7, <2>5, <2>6, <2>7, <2>8, <2>9, OperationMeans
  <2>11. IsOf(v, TypeOf(i))
    <3>1. i.op = "concatenate" => i.attr # <<>>
      BY <1>2, Zenon DEF Promised, IsShape
    <3> QED
      BY <1>1, <1>7, <2>5, <2>6, <2>9, <3>1, OperationIsTyped
  <2> QED
    BY <1>5, <2>1, <2>10, <2>11, Zenon DEF MeansIt
<1> QED
  BY <1>6, <1>7

-----------------------------------------------------------------------------
(* What HLO means of all the instructions.                                 *)

ArgumentsOf(code, k, f) == [a \in DOMAIN code[k].args |-> f[Defining(code, code[k].args[a])]]

IsMeanings(code, regions, f) ==
  f = [k \in 1 .. Len(code) |-> Meaning(code[k], regions, ArgumentsOf(code, k, f))]

LEMMA MeaningsAreChosen ==
  ASSUME NEW code, NEW regions, NEW f, IsMeanings(code, regions, f),
         NEW m, m = Meanings(code, regions)
  PROVE  IsMeanings(code, regions, m)
<1>1. m = CHOOSE h : IsMeanings(code, regions, h)
  BY Zenon DEF Meanings, IsMeanings, ArgumentsOf
<1> QED
  BY <1>1, Zenon

\* The operands of an instruction are defined before it.
LEMMA ArgumentsAreBefore ==
  ASSUME NEW mod, WellFormed(mod), NEW k \in DOMAIN mod.code, mod.code[k].op \in Supported,
         NEW a \in DOMAIN mod.code[k].args
  PROVE  /\ Defining(mod.code, mod.code[k].args[a]) \in 1 .. k - 1
         /\ mod.code[Defining(mod.code, mod.code[k].args[a])].sym = mod.code[k].args[a]
<1>1. PICK i, sym : i = mod.code[k] /\ sym = mod.code[k].args[a]
  OBVIOUS
<1>2. InstructionOK(mod, k)
  BY Zenon DEF WellFormed
<1>3. Promised(mod, k, i)
  BY <1>1, <1>2, InstructionFacts, Zenon
<1>4. PICK j \in 1 .. k - 1 : mod.code[j].sym = sym
  BY <1>1, <1>3, Zenon DEF Promised
<1>5. DOMAIN mod.code = 1 .. Len(mod.code) /\ Len(mod.code) \in Nat
  BY Zenon DEF WellFormed
<1>6. j \in DOMAIN mod.code
  <2>1. PICK n : n = Len(mod.code)
    BY Zenon
  <2>2. j \in 1 .. n
    BY <1>5, <2>1
  <2> QED
    BY <1>5, <2>1, <2>2
<1>7. Defining(mod.code, sym) = j
  BY <1>4, <1>6, DefiningIs
<1> QED
  BY <1>1, <1>4, <1>7

\* There is one meaning.
LEMMA MeaningsAreOne ==
  ASSUME NEW mod, WellFormed(mod), \A k \in DOMAIN mod.code : mod.code[k].op \in Supported,
         NEW f, IsMeanings(mod.code, mod.regions, f), NEW h, IsMeanings(mod.code, mod.regions, h)
  PROVE  f = h
<1>1. PICK code, n : code = mod.code /\ n = Len(mod.code)
  BY Zenon
<1>2. DOMAIN code = 1 .. n /\ n \in Nat
  BY <1>1, Zenon DEF WellFormed
<1>3. /\ f = [k \in 1 .. n |-> Meaning(code[k], mod.regions, ArgumentsOf(code, k, f))]
      /\ h = [k \in 1 .. n |-> Meaning(code[k], mod.regions, ArgumentsOf(code, k, h))]
  BY <1>1, Zenon DEF IsMeanings
<1> DEFINE Bad == {k \in 1 .. n : f[k] # h[k]}
<1>4. ASSUME Bad # {} PROVE FALSE
  <2>1. Bad \in SUBSET Nat
    BY <1>2
  <2> HIDE DEF Bad
  <2>2. PICK k \in Bad : \A j \in Bad : k <= j
    BY <1>4, <2>1, LeastElement
  <2>3. k \in 1 .. n /\ f[k] # h[k]
    BY Zenon DEF Bad
  <2>4. ASSUME NEW a \in DOMAIN code[k].args
        PROVE  f[Defining(code, code[k].args[a])] = h[Defining(code, code[k].args[a])]
    <3>1. PICK j : j = Defining(code, code[k].args[a])
      OBVIOUS
    <3>2. j \in 1 .. k - 1
      BY <1>1, <1>2, <2>3, <3>1, ArgumentsAreBefore
    <3>3. j \in 1 .. n /\ ~(k <= j)
      BY <1>2, <2>3, <3>2
    <3>4. j \notin Bad
      BY <2>2, <3>3, Zenon
    <3> QED
      BY <3>1, <3>3, <3>4, Zenon DEF Bad
  <2>5. ArgumentsOf(code, k, f) = ArgumentsOf(code, k, h)
    BY <2>4, Zenon DEF ArgumentsOf
  <2>6. /\ f[k] = Meaning(code[k], mod.regions, ArgumentsOf(code, k, f))
        /\ h[k] = Meaning(code[k], mod.regions, ArgumentsOf(code, k, h))
    BY <1>3, <2>3, Zenon
  <2> QED
    BY <2>3, <2>5, <2>6, Zenon
<1>5. \A k \in 1 .. n : f[k] = h[k]
  BY <1>4, Zenon
<1>6. f = [k \in 1 .. n |-> f[k]] /\ h = [k \in 1 .. n |-> h[k]]
  BY <1>3, Zenon
<1>7. [k \in 1 .. n |-> f[k]] = [k \in 1 .. n |-> h[k]]
  BY <1>5, Zenon
<1> QED
  BY <1>6, <1>7

MeantLast(mod, n, i, symbols, val) ==
  Meanings(mod.code, mod.regions)[n] = Meaning(i, mod.regions, OperandValues(i, symbols, val))

\* The tensors of the classes are the module's meaning.
LEMMA ValuesAreMeanings ==
  ASSUME NEW mod, WellFormed(mod), NEW n, n = Len(mod.code), n \in DOMAIN mod.code,
         NEW i, i = mod.code[n], i.op \in Supported,
         NEW symbols, NEW val, MeansUpTo(mod, val, symbols, n)
  PROVE  MeantLast(mod, n, i, symbols, val)
<1>1. PICK code, regions : code = mod.code /\ regions = mod.regions
  OBVIOUS
<1>2. DOMAIN code = 1 .. n /\ n \in Nat
  BY <1>1, Zenon DEF WellFormed
<1>3. \A j \in 1 .. n - 1 : Means(mod, val, symbols, j)
  BY Zenon DEF MeansUpTo
<1>4. \A k \in DOMAIN code : code[k].op \in Supported
  <2>1. ASSUME NEW k \in DOMAIN code PROVE code[k].op \in Supported
    <3>1. k \in 1 .. n - 1 \/ k = n
      BY <1>2
    <3>2. k \in 1 .. n - 1 => code[k].op \in Supported
      BY <1>1, <1>3, Zenon DEF Means
    <3> QED
      BY <1>1, <3>1, <3>2
  <2> QED
    BY <2>1
<1> DEFINE f == [k \in 1 .. n |-> Meaning(code[k], regions, OperandValues(code[k], symbols, val))]
<1>5. ASSUME NEW k \in 1 .. n PROVE f[k] = Meaning(code[k], regions, OperandValues(code[k], symbols, val))
  BY Zenon
<1>6. f = [k \in 1 .. n |-> f[k]]
  OBVIOUS
<1> HIDE DEF f
<1>7. ASSUME NEW k \in 1 .. n PROVE ArgumentsOf(code, k, f) = OperandValues(code[k], symbols, val)
  <2>1. ASSUME NEW a \in DOMAIN code[k].args
        PROVE  f[Defining(code, code[k].args[a])] = val[symbols[code[k].args[a]]]
    <3>1. PICK j : j = Defining(code, code[k].args[a])
      OBVIOUS
    <3>2. j \in 1 .. k - 1 /\ code[j].sym = code[k].args[a]
      BY <1>1, <1>2, <1>4, <3>1, ArgumentsAreBefore
    <3>3. j \in 1 .. n /\ j \in 1 .. n - 1
      BY <1>2, <3>2
    <3>4. f[j] = Meaning(code[j], regions, OperandValues(code[j], symbols, val))
      BY <1>5, <3>3
    <3>5. val[symbols[code[j].sym]] = Meaning(code[j], regions, OperandValues(code[j], symbols, val))
      BY <1>1, <1>3, <3>3, Zenon DEF Means
    <3> QED
      BY <3>1, <3>2, <3>4, <3>5, Zenon
  <2> QED
    BY <2>1, Zenon DEF ArgumentsOf, OperandValues
<1>8. IsMeanings(code, regions, f)
  <2>1. \A k \in 1 .. n : f[k] = Meaning(code[k], regions, ArgumentsOf(code, k, f))
    BY <1>5, <1>7
  <2>2. f = [k \in 1 .. n |-> Meaning(code[k], regions, ArgumentsOf(code, k, f))]
    BY <1>6, <2>1, Zenon
  <2>3. n = Len(code)
    BY <1>1
  <2> QED
    BY <2>2, <2>3, Zenon DEF IsMeanings
<1>9. PICK m : m = Meanings(code, regions)
  OBVIOUS
<1>10. IsMeanings(code, regions, m)
  BY <1>8, <1>9, MeaningsAreChosen
<1>11. m = f
  BY <1>1, <1>4, <1>8, <1>10, MeaningsAreOne, Zenon
<1>12. n \in 1 .. n
  BY <1>1, <1>2
<1> QED
  BY <1>1, <1>5, <1>9, <1>11, <1>12 DEF MeantLast

-----------------------------------------------------------------------------
(* The root computes the module.                                           *)

\* While the initializer is at work the symbols' classes hold what HLO means
\* by them; from then on the root's holds the bytes of the result.
MInv ==
  /\ phase = "build" => root = 0 /\ MeansUpTo(module, value, table, pc)
  /\ root # 0 => value[root] = expected

LEMMA InitMeans == Init => MInv
<1> SUFFICES ASSUME Init PROVE MInv
  OBVIOUS
<1>1. pc = 1 /\ root = 0
  BY Zenon DEF Init
<1>2. 1 .. pc - 1 = {}
  BY <1>1
<1> QED
  BY <1>1, <1>2, Zenon DEF MInv, MeansUpTo

SameUpTo(mod, symbols2, val2, symbols, val, k) ==
  \A j \in 1 .. k - 1 : val2[symbols2[mod.code[j].sym]] = val[symbols[mod.code[j].sym]]

\* What the symbols' classes held they hold.
LEMMA MeansStays ==
  ASSUME NEW mod, WellFormed(mod), NEW k \in DOMAIN mod.code, NEW i, i = mod.code[k],
         NEW val, NEW symbols, MeansUpTo(mod, val, symbols, k),
         NEW val2, NEW symbols2,
         SameUpTo(mod, symbols2, val2, symbols, val, k)
  PROVE  MeansUpTo(mod, val2, symbols2, k)
<1> SUFFICES ASSUME NEW j \in 1 .. k - 1 PROVE Means(mod, val2, symbols2, j)
  BY Zenon DEF MeansUpTo
<1>1. PICK d : d = mod.code[j]
  OBVIOUS
<1>2. d.op \in Supported
      /\ val[symbols[d.sym]] = Meaning(d, mod.regions, OperandValues(d, symbols, val))
  BY <1>1, Zenon DEF MeansUpTo, Means
<1>3. DOMAIN mod.code = 1 .. Len(mod.code) /\ Len(mod.code) \in Nat
  BY Zenon DEF WellFormed
<1>4. j \in DOMAIN mod.code /\ k \in Nat
  <2>1. PICK n : n = Len(mod.code)
    BY Zenon
  <2>2. j \in 1 .. n /\ k \in Nat
    BY <1>3, <2>1
  <2> QED
    BY <1>3, <2>1, <2>2
<1>5. ASSUME NEW a \in DOMAIN d.args
      PROVE  val2[symbols2[d.args[a]]] = val[symbols[d.args[a]]]
  <2>1. PICK c : c = Defining(mod.code, d.args[a])
    OBVIOUS
  <2>2. c \in 1 .. j - 1 /\ mod.code[c].sym = d.args[a]
    BY <1>1, <1>2, <1>4, <2>1, ArgumentsAreBefore
  <2>3. c \in 1 .. k - 1
    BY <1>4, <2>2
  <2> QED
    BY <2>2, <2>3, Zenon DEF SameUpTo
<1>6. OperandValues(d, symbols2, val2) = OperandValues(d, symbols, val)
  BY <1>5, Zenon DEF OperandValues
<1>7. val2[symbols2[d.sym]] = val[symbols[d.sym]]
  BY <1>1, Zenon DEF SameUpTo
<1> QED
  BY <1>1, <1>2, <1>6, <1>7, Zenon DEF Means

SameOperandValues(i, symbols2, val2, symbols, val) ==
  OperandValues(i, symbols2, val2) = OperandValues(i, symbols, val)

\* An operation's operands are symbols of instructions before.
LEMMA SameOperands ==
  ASSUME NEW mod, WellFormed(mod), NEW k \in DOMAIN mod.code, NEW i, i = mod.code[k],
         i.op \in Supported, NEW val, NEW symbols, NEW val2, NEW symbols2,
         SameUpTo(mod, symbols2, val2, symbols, val, k)
  PROVE  SameOperandValues(i, symbols2, val2, symbols, val)
<1>1. ASSUME NEW a \in DOMAIN i.args
      PROVE  val2[symbols2[i.args[a]]] = val[symbols[i.args[a]]]
  <2>1. PICK c : c = Defining(mod.code, i.args[a])
    OBVIOUS
  <2>2. c \in 1 .. k - 1 /\ mod.code[c].sym = i.args[a]
    BY <2>1, ArgumentsAreBefore
  <2> QED
    BY <2>2, Zenon DEF SameUpTo
<1> QED
  BY <1>1, Zenon DEF OperandValues, SameOperandValues

LEMMA AddInstructionMeans ==
  ASSUME NEW kind, IsInv(kind), NEW home, HasValues(home), MInv, Typed(module), AsKept(module),
         AddInstruction
  PROVE  MInv'
<1>1. PICK i, is_root : i = Instruction /\ is_root = IsRoot
  OBVIOUS
<1>2. phase = "build" /\ Accepted(module, i, is_root, offsets)
  BY <1>1, Zenon DEF AddInstruction
<1>3. /\ \E id : table' = Inserted(table, i.sym, id)
      /\ ~IsRoot => root' = root
  BY <1>1, Zenon DEF AddInstruction
<1>4. /\ pc' = pc + 1 /\ module' = module
      /\ phase' = IF IsRoot THEN "hook" ELSE "build"
      /\ expected' = IF IsRoot THEN ModuleMeaning(module) ELSE expected
  BY Zenon DEF AddInstruction, run
<1>5. Control /\ Sound(eg, kind) /\ SymbolsOK(kind)
  BY Zenon DEF IsInv
<1>6. WellFormed(module) /\ Len(module.code) \in Nat \ {0} /\ DOMAIN module.code = 1 .. Len(module.code)
  BY <1>5, ModuleFacts, Zenon DEF Control
<1>7. pc \in DOMAIN module.code /\ pc \in Nat /\ pc <= Len(module.code) /\ i = module.code[pc]
  <2>1. pc \in 1 .. Len(module.code) + 1 /\ pc <= Len(module.code)
    BY <1>2, <1>5, Zenon DEF Control
  <2> QED
    BY <1>1, <1>6, <2>1 DEF Instruction
<1>8. SymbolsKnown(eg, kind, module, table, pc) /\ \A j \in 1 .. pc - 1 : module.code[j].sym \in DOMAIN table
  BY <1>5, Zenon DEF SymbolsOK, SymbolsKnown
<1>9. SeenUpTo(module, value, home, table, pc)
  BY <1>2, Zenon DEF HasValues
<1>10. root = 0 /\ MeansUpTo(module, value, table, pc)
  BY <1>2, Zenon DEF MInv
<1>11. PICK w, v : /\ w = InstructionValue(module, i, table, value)
                   /\ v = ExprValue(module, i, is_root, table, value)
  OBVIOUS
<1>12. i.op \in Supported /\ (is_root => i.op # "parameter")
  BY <1>2, Zenon DEF Accepted
<1>13. v = Rooted(i, is_root, w)
  BY <1>11, <1>12, ExprIsRooted, Zenon
<1>14. /\ w = Meaning(i, module.regions, OperandValues(i, table, value))
       /\ i.op # "parameter" => IsOf(w, TypeOf(i))
  <2>1. MeansIt(module, i, table, value, w)
    BY <1>2, <1>5, <1>6, <1>7, <1>8, <1>9, <1>10, <1>11, InstructionMeans, Zenon
  <2> QED
    BY <2>1, Zenon DEF MeansIt
<1>15. PICK home2 : Adding(home2, v)
  BY <1>1, <1>11, AddInstructionGives
<1>16. /\ Extends(value', value, Len(eg.uf)) /\ value'[table'[i.sym]] = v
       /\ is_root => root' = table'[i.sym]
  BY <1>1, <1>15, Zenon DEF Adding
<1>17. ASSUME NEW j \in 1 .. pc - 1
       PROVE  value'[table'[module.code[j].sym]] = value[table[module.code[j].sym]]
  <2>1. PICK sym : sym = module.code[j].sym
    OBVIOUS
  <2>2. sym \in DOMAIN table /\ table[sym] \in Ids(eg) /\ sym # i.sym
    BY <1>6, <1>7, <1>8, <2>1, Zenon DEF WellFormed, SymbolsKnown
  <2>3. table'[sym] = table[sym]
    <3>1. PICK id : table' = Inserted(table, i.sym, id)
      BY <1>3, Zenon
    <3>2. IsInserted(table', table, i.sym, id)
      BY <3>1, InsertedFacts, Zenon
    <3> QED
      BY <2>2, <3>2, Zenon DEF IsInserted
  <2>4. Ids(eg) = 1 .. Len(eg.uf)
    BY <1>5, SoundIds
  <2> QED
    BY <1>16, <2>1, <2>2, <2>3, <2>4, Zenon DEF Extends
<1>18. CASE ~is_root
  <2>1. phase' = "build" /\ root' = 0
    BY <1>1, <1>3, <1>4, <1>10, <1>18
  <2>2. PICK val2, symbols2 : val2 = value' /\ symbols2 = table'
    OBVIOUS
  <2>3. SameUpTo(module, symbols2, val2, table, value, pc)
    BY <1>17, <2>2, Zenon DEF SameUpTo
  <2>4. MeansUpTo(module, val2, symbols2, pc)
    BY <1>6, <1>7, <1>10, <2>3, MeansStays, Zenon
  <2>5. Means(module, val2, symbols2, pc)
    <3>1. SameOperandValues(i, symbols2, val2, table, value)
      BY <1>6, <1>7, <1>12, <2>3, SameOperands, Zenon
    <3>2. v = w
      BY <1>13, <1>18 DEF Rooted
    <3>3. val2[symbols2[i.sym]] = Meaning(i, module.regions, OperandValues(i, symbols2, val2))
      BY <1>14, <1>16, <2>2, <3>1, <3>2, Zenon DEF SameOperandValues
    <3> QED
      BY <1>7, <1>12, <3>3, Zenon DEF Means
  <2>6. MeansUpTo(module, val2, symbols2, pc + 1)
    <3>1. \A j \in 1 .. (pc + 1) - 1 : j \in 1 .. pc - 1 \/ j = pc
      BY <1>7
    <3> QED
      BY <2>4, <2>5, <3>1, Zenon DEF MeansUpTo
  <2> QED
    BY <1>4, <2>1, <2>2, <2>6, Zenon DEF MInv
<1>19. CASE is_root
  <2>1. phase' = "hook" /\ expected' = ModuleMeaning(module) /\ root' = table'[i.sym]
    BY <1>1, <1>4, <1>16, <1>19
  <2>2. pc = Len(module.code)
    BY <1>1, <1>19, Zenon DEF IsRoot
  <2>3. PICK n : n = Len(module.code)
    BY Zenon
  <2>4. Meanings(module.code, module.regions)[n] = w
    <3>1. n \in DOMAIN module.code /\ i = module.code[n] /\ MeansUpTo(module, value, table, n)
      BY <1>7, <1>10, <2>2, <2>3
    <3>2. MeantLast(module, n, i, table, value)
      BY <1>6, <1>12, <2>3, <3>1, ValuesAreMeanings, Zenon
    <3> QED
      BY <1>14, <3>2 DEF MeantLast
  <2>5. ModuleMeaning(module) = ResultBytes(i, w)
    BY <1>7, <2>2, <2>3, <2>4, ModuleMeansBytes, Zenon
  <2>6. Untiled(i) /\ IsOf(w, TypeOf(i))
    <3>1. Promised(module, pc, i)
      <4>1. InstructionOK(module, pc)
        BY <1>6, <1>7, <1>12, Zenon DEF WellFormed
      <4> QED
        BY <1>7, <4>1, InstructionFacts, Zenon
    <3>2. Laid(i)
      BY <3>1, Zenon DEF Promised
    <3>3. IsTyped(module, i)
      BY <1>7, <1>12, <3>2, InstructionIsTyped, Zenon
    <3>4. IsOf(w, TypeOf(i))
      BY <1>12, <1>14, <1>19, Zenon
    <3> QED
      BY <3>3, <3>4, Zenon DEF IsTyped
  <2>7. v = RootValue(i, w)
    BY <1>13, <1>19 DEF Rooted
  <2>8. v = ResultBytes(i, w)
    BY <2>6, <2>7, RootMeans
  <2>9. value'[root'] = expected'
    BY <1>16, <2>1, <2>5, <2>8, Zenon
  <2> QED
    BY <2>1, <2>9, Zenon DEF MInv
<1> QED
  BY <1>18, <1>19

\* The root stays, and so does what its class holds.
LEMMA CarriedMeans ==
  ASSUME NEW kind, IsInv(kind), NEW ct, Carried(ct), MInv, root' = root, expected' = expected,
         phase' # "build"
  PROVE  MInv'
<1>1. ASSUME root # 0 PROVE value'[root] = expected
  <2>1. root \in Ids(eg)
    BY <1>1, Zenon DEF IsInv, SymbolsOK
  <2>2. Ids(eg) = 1 .. Len(eg.uf)
    BY SoundIds DEF IsInv
  <2>3. value'[root] = value[root]
    BY <2>1, <2>2, Zenon DEF Carried, Extends
  <2> QED
    BY <1>1, <2>3, Zenon DEF MInv
<1> QED
  BY <1>1, Zenon DEF MInv

LEMMA StepMeans ==
  ASSUME NEW kind, IsInv(kind), VInv, MInv, Typed(module), AsKept(module), [Next]_vars, NoMistake
  PROVE  MInv'
<1>1. PICK home : HasValues(home)
  BY Zenon DEF VInv
<1>2. PICK ct : ct = ConstantTypes(module)
  OBVIOUS
<1>3. Carries(ct, eg, value)
  BY <1>1, <1>2, Zenon DEF HasValues, Carries
<1>4. CASE AddInstruction
  BY <1>1, <1>4, AddInstructionMeans
<1>5. CASE Panic
  <2>1. root' = root /\ expected' = expected /\ phase' # "build"
    BY <1>5 DEF Panic, built, ghost
  <2> QED
    BY <1>3, <1>5, <2>1, RestCarries, CarriedMeans
<1>6. CASE Iterate
  <2>1. root' = root /\ expected' = expected /\ phase' # "build"
    BY <1>6 DEF Iterate, built, ghost
  <2> QED
    BY <1>3, <1>6, <2>1, RestCarries, CarriedMeans
<1>7. CASE Apply
  <2>1. root' = root /\ expected' = expected /\ phase' # "build"
    BY <1>7 DEF Apply, built
  <2> QED
    BY <1>2, <1>3, <1>7, <2>1, ApplyCarries, CarriedMeans
<1>8. CASE Rebuild
  <2>1. root' = root /\ expected' = expected /\ phase' # "build"
    BY <1>8 DEF Rebuild, built, ghost
  <2> QED
    BY <1>3, <1>8, <2>1, RebuildCarries, CarriedMeans
<1>9. CASE EndIteration
  <2>1. root' = root /\ expected' = expected /\ phase' # "build"
    BY <1>9 DEF EndIteration, built, ghost
  <2> QED
    BY <1>3, <1>9, <2>1, RestCarries, CarriedMeans
<1>10. CASE Stop
  <2>1. root' = root /\ expected' = expected /\ phase' # "build"
    BY <1>10 DEF Stop, built, ghost
  <2> QED
    BY <1>3, <1>10, <2>1, RestCarries, CarriedMeans
<1>11. CASE Interrupt
  <2>1. root' = root /\ expected' = expected /\ phase' # "build"
    BY <1>11 DEF Interrupt, built, ghost
  <2> QED
    BY <1>3, <1>11, <2>1, RestCarries, CarriedMeans
<1>12. CASE UNCHANGED vars
  <2>1. /\ root' = root /\ expected' = expected /\ module' = module /\ value' = value
        /\ phase' = phase /\ table' = table /\ pc' = pc
    BY <1>12, Zenon DEF vars, built, ghost
  <2> QED
    BY <2>1, Zenon DEF MInv
<1> QED
  BY <1>4, <1>5, <1>6, <1>7, <1>8, <1>9, <1>10, <1>11, <1>12, Zenon DEF Next, Step, Finished

LEMMA RootHoldsResult ==
  ASSUME NEW kind, IsInv(kind), VInv, MInv
  PROVE  RootComputesModule
<1> SUFFICES ASSUME root # 0 PROVE ValueOf(root) = expected
  BY DEF RootComputesModule
<1>1. PICK home : HasValues(home)
  BY Zenon DEF VInv
<1>2. root \in Ids(eg)
  BY Zenon DEF IsInv, SymbolsOK
<1>3. value[root] = value[Find(eg, root)]
  BY <1>1, <1>2, Zenon DEF HasValues, Lawful, ClassValue
<1> QED
  BY <1>3, Zenon DEF MInv, ValueOf

LEMMA MeansAlways ==
  Spec /\ []NoMistake => [](Typed(module) /\ AsKept(module) => MInv)
<1>1. Init => (Typed(module) /\ AsKept(module) => MInv)
  BY InitMeans
<1>2. IInv /\ NoMistake /\ (Typed(module) => VInv) /\ (Typed(module) /\ AsKept(module) => MInv)
        /\ [Next]_vars
      => (Typed(module) /\ AsKept(module) => MInv)'
  <2> SUFFICES ASSUME IInv, NoMistake, Typed(module) => VInv, Typed(module) /\ AsKept(module) => MInv,
                      [Next]_vars, (Typed(module) /\ AsKept(module))'
               PROVE  MInv'
    OBVIOUS
  <2>1. PICK kind : IsInv(kind)
    BY Zenon DEF IInv
  <2>2. module' = module
    BY ModuleStays
  <2>3. Typed(module) /\ AsKept(module)
    BY <2>2, Zenon
  <2> QED
    BY <2>1, <2>3, StepMeans
<1> QED
  BY <1>1, <1>2, InvAlways, ValuesAlways, PTL DEF Spec

\* From the instruction that is the root on, and through all that the rules do
\* afterwards, the root's class computes the bytes of the module's result.
THEOREM RootAlwaysComputesModule ==
  Spec /\ []NoMistake => [](Typed(module) /\ AsKept(module) => RootComputesModule)
<1>1. IInv /\ VInv /\ MInv => RootComputesModule
  BY RootHoldsResult DEF IInv
<1> QED
  BY <1>1, InvAlways, ValuesAlways, MeansAlways, PTL

-----------------------------------------------------------------------------
(* What the rules add, and what is left when an iteration merges nothing.  *)

\* The numbers that are no class any more.
Dead(g) == {id \in Ids(g) : Find(g, id) # id}

\* h has merged classes that g had not.
Rises(g, h) == Dead(g) \subseteq Dead(h) /\ Dead(g) # Dead(h)

\* h is g with more classes, and e-nodes in these only.
AddedTo(g, h) ==
  /\ Len(g.uf) <= Len(h.uf)
  /\ \A id \in Ids(g) : Find(h, id) = Find(g, id)
  /\ \A id \in Ids(h) : id \notin Ids(g) => Find(h, id) = id
  /\ \A n \in h.nodes : n \in g.nodes \/ n.cls \notin Ids(g)

LEMMA AddedIds ==
  ASSUME NEW g, NEW kind, Sound(g, kind), NEW h, NEW more, Sound(h, more), AddedTo(g, h)
  PROVE  Ids(g) \subseteq Ids(h)
<1>1. Ids(g) = 1 .. Len(g.uf) /\ Ids(h) = 1 .. Len(h.uf) /\ Len(g.uf) \in Nat /\ Len(h.uf) \in Nat
  BY SoundIds
<1> QED
  BY <1>1 DEF AddedTo

LEMMA AddedIsAsDead ==
  ASSUME NEW g, NEW kind, Sound(g, kind), NEW h, NEW more, Sound(h, more), AddedTo(g, h)
  PROVE  Dead(h) = Dead(g)
<1>1. Ids(g) \subseteq Ids(h)
  BY AddedIds
<1>2. ASSUME NEW id \in Ids(h), Find(h, id) # id PROVE id \in Ids(g) /\ Find(g, id) # id
  BY <1>2 DEF AddedTo
<1>3. ASSUME NEW id \in Ids(g), Find(g, id) # id PROVE id \in Ids(h) /\ Find(h, id) # id
  BY <1>1, <1>3 DEF AddedTo
<1> QED
  BY <1>2, <1>3 DEF Dead

\* add: the class is new, or it has the e-node and nothing has changed.
Enlarged(f, en, a) ==
  /\ AddedTo(f, a.eg)
  /\ a.id \in Ids(f) => a.eg = f /\ \E n \in f.nodes : n.en = Canonical(f, en) /\ n.cls = a.id

LEMMA AddIsAdded ==
  ASSUME NEW f, NEW kind, Sound(f, kind), NEW en, NEW a, a = Add(f, en)
  PROVE  Enlarged(f, en, a)
<1>1. PICK c : c = Canonical(f, en)
  OBVIOUS
<1>2. Ids(f) = 1 .. Len(f.uf) /\ Len(f.uf) \in Nat
  BY SoundIds
<1>3. CASE \E n \in f.nodes : n.en = c /\ a.eg = f /\ a.id = n.cls
  <2>1. AddedTo(f, f)
    BY <1>2 DEF AddedTo
  <2> QED
    BY <1>1, <1>3, <2>1 DEF Enlarged
<1>4. CASE a.eg = NewClass(f, c) /\ a.id = Len(f.uf) + 1
  <2>1. PICK h : h = a.eg
    OBVIOUS
  <2>2. PICK id0 : id0 = Len(f.uf) + 1
    OBVIOUS
  <2>3. PICK new : new = [cls |-> id0, en |-> c]
    OBVIOUS
  <2>4. IsNewClass(f, h, Len(f.uf), id0, new)
    BY <1>4, <2>1, <2>2, <2>3, NewClassFacts, Zenon
  <2>5. id0 \notin Ids(f) /\ Len(f.uf) <= id0 /\ new.cls = id0
    BY <1>2, <2>2, <2>3
  <2>6. /\ h.nodes = f.nodes \cup {new} /\ Len(h.uf) = id0 /\ Find(h, id0) = id0
        /\ \A id \in 1 .. Len(f.uf) : Find(h, id) = Find(f, id)
        /\ \A id \in Ids(h) : id = id0 \/ id \in 1 .. Len(f.uf)
    BY <2>4 DEF IsNewClass
  <2>7. AddedTo(f, h)
    BY <1>2, <2>5, <2>6 DEF AddedTo
  <2> QED
    BY <1>4, <2>1, <2>2, <2>5, <2>7 DEF Enlarged
<1> QED
  BY <1>1, <1>3, <1>4, AddCases

LEMMA AddedToTransitive ==
  ASSUME NEW g, NEW k1, Sound(g, k1), NEW h, NEW k2, Sound(h, k2), NEW f, NEW k3, Sound(f, k3),
         AddedTo(g, h), AddedTo(h, f)
  PROVE  AddedTo(g, f)
<1>1. Ids(g) \subseteq Ids(h) /\ Ids(h) \subseteq Ids(f)
  BY AddedIds
<1>2. Len(g.uf) \in Nat /\ Len(h.uf) \in Nat /\ Len(f.uf) \in Nat
  BY SoundIds
<1>3. Len(g.uf) <= Len(f.uf)
  BY <1>2 DEF AddedTo
<1>4. \A id \in Ids(g) : Find(f, id) = Find(g, id)
  BY <1>1 DEF AddedTo
<1>5. ASSUME NEW id \in Ids(f), id \notin Ids(g) PROVE Find(f, id) = id
  BY <1>5 DEF AddedTo
<1>6. ASSUME NEW n \in f.nodes PROVE n \in g.nodes \/ n.cls \notin Ids(g)
  BY <1>1 DEF AddedTo
<1> QED
  BY <1>3, <1>4, <1>5, <1>6 DEF AddedTo

IsOldAt(g, s, i) == s.ids[i] \in Ids(g)

\* What stands in a class of g has its operands there, and what adds no class
\* has changed nothing.
Traced(g, pat, s, n) ==
  /\ s.ids \in Seq(Nat) /\ Len(s.ids) = n
  /\ AddedTo(g, s.eg)
  /\ \A i \in 1 .. n : pat[i].var # "" => IsOldAt(g, s, i)
  /\ \A i \in 1 .. n : pat[i].var = "" /\ IsOldAt(g, s, i) =>
       \A k \in DOMAIN pat[i].kids : IsOldAt(g, s, pat[i].kids[k])
  /\ (\A i \in 1 .. n : IsOldAt(g, s, i)) => s.eg = g

LEMMA Positions ==
  ASSUME NEW i \in Nat \ {0}
  PROVE  /\ \A k \in 1 .. i : k = i \/ k \in 1 .. i - 1
         /\ \A k \in 1 .. i - 1 : k \in 1 .. i
         /\ i \in 1 .. i
         /\ \A j \in 1 .. i : \A x \in 1 .. j - 1 : x \in 1 .. i - 1
OBVIOUS

\* One position more.
Prolongs(s, prev, i) ==
  /\ s.ids \in Seq(Nat) /\ Len(s.ids) = i
  /\ \A k \in 1 .. i - 1 : s.ids[k] = prev.ids[k]

LEMMA PositionIsTraced ==
  ASSUME NEW g, NEW kind, Sound(g, kind), NEW pat, NEW metadata, NEW i \in Nat \ {0},
         \A j \in 1 .. i : PositionOK(pat, metadata, j),
         NEW prev, Traced(g, pat, prev, i - 1), NEW s, Prolongs(s, prev, i), AddedTo(g, s.eg),
         pat[i].var # "" => IsOldAt(g, s, i),
         pat[i].var = "" /\ IsOldAt(g, s, i) =>
           \A k \in DOMAIN pat[i].kids : IsOldAt(g, prev, pat[i].kids[k]),
         IsOldAt(g, s, i) => s.eg = prev.eg
  PROVE  Traced(g, pat, s, i)
<1>1. /\ \A k \in 1 .. i : k = i \/ k \in 1 .. i - 1
      /\ \A k \in 1 .. i - 1 : k \in 1 .. i
      /\ i \in 1 .. i
  BY Positions, Zenon
<1>2. \A k \in 1 .. i - 1 : IsOldAt(g, s, k) <=> IsOldAt(g, prev, k)
  BY DEF IsOldAt, Prolongs
<1>3. \A j \in 1 .. i : pat[j].var # "" => IsOldAt(g, s, j)
  BY <1>1, <1>2, Zenon DEF Traced
<1>4. ASSUME NEW j \in 1 .. i, pat[j].var = "", NEW k \in DOMAIN pat[j].kids
      PROVE  pat[j].kids[k] \in 1 .. j - 1 /\ pat[j].kids[k] \in 1 .. i - 1
  <2>1. pat[j].kids[k] \in 1 .. j - 1
    BY <1>4, Zenon DEF PositionOK
  <2>2. PICK x : x = pat[j].kids[k]
    OBVIOUS
  <2>3. x \in 1 .. j - 1
    BY <2>1, <2>2
  <2>4. x \in 1 .. i - 1
    BY <2>3, Positions, Zenon
  <2> QED
    BY <2>2, <2>3, <2>4
<1>5. ASSUME NEW j \in 1 .. i, pat[j].var = "", IsOldAt(g, s, j), NEW k \in DOMAIN pat[j].kids
      PROVE  IsOldAt(g, s, pat[j].kids[k])
  <2>1. pat[j].kids[k] \in 1 .. i - 1
    BY <1>4, <1>5, Zenon
  <2>2. IsOldAt(g, prev, pat[j].kids[k])
    <3>1. CASE j = i
      BY <1>5, <3>1, Zenon
    <3>2. CASE j \in 1 .. i - 1
      BY <1>2, <1>5, <3>2, Zenon DEF Traced
    <3> QED
      BY <1>1, <3>1, <3>2, Zenon
  <2> QED
    BY <1>2, <2>1, <2>2, Zenon
<1>6. ASSUME \A j \in 1 .. i : IsOldAt(g, s, j) PROVE s.eg = g
  <2>1. s.eg = prev.eg
    BY <1>1, <1>6, Zenon
  <2>2. \A j \in 1 .. i - 1 : IsOldAt(g, prev, j)
    BY <1>1, <1>2, <1>6, Zenon
  <2> QED
    BY <2>1, <2>2, Zenon DEF Traced
<1>7. s.ids \in Seq(Nat) /\ Len(s.ids) = i
  BY DEF Prolongs
<1> QED
  BY <1>3, <1>5, <1>6, <1>7, Zenon DEF Traced

\* A position that is an old class.
LEMMA PatStepIsTraced ==
  ASSUME NEW g, NEW kind, Sound(g, kind), NEW b \in {"raw", "typed"},
         NEW pat, NEW metadata, NEW subst, NEW i \in Nat \ {0},
         \A j \in 1 .. i : PositionOK(pat, metadata, j),
         StaysOf(g, kind, b, pat, subst, i),
         NEW prev, Applied(g, kind, b, prev, i - 1), Traced(g, pat, prev, i - 1)
  PROVE  Traced(g, pat, PatStep(pat, metadata, subst, i, prev), i)
<1>1. PICK s : s = PatStep(pat, metadata, subst, i, prev)
  OBVIOUS
<1>2. i \in 1 .. i /\ PositionOK(pat, metadata, i)
  OBVIOUS
<1>3. Applied(g, kind, b, s, i)
  BY <1>1, <1>2, PatStepIsApplied, Zenon
<1>4. /\ prev.ids \in Seq(Nat) /\ Len(prev.ids) = i - 1
      /\ s.ids \in Seq(Nat) /\ Len(s.ids) = i
  BY <1>3, Zenon DEF Applied
<1>5. PICK more : Sound(prev.eg, more) /\ \A k \in 1 .. i - 1 : prev.ids[k] \in Ids(prev.eg)
  BY Zenon DEF Applied
<1>6. PICK most : Sound(s.eg, most) /\ \A k \in 1 .. i : s.ids[k] \in Ids(s.eg)
  BY <1>3, Zenon DEF Applied
<1>7. AddedTo(g, prev.eg)
  BY DEF Traced
<1>8. CASE pat[i].var # ""
  <2>1. PICK id : id = subst[pat[i].var]
    OBVIOUS
  <2>2. s.eg = prev.eg /\ s.ids = Append(prev.ids, id)
    BY <1>1, <1>8, <2>1, Zenon DEF PatStep
  <2>3. id \in Ids(g)
    BY <1>8, <2>1, Zenon DEF StaysOf
  <2>4. Ids(g) = 1 .. Len(g.uf)
    BY SoundIds
  <2>5. s.ids[i] = id /\ \A k \in 1 .. i - 1 : s.ids[k] = prev.ids[k]
    BY <1>4, <2>2, <2>3, <2>4, AppendFacts
  <2>6. Prolongs(s, prev, i) /\ IsOldAt(g, s, i)
    BY <1>4, <2>3, <2>5, Zenon DEF Prolongs, IsOldAt
  <2> QED
    BY <1>1, <1>7, <1>8, <2>2, <2>6, PositionIsTraced, Zenon
<1>9. CASE pat[i].var = ""
  <2>1. PICK kids : kids = [k \in DOMAIN pat[i].kids |-> prev.ids[pat[i].kids[k]]]
    BY Zenon
  <2>2. PICK en : en = ENode(pat[i].op, metadata[i].text, metadata[i].data, kids)
    OBVIOUS
  <2>3. PICK a : a = Add(prev.eg, en)
    OBVIOUS
  <2>4. s.eg = a.eg /\ s.ids = Append(prev.ids, a.id)
    BY <1>1, <1>9, <2>1, <2>2, <2>3, Zenon DEF PatStep
  <2>5. /\ AddedTo(prev.eg, a.eg)
        /\ a.id \in Ids(prev.eg) =>
             a.eg = prev.eg /\ \E n \in prev.eg.nodes : n.en = Canonical(prev.eg, en) /\ n.cls = a.id
    <3>1. Enlarged(prev.eg, en, a)
      BY <1>5, <2>3, AddIsAdded, Zenon
    <3> QED
      BY <3>1 DEF Enlarged
  <2>6. AddedTo(g, s.eg)
    BY <1>5, <1>6, <1>7, <2>4, <2>5, AddedToTransitive, Zenon
  <2>7. s.ids[i] = a.id /\ \A k \in 1 .. i - 1 : s.ids[k] = prev.ids[k]
    BY <1>4, <2>4
  <2>8. Prolongs(s, prev, i)
    BY <1>4, <2>7, Zenon DEF Prolongs
  <2>9. ASSUME IsOldAt(g, s, i)
        PROVE  s.eg = prev.eg /\ \A k \in DOMAIN pat[i].kids : IsOldAt(g, prev, pat[i].kids[k])
    <3>1. a.id \in Ids(g)
      BY <2>7, <2>9, Zenon DEF IsOldAt
    <3>2. a.id \in Ids(prev.eg)
      BY <1>5, <1>7, <3>1, AddedIds, Zenon
    <3>3. PICK n \in prev.eg.nodes : n.en = Canonical(prev.eg, en) /\ n.cls = a.id
      BY <2>5, <3>2, Zenon
    <3>4. n \in g.nodes
      BY <1>7, <3>1, <3>3, Zenon DEF AddedTo
    <3>5. \A k \in DOMAIN n.en.kids : n.en.kids[k] \in Ids(g)
      BY <3>4, SoundIds DEF Classes
    <3>6. en.kids = kids /\ DOMAIN kids = DOMAIN pat[i].kids
      BY <2>1, <2>2, ENodeIs
    <3>7. n.en.kids = [k \in DOMAIN kids |-> Find(prev.eg, kids[k])]
      <4>1. Canonical(prev.eg, en).kids = [k \in DOMAIN kids |-> Find(prev.eg, kids[k])]
        BY <2>2 DEF Canonical, ENode
      <4> QED
        BY <3>3, <4>1
    <3>8. ASSUME NEW k \in DOMAIN pat[i].kids PROVE prev.ids[pat[i].kids[k]] \in Ids(g)
      <4>1. PICK x : x = prev.ids[pat[i].kids[k]]
        OBVIOUS
      <4>2. kids[k] = x /\ k \in DOMAIN kids
        BY <2>1, <3>6, <4>1
      <4>3. Find(prev.eg, x) \in Ids(g)
        BY <3>5, <3>7, <4>2
      <4>4. x \in Ids(prev.eg)
        <5>1. pat[i].kids[k] \in 1 .. i - 1
          BY <1>2, <1>9, <3>8, Zenon DEF PositionOK
        <5> QED
          BY <1>5, <4>1, <5>1, Zenon
      <4>5. x \in Ids(g)
        BY <1>7, <4>3, <4>4, Zenon DEF AddedTo
      <4> QED
        BY <4>1, <4>5
    <3> QED
      BY <2>4, <2>5, <3>2, <3>8, Zenon DEF IsOldAt
  <2> QED
    BY <1>1, <1>9, <2>6, <2>8, <2>9, PositionIsTraced, Zenon
<1> QED
  BY <1>8, <1>9, Zenon

LEMMA ApplyPatIsTraced ==
  ASSUME NEW g, NEW kind, Sound(g, kind), NEW b \in {"raw", "typed"},
         NEW pat, NEW metadata, NEW subst, Len(pat) \in Nat,
         \A i \in 1 .. Len(pat) :
           PositionOK(pat, metadata, i) /\ StaysOf(g, kind, b, pat, subst, i),
         NEW made, made = ApplyPat(g, pat, metadata, subst)
  PROVE  Applied(g, kind, b, made, Len(pat)) /\ Traced(g, pat, made, Len(pat))
<1> DEFINE top == Len(pat)
           a == [eg |-> g, ids |-> <<>>]
           S == [eg : EGraphs, ids : Seq(Nat)]
           X == {w \in (0 .. top) \X S : Applied(g, kind, b, w[2], w[1]) /\ Traced(g, pat, w[2], w[1])}
<1>2. \A k \in 0 .. top : \A x :
        Applied(g, kind, b, x, k) /\ Traced(g, pat, x, k) /\ x \in S <=> << k, x >> \in X
  OBVIOUS
<1>3. << 0, a >> \in X
  <2>1. a.eg = g /\ a.ids = <<>> /\ 1 .. 0 = {} /\ 0 \in 0 .. top
    OBVIOUS
  <2>2. a \in S
    BY DEF Sound, IsEGraph
  <2>3. Applied(g, kind, b, a, 0)
    <3> HIDE DEF a
    <3> QED
      BY <2>1, GrowsReflexive DEF Applied
  <2>4. Traced(g, pat, a, 0)
    <3> HIDE DEF a
    <3>1. AddedTo(g, g)
      <4>1. Len(g.uf) \in Nat
        BY SoundIds
      <4> QED
        BY <4>1 DEF AddedTo
    <3>2. a.ids \in Seq(Nat) /\ Len(a.ids) = 0
      BY <2>1
    <3> QED
      BY <2>1, <3>1, <3>2 DEF Traced
  <2> HIDE DEF X, S
  <2> QED
    BY <1>2, <2>1, <2>2, <2>3, <2>4
<1>4. ASSUME NEW k \in 1 .. top, NEW x, << k - 1, x >> \in X
      PROVE  << k, PatStep(pat, metadata, subst, k, x) >> \in X
  <2>1. k - 1 \in 0 .. top /\ k \in 0 .. top /\ k \in Nat \ {0}
    OBVIOUS
  <2>2. Applied(g, kind, b, x, k - 1) /\ Traced(g, pat, x, k - 1)
    BY <1>2, <1>4, <2>1
  <2> HIDE DEF X
  <2>3. PICK s : s = PatStep(pat, metadata, subst, k, x)
    OBVIOUS
  <2>4. \A j \in 1 .. k : PositionOK(pat, metadata, j)
    <3>1. \A j \in 1 .. k : j \in 1 .. top
      OBVIOUS
    <3> QED
      BY <3>1
  <2>5. PositionOK(pat, metadata, k) /\ StaysOf(g, kind, b, pat, subst, k)
    OBVIOUS
  <2>6. Applied(g, kind, b, s, k)
    BY <2>1, <2>2, <2>3, <2>5, PatStepIsApplied, Zenon
  <2>7. Traced(g, pat, s, k)
    BY <2>1, <2>2, <2>3, <2>4, <2>5, PatStepIsTraced, Zenon
  <2>8. s \in S
    <3>1. s = [eg |-> s.eg, ids |-> s.ids]
      BY <2>3, Zenon DEF PatStep
    <3>2. s.ids \in Seq(Nat)
      BY <2>6 DEF Applied
    <3>3. s.eg \in EGraphs
      BY <2>6 DEF Applied, Sound, IsEGraph
    <3> QED
      BY <3>1, <3>2, <3>3
  <2> QED
    BY <1>2, <2>1, <2>3, <2>6, <2>7, <2>8
<1> HIDE DEF X
<1>5. << top, ApplyPat(g, pat, metadata, subst) >> \in X
  BY <1>3, <1>4, ApplyPatStays
<1>6. top \in 0 .. top
  OBVIOUS
<1> QED
  BY <1>2, <1>5, <1>6

Uses(pat, j, i) == pat[j].var = "" /\ \E k \in DOMAIN pat[j].kids : pat[j].kids[k] = i

\* Whatever stands before the last position is an operand of a later one.
UsesAll(pat, n) == \A i \in 1 .. n - 1 : \E j \in i + 1 .. n : Uses(pat, j, i)

LEMMA OperationUses ==
  ASSUME NEW pat, NEW j
  PROVE  /\ \A op, i : pat[j] = N(op, << i >>) => Uses(pat, j, i)
         /\ \A op, i, k : pat[j] = N(op, << i, k >>) => Uses(pat, j, i) /\ Uses(pat, j, k)
<1>1. ASSUME NEW op, NEW i, pat[j] = N(op, << i >>) PROVE Uses(pat, j, i)
  <2>1. PICK s : s = << i >>
    OBVIOUS
  <2>2. pat[j].var = "" /\ pat[j].kids = s
    <3>1. PICK p : p = pat[j]
      OBVIOUS
    <3>2. p = N(op, s)
      BY <1>1, <2>1, <3>1
    <3>3. p.var = "" /\ p.kids = s
      BY <3>2, NParts, Zenon
    <3> QED
      BY <3>1, <3>3
  <2>3. 1 \in DOMAIN s /\ s[1] = i
    BY <2>1
  <2> QED
    BY <2>2, <2>3, Zenon DEF Uses
<1>2. ASSUME NEW op, NEW i, NEW k, pat[j] = N(op, << i, k >>) PROVE Uses(pat, j, i) /\ Uses(pat, j, k)
  <2>1. PICK s : s = << i, k >>
    OBVIOUS
  <2>2. pat[j].var = "" /\ pat[j].kids = s
    <3>1. PICK p : p = pat[j]
      OBVIOUS
    <3>2. p = N(op, s)
      BY <1>2, <2>1, <3>1
    <3>3. p.var = "" /\ p.kids = s
      BY <3>2, NParts, Zenon
    <3> QED
      BY <3>1, <3>3
  <2>3. 1 \in DOMAIN s /\ s[1] = i /\ 2 \in DOMAIN s /\ s[2] = k
    BY <2>1
  <2> QED
    BY <2>2, <2>3, Zenon DEF Uses
<1> QED
  BY <1>1, <1>2

\* All rules but rule 0, which the theorems below have no use for.
LEMMA RhsUsesAll ==
  ASSUME NEW rule \in Rules, rule # 0, NEW pat, pat = Rhs(rule), NEW n, n = Len(pat)
  PROVE  UsesAll(pat, n)
<1>1. ASSUME rule \in {6, 8, 9, 10} PROVE UsesAll(pat, n)
  <2>1. pat = <<V("x")>>
    BY <1>1 DEF Rhs
  <2>2. n = 1 /\ 1 .. n - 1 = {}
    BY <2>1
  <2> QED
    BY <2>2 DEF UsesAll
<1>2. ASSUME rule = 7 PROVE UsesAll(pat, n)
  <2>1. pat = << V("x"), N("copy", << 1 >>) >>
    BY <1>2 DEF Rhs
  <2>2. pat[2] = N("copy", << 1 >>) /\ n = 2
    BY <2>1
  <2>3. Uses(pat, 2, 1)
    BY <2>2, OperationUses, Zenon
  <2>4. \A i \in 1 .. n - 1 : i = 1 /\ 2 \in i + 1 .. n
    BY <2>2
  <2> QED
    BY <2>3, <2>4, Zenon DEF UsesAll
<1>3. ASSUME Uses(pat, 2, 1) \/ Uses(pat, 3, 1), Uses(pat, 3, 2), n = 3 PROVE UsesAll(pat, n)
  <2>1. /\ \A i \in 1 .. n - 1 : (i = 1 \/ i = 2) /\ 3 \in i + 1 .. n
        /\ 2 \in 1 + 1 .. n
    BY <1>3
  <2> QED
    BY <1>3, <2>1, Zenon DEF UsesAll
<1>4. ASSUME rule = 1 PROVE UsesAll(pat, n)
  <2>1. pat = << V("x"), N("slice", << 1 >>), N("convert", << 2 >>) >>
    BY <1>4 DEF Rhs
  <2>2. pat[2] = N("slice", << 1 >>) /\ pat[3] = N("convert", << 2 >>) /\ n = 3
    BY <2>1
  <2>3. Uses(pat, 2, 1) /\ Uses(pat, 3, 2)
    BY <2>2, OperationUses, Zenon
  <2> QED
    BY <1>3, <2>2, <2>3
<1>5. ASSUME rule = 2 PROVE UsesAll(pat, n)
  <2>1. pat = << V("x"), N("eye", <<>>), N("dot", << 1, 2 >>) >>
    BY <1>5 DEF Rhs
  <2>2. pat[3] = N("dot", << 1, 2 >>) /\ n = 3
    BY <2>1
  <2>3. Uses(pat, 3, 1) /\ Uses(pat, 3, 2)
    BY <2>2, OperationUses, Zenon
  <2> QED
    BY <1>3, <2>2, <2>3
<1>6. ASSUME rule = 3 PROVE UsesAll(pat, n)
  <2>1. pat = << V("x"), N("reshape", << 1 >>), N("reshape", << 2 >>) >>
    BY <1>6 DEF Rhs
  <2>2. pat[2] = N("reshape", << 1 >>) /\ pat[3] = N("reshape", << 2 >>) /\ n = 3
    BY <2>1
  <2>3. Uses(pat, 2, 1) /\ Uses(pat, 3, 2)
    BY <2>2, OperationUses, Zenon
  <2> QED
    BY <1>3, <2>2, <2>3
<1>7. ASSUME rule = 4 PROVE UsesAll(pat, n)
  <2>1. pat = << V("x"), N("bitcvt", << 1 >>), N("bitcvt", << 2 >>) >>
    BY <1>7 DEF Rhs
  <2>2. pat[2] = N("bitcvt", << 1 >>) /\ pat[3] = N("bitcvt", << 2 >>) /\ n = 3
    BY <2>1
  <2>3. Uses(pat, 2, 1) /\ Uses(pat, 3, 2)
    BY <2>2, OperationUses, Zenon
  <2> QED
    BY <1>3, <2>2, <2>3
<1>8. ASSUME rule = 5 PROVE UsesAll(pat, n)
  <2>1. pat = << V("x"), N("convert", << 1 >>), V("y"), N("convert", << 3 >>),
                 N("add", << 2, 4 >>), N("convert", << 5 >>) >>
    BY <1>8 DEF Rhs
  <2>2. /\ pat[2] = N("convert", << 1 >>) /\ pat[4] = N("convert", << 3 >>)
        /\ pat[5] = N("add", << 2, 4 >>) /\ pat[6] = N("convert", << 5 >>) /\ n = 6
    BY <2>1
  <2>3. Uses(pat, 2, 1) /\ Uses(pat, 4, 3) /\ Uses(pat, 5, 2) /\ Uses(pat, 5, 4) /\ Uses(pat, 6, 5)
    BY <2>2, OperationUses, Zenon
  <2>4. \A i \in 1 .. n - 1 : i = 1 \/ i = 2 \/ i = 3 \/ i = 4 \/ i = 5
    BY <2>2
  <2>5. /\ 2 \in 1 + 1 .. n /\ 5 \in 2 + 1 .. n /\ 4 \in 3 + 1 .. n /\ 5 \in 4 + 1 .. n
        /\ 6 \in 5 + 1 .. n
    BY <2>2
  <2> QED
    BY <2>3, <2>4, <2>5, Zenon DEF UsesAll
<1> QED
  BY <1>1, <1>2, <1>4, <1>5, <1>6, <1>7, <1>8 DEF Rules

\* If the last class was there, all were.
LEMMA LastIsOld ==
  ASSUME NEW g, NEW pat, NEW n \in Nat \ {0}, UsesAll(pat, n), NEW s, Traced(g, pat, s, n),
         IsOldAt(g, s, n)
  PROVE  s.eg = g
<1> DEFINE S == {i \in 1 .. n : ~IsOldAt(g, s, i)}
<1>1. CASE S = {}
  <2>1. \A i \in 1 .. n : IsOldAt(g, s, i)
    BY <1>1
  <2> QED
    BY <2>1 DEF Traced
<1>2. CASE S # {}
  <2>1. S \in SUBSET (0 .. n)
    OBVIOUS
  <2>2. PICK i : i \in S /\ \A j \in S : j <= i
    <3> HIDE DEF S
    <3> QED
      BY <1>2, <2>1, MaxIsElement
  <2>3. i \in 1 .. n - 1 /\ ~IsOldAt(g, s, i)
    BY <2>2
  <2>4. PICK j \in i + 1 .. n : Uses(pat, j, i)
    BY <2>3 DEF UsesAll
  <2>5. j \in 1 .. n /\ ~(j <= i)
    BY <2>3
  <2>6. IsOldAt(g, s, j)
    BY <2>2, <2>5
  <2>7. PICK k \in DOMAIN pat[j].kids : pat[j].var = "" /\ pat[j].kids[k] = i
    BY <2>4, Zenon DEF Uses
  <2>8. IsOldAt(g, s, pat[j].kids[k])
    BY <2>5, <2>6, <2>7, Zenon DEF Traced
  <2> QED
    BY <2>3, <2>7, <2>8
<1> QED
  BY <1>1, <1>2

LEMMA JoinedIsDead ==
  ASSUME NEW g, NEW h, NEW kept, NEW gone, IsJoined(g, h, kept, gone)
  PROVE  Rises(g, h)
<1>1. /\ kept \in Ids(g) /\ Find(g, kept) = kept /\ gone \in Ids(g) /\ Find(g, gone) = gone
      /\ kept # gone /\ Ids(h) = Ids(g)
      /\ \A id \in Ids(g) : Find(h, id) = Now(kept, gone, Find(g, id))
  BY DEF IsJoined, Classes, Find
<1>2. ASSUME NEW id \in Dead(g) PROVE id \in Dead(h)
  <2>1. id \in Ids(g) /\ Find(g, id) # id
    BY DEF Dead
  <2>2. Find(h, id) # id
    BY <1>1, <2>1 DEF Now
  <2> QED
    BY <1>1, <2>1, <2>2 DEF Dead
<1>3. gone \in Dead(h) /\ gone \notin Dead(g)
  BY <1>1 DEF Dead, Now
<1> QED
  BY <1>2, <1>3 DEF Rises

LEMMA UnionRises ==
  ASSUME NEW g, NEW kind, Sound(g, kind), NEW a \in Ids(g), NEW b \in Ids(g), NEW h, h = Union(g, a, b)
  PROVE  Rises(g, h) \/ (h = g /\ Find(g, a) = Find(g, b))
BY UnionJoins, JoinedIsDead

LEMMA SameDead ==
  ASSUME NEW g, NEW h, h.uf = g.uf
  PROVE  Dead(h) = Dead(g) /\ Ids(h) = Ids(g) /\ \A id : Find(h, id) = Find(g, id)
BY DEF Dead, Ids, Find

\* At most the TensorInfo of classes is another.
Unmoved(g, h) ==
  /\ h.uf = g.uf /\ h.nodes = g.nodes
  /\ \A id \in Ids(g) : id \notin Classes(g) => h.info[id] = g.info[id]

\* What the rule makes of the match is there.
IsDone(g, rule, cls, subst, m) ==
  LET t == InfosOf(g, m.ids) IN
  Precond(rule, g, m.ids, t) =>
    LET made == ApplyPat(g, Rhs(rule), Metadata(rule, t, m.ens), subst)
    IN  made.eg = g /\ Find(g, made.ids[Len(made.ids)]) = Find(g, cls)

LEMMA ShapedIsUnmoved ==
  ASSUME NEW g, NEW kind, Sound(g, kind), NEW n, NEW ids, \A k \in 1 .. n : ids[k] \in Ids(g),
         NEW S, DOMAIN S \subseteq 1 .. n, NEW h, h = WithShapes(g, ids, S)
  PROVE  Unmoved(g, h)
<1>1. g \in EGraphs /\ Len(g.info) = Len(g.uf)
  BY DEF Sound, IsEGraph
<1>2. Ids(g) = 1 .. Len(g.uf) /\ g.info \in Seq(Infos) /\ Len(g.uf) \in Nat /\ DOMAIN g.info = Ids(g)
  BY <1>1, EGraphFacts
<1> DEFINE at(cls) == {k \in DOMAIN S : Find(g, ids[k]) = cls}
           infos == [cls \in DOMAIN g.info |-> IF at(cls) = {} THEN g.info[cls]
                                               ELSE S[Max(at(cls))]]
<1>3. h = [g EXCEPT !.info = infos]
  BY <1>1 DEF WithShapes, EGraphs
<1>4. h.uf = g.uf /\ h.nodes = g.nodes /\ h.info = infos
  BY <1>1, <1>3 DEF EGraphs
<1>5. ASSUME NEW id \in Ids(g), id \notin Classes(g) PROVE h.info[id] = g.info[id]
  <2>1. \A k \in DOMAIN S : Find(g, ids[k]) \in Classes(g)
    BY SoundIds
  <2>2. at(id) = {}
    BY <1>5, <2>1
  <2> QED
    BY <1>2, <1>4, <1>5, <2>2
<1> QED
  BY <1>4, <1>5 DEF Unmoved

\* What an application makes, from what stands at its positions.
MadeBy(g, rule, cls, subst, t, m, made, f, y) ==
  /\ made = ApplyPat(g, Rhs(rule), Metadata(rule, t, m.ens), subst)
  /\ f = WithShapes(made.eg, made.ids, SetShapes(rule, t))
  /\ y = Union(f, cls, made.ids[Len(made.ids)])

\* A class was merged, or what was made was there.
Raised(g, rule, cls, made, y) ==
  /\ Dead(g) \subseteq Dead(y)
  /\ rule # 0 => \/ Rises(g, y)
                 \/ /\ Unmoved(g, y) /\ made.eg = g
                    /\ Find(g, made.ids[Len(made.ids)]) = Find(g, cls)

LEMMA MadeRises ==
  ASSUME NEW g, NEW kind, Sound(g, kind), NEW rule, NEW n, NEW m, NEW cls, NEW subst,
         SubstOK(g, kind, rule, cls, subst), MatchOf(g, kind, rule, n, m, cls),
         NEW t, t = InfosOf(g, m.ids), Precond(rule, g, m.ids, t),
         NEW made, NEW f, NEW y, MadeBy(g, rule, cls, subst, t, m, made, f, y)
  PROVE  Raised(g, rule, cls, made, y)
<1>1. PICK pat : pat = Rhs(rule)
  OBVIOUS
<1>2. PICK M : M = Metadata(rule, t, m.ens)
  OBVIOUS
<1>3. PICK S : S = SetShapes(rule, t)
  OBVIOUS
<1>4. made = ApplyPat(g, pat, M, subst) /\ f = WithShapes(made.eg, made.ids, S)
  BY <1>1, <1>2, <1>3, Zenon DEF MadeBy
<1>5. PICK last : last = made.ids[Len(made.ids)]
  OBVIOUS
<1>6. rule \in Rules /\ cls \in Ids(g) /\ y = Union(f, cls, last)
  BY <1>5, Zenon DEF SubstOK, MadeBy
<1>7. Allowed(rule, t, m.ens)
  BY <1>6, MatchIsAllowed, Zenon
<1>8. MatchKind(kind, rule, cls)
  BY KindOfMatch, Zenon
<1>9. PICK b : b = kind[cls]
  OBVIOUS
<1>10. b \in {"raw", "typed"} /\ (b = "raw" => rule = 3) /\ kind[cls] = b
  BY <1>8, <1>9, Zenon DEF MatchKind
<1>11. PICK l : RhsFacts(rule, pat, M, l)
  BY <1>1, <1>2, <1>6, <1>7, RhsIsOK, Zenon
<1>12. l \in Nat \ {0} /\ Len(pat) = l /\ Len(pat) \in Nat
  BY <1>11 DEF RhsFacts
<1>13. \A i \in 1 .. Len(pat) : PositionOK(pat, M, i) /\ StaysOf(g, kind, b, pat, subst, i)
  <2>1. ASSUME NEW i \in 1 .. Len(pat) PROVE PositionOK(pat, M, i) /\ RightPart(rule, pat, i)
    BY <1>11, <1>12, Zenon DEF RhsFacts
  <2>2. ASSUME NEW i \in 1 .. Len(pat) PROVE StaysOf(g, kind, b, pat, subst, i)
    BY <1>10, <2>1, PartStays, Zenon
  <2> QED
    BY <2>1, <2>2, Zenon
<1>14. Applied(g, kind, b, made, l) /\ Traced(g, pat, made, l)
  <2>1. Applied(g, kind, b, made, Len(pat)) /\ Traced(g, pat, made, Len(pat))
    BY <1>4, <1>10, <1>12, <1>13, ApplyPatIsTraced, Zenon
  <2> QED
    BY <1>12, <2>1
<1>15. PICK more : /\ Sound(made.eg, more) /\ Grows(g, kind, made.eg, more)
                   /\ \A k \in 1 .. l : made.ids[k] \in Ids(made.eg) /\ more[made.ids[k]] = b
  BY <1>14, Zenon DEF Applied
<1>16. AddedTo(g, made.eg) /\ Len(made.ids) = l
  BY <1>14, Zenon DEF Traced
<1>17. Shapes(S, b) /\ DOMAIN S \subseteq 1 .. l
  BY <1>1, <1>3, <1>6, <1>7, <1>10, <1>12, SetShapesFit, Zenon
<1>18. Sound(f, more)
  <2>1. Retyped(made.eg, more, WithShapes(made.eg, made.ids, S))
    <3>1. l \in Nat
      BY <1>12
    <3> QED
      BY <1>10, <1>15, <1>17, <3>1, WithShapesRetypes, Zenon
  <2> QED
    BY <1>4, <2>1, Zenon DEF Retyped
<1>19. Unmoved(made.eg, f)
  BY <1>4, <1>15, <1>17, ShapedIsUnmoved, Zenon
<1>20. f.uf = made.eg.uf
  BY <1>19 DEF Unmoved
<1>21. Dead(f) = Dead(g) /\ Ids(f) = Ids(made.eg) /\ \A id : Find(f, id) = Find(made.eg, id)
  BY <1>15, <1>16, <1>20, SameDead, AddedIsAsDead
<1>22. cls \in Ids(f) /\ last \in Ids(f)
  <2>1. cls \in Ids(made.eg)
    BY <1>6, <1>15, <1>16, AddedIds
  <2>2. l \in 1 .. l
    BY <1>12
  <2> QED
    BY <1>5, <1>15, <1>16, <1>21, <2>1, <2>2
<1>23. CASE Rises(f, y)
  BY <1>21, <1>23 DEF Rises, Raised
<1>24. CASE y = f /\ Find(f, cls) = Find(f, last)
  <2>1. Dead(y) = Dead(g)
    BY <1>21, <1>24
  <2>2. ASSUME rule # 0 PROVE made.eg = g /\ Unmoved(g, y) /\ Find(g, last) = Find(g, cls)
    <3>1. Find(made.eg, last) = Find(g, cls) /\ Find(g, cls) \in Ids(g)
      <4>1. Find(g, cls) \in Ids(g)
        BY <1>6, SoundIds DEF Classes
      <4> QED
        BY <1>6, <1>16, <1>21, <1>24, <4>1 DEF AddedTo
    <3>2. last \in Ids(g)
      BY <1>16, <1>21, <1>22, <3>1 DEF AddedTo
    <3>3. IsOldAt(g, made, l)
      BY <1>5, <1>16, <3>2 DEF IsOldAt
    <3>4. UsesAll(pat, l)
      BY <1>1, <1>6, <1>12, <2>2, RhsUsesAll
    <3>5. made.eg = g
      BY <1>12, <1>14, <3>3, <3>4, LastIsOld
    <3> QED
      BY <1>19, <1>24, <3>1, <3>5
  <2> QED
    BY <1>5, <2>1, <2>2 DEF Raised
<1> QED
  BY <1>6, <1>18, <1>22, <1>23, <1>24, UnionRises

RaisedBy(g, rule, cls, subst, m, y) ==
  /\ Dead(g) \subseteq Dead(y)
  /\ (Precond(rule, g, m.ids, InfosOf(g, m.ids)) => rule # 0) =>
       Rises(g, y) \/ (Unmoved(g, y) /\ IsDone(g, rule, cls, subst, m))

LEMMA ApplyMatchRises ==
  ASSUME NEW g, NEW kind, Sound(g, kind), NEW rule, NEW n, NEW m, NEW cls, NEW subst,
         SubstOK(g, kind, rule, cls, subst), MatchOf(g, kind, rule, n, m, cls),
         NEW y, y = ApplyMatch(g, rule, cls, subst, m)
  PROVE  RaisedBy(g, rule, cls, subst, m, y)
<1>1. PICK t : t = InfosOf(g, m.ids)
  OBVIOUS
<1>2. CASE ~Precond(rule, g, m.ids, t)
  <2>1. y = g
    BY <1>1, <1>2, Zenon DEF ApplyMatch
  <2>2. IsDone(g, rule, cls, subst, m)
    BY <1>1, <1>2, Zenon DEF IsDone
  <2>3. Unmoved(g, y)
    BY <2>1 DEF Unmoved
  <2> QED
    BY <2>1, <2>2, <2>3 DEF RaisedBy
<1>3. CASE Precond(rule, g, m.ids, t)
  <2>1. PICK made : made = ApplyPat(g, Rhs(rule), Metadata(rule, t, m.ens), subst)
    OBVIOUS
  <2>2. PICK f : f = WithShapes(made.eg, made.ids, SetShapes(rule, t))
    OBVIOUS
  <2>3. MadeBy(g, rule, cls, subst, t, m, made, f, y)
    BY <1>1, <1>3, <2>1, <2>2, Zenon DEF MadeBy, ApplyMatch
  <2>4. /\ Dead(g) \subseteq Dead(y)
        /\ rule # 0 => \/ Rises(g, y)
                       \/ /\ Unmoved(g, y) /\ made.eg = g
                          /\ Find(g, made.ids[Len(made.ids)]) = Find(g, cls)
    <3>1. Raised(g, rule, cls, made, y)
      BY <1>1, <1>3, <2>3, MadeRises, Zenon
    <3> QED
      BY <3>1 DEF Raised
  <2>5. ASSUME made.eg = g, Find(g, made.ids[Len(made.ids)]) = Find(g, cls)
        PROVE  IsDone(g, rule, cls, subst, m)
    BY <1>1, <2>1, <2>5, Zenon DEF IsDone
  <2> QED
    BY <1>1, <1>3, <2>4, <2>5, Zenon DEF RaisedBy
<1> QED
  BY <1>2, <1>3

\* Where the TensorInfo of classes is true before and after, it is the same.
LEMMA UnmovedIsSame ==
  ASSUME NEW g, NEW kind, Sound(g, kind), NEW h, NEW more, Sound(h, more), Unmoved(g, h),
         NEW val, TrueInfos(g, val), NEW val2, TrueInfos(h, val2), Extends(val2, val, Len(g.uf))
  PROVE  h = g
<1>1. g \in EGraphs /\ h \in EGraphs /\ Len(g.info) = Len(g.uf) /\ Len(h.info) = Len(h.uf)
  BY DEF Sound, IsEGraph
<1>2. /\ g.info \in Seq(Infos) /\ h.info \in Seq(Infos) /\ Ids(g) = 1 .. Len(g.uf)
      /\ h.uf = g.uf /\ h.nodes = g.nodes
  BY <1>1, EGraphFacts DEF Unmoved
<1>3. ASSUME NEW id \in Ids(g) PROVE h.info[id] = g.info[id]
  <2>1. CASE id \notin Classes(g)
    BY <2>1 DEF Unmoved
  <2>2. CASE id \in Classes(g)
    <3>1. id \in Classes(h)
      BY <1>2, <2>2 DEF Classes, Ids
    <3>2. TrueAt(g, val, id) /\ TrueAt(h, val2, id)
      BY <2>2, <3>1 DEF TrueInfos
    <3>3. val2[id] = val[id]
      BY <1>2 DEF Extends
    <3> QED
      BY <3>2, <3>3 DEF TrueAt
  <2> QED
    BY <2>1, <2>2
<1>4. h.info = g.info
  <2>1. Len(h.info) = Len(g.info) /\ \A id \in 1 .. Len(g.info) : h.info[id] = g.info[id]
    BY <1>1, <1>2, <1>3
  <2> QED
    BY <1>2, <2>1
<1> QED
  BY <1>1, <1>2, <1>4 DEF EGraphs

LEMMA SetToSeqOnto ==
  ASSUME NEW S, IsFiniteSet(S), NEW x \in S
  PROVE  \E k \in 1 .. Len(SetToSeq(S)) : SetToSeq(S)[k] = x
<1>1. PICK n \in Nat : ExistsBijection(1 .. n, S)
  BY FS_NatBijection
<1>2. Cardinality(S) = n
  BY <1>1, FS_CountingElements
<1>3. PICK f : f \in [1 .. n -> S] /\ IsInjective(f)
  <2>1. PICK f : f \in Bijection(1 .. n, S)
    BY <1>1 DEF ExistsBijection
  <2>2. f \in [1 .. n -> S] /\ IsInjective(f)
    BY <2>1, Zenon DEF Bijection, Injection
  <2> QED
    BY <2>2
<1> DEFINE s == SetToSeq(S)
<1>4. s \in [1 .. n -> S] /\ IsInjective(s)
  BY <1>2, <1>3, Zenon DEF SetToSeq
<1> HIDE DEF s
<1>5. s \in Injection(1 .. n, S)
  BY <1>4, Zenon DEF Injection
<1>6. Cardinality(1 .. n) = n
  BY FS_Interval
<1>7. s \in Surjection(1 .. n, S)
  BY <1>2, <1>5, <1>6, FS_Injection
<1>8. \E k \in 1 .. n : s[k] = x
  BY <1>7, Zenon DEF Surjection
<1>9. s = [k \in 1 .. n |-> s[k]]
  BY <1>4
<1>10. Len(s) = n
  BY <1>9, MapIsSeq
<1> QED
  BY <1>8, <1>10 DEF s

\* One match more, applied to what the others have made of g.
RaisedFurther(g, rule, cls, subst, m, x, y) ==
  /\ Rises(g, x) => Rises(g, y)
  /\ x = g => Rises(g, y) \/ (y = g /\ IsDone(g, rule, cls, subst, m))

LEMMA MatchRises ==
  ASSUME NEW ct, NEW g, NEW kind, Sound(g, kind), NEW val, NEW home, Lawful(ct, g, val, home),
         NEW n0 \in Nat, TrueInfos(g, val),
         NEW rule, NEW n, NEW m, NEW cls, NEW subst, SubstOK(g, kind, rule, cls, subst), cls <= n0,
         KnownMatch(g, kind, val, rule, n, m, cls, subst),
         NEW x, Keeps(ct, g, kind, val, home, n0, x),
         NEW y, y = ApplyMatch(x, rule, cls, subst, m)
  PROVE  Keeps(ct, g, kind, val, home, n0, y) /\ RaisedFurther(g, rule, cls, subst, m, x, y)
<1>1. Keeps(ct, g, kind, val, home, n0, y)
  BY MatchKeeps, Zenon
<1>2. PICK more, val2, home2 : GrownLawful(ct, g, kind, val, home, n0, x, more, val2, home2)
  BY Zenon DEF Keeps
<1>3. Sound(x, more) /\ Grows(g, kind, x, more)
  BY <1>2, Zenon DEF GrownLawful
<1>4. MatchOf(g, kind, rule, n, m, cls) /\ SoberAt(g, val, rule, cls, subst, m)
  BY Zenon DEF KnownMatch
<1>5. rule \in Rules /\ cls \in Ids(g)
  BY Zenon DEF SubstOK
<1>6. SubstOK(x, more, rule, cls, subst) /\ MatchOf(x, more, rule, n, m, cls)
  BY <1>3, <1>4, <1>5, SubstStaysOK, MatchStays, Zenon
<1>7. Dead(x) \subseteq Dead(y)
  <2>1. RaisedBy(x, rule, cls, subst, m, y)
    BY <1>3, <1>6, ApplyMatchRises, Zenon
  <2> QED
    BY <2>1 DEF RaisedBy
<1>8. ASSUME Rises(g, x) PROVE Rises(g, y)
  BY <1>7, <1>8 DEF Rises
<1>9. ASSUME x = g PROVE Rises(g, y) \/ (y = g /\ IsDone(g, rule, cls, subst, m))
  <2>1. y = ApplyMatch(g, rule, cls, subst, m)
    BY <1>9, Zenon
  <2>2. Precond(rule, g, m.ids, InfosOf(g, m.ids)) => rule # 0
    BY <1>4, Zenon DEF SoberAt
  <2>3. Rises(g, y) \/ (Unmoved(g, y) /\ IsDone(g, rule, cls, subst, m))
    <3>1. RaisedBy(g, rule, cls, subst, m, y)
      BY <1>4, <2>1, ApplyMatchRises, Zenon
    <3> QED
      BY <2>2, <3>1, Zenon DEF RaisedBy
  <2>4. ASSUME Unmoved(g, y) PROVE y = g
    <3>1. PICK kinds, vals, homes :
            GrownLawful(ct, g, kind, val, home, n0, y, kinds, vals, homes) /\ TrueInfos(y, vals)
      BY <1>1, Zenon DEF Keeps
    <3>2. Sound(y, kinds) /\ Extends(vals, val, Len(g.uf))
      BY <3>1, Zenon DEF GrownLawful
    <3> QED
      BY <2>4, <3>1, <3>2, UnmovedIsSame, Zenon
  <2> QED
    BY <2>3, <2>4, Zenon
<1> QED
  BY <1>1, <1>8, <1>9 DEF RaisedFurther

\* Either a class was merged, or nothing is new and each match has its other side.
RaisedOrDone(g, rule, cls, subst, h) ==
  \/ Rises(g, h)
  \/ h = g /\ \A m \in FindMatches(g, cls, Lhs(rule)) : IsDone(g, rule, cls, subst, m)

LEMMA ApplyOneRises ==
  ASSUME NEW ct, NEW g, NEW kind, Sound(g, kind), NEW val, NEW home, Lawful(ct, g, val, home),
         NEW n0 \in Nat, Fresh(g, n0), TrueInfos(g, val),
         NEW rule, NEW cls, NEW subst, SubstOK(g, kind, rule, cls, subst), cls <= n0,
         \A m \in FindMatches(g, cls, Lhs(rule)) : SoberAt(g, val, rule, cls, subst, m),
         NEW h, h = ApplyOne(g, rule, cls, subst)
  PROVE  RaisedOrDone(g, rule, cls, subst, h)
<1> DEFINE found == FindMatches(g, cls, Lhs(rule))
           matches == SetToSeq(found)
           top == Len(matches)
           Done(k) == \A j \in 1 .. k : IsDone(g, rule, cls, subst, matches[j])
           In(k, x) == Keeps(ct, g, kind, val, home, n0, x) /\ (Rises(g, x) \/ (x = g /\ Done(k)))
           X == {w \in (0 .. top) \X EGraphs : In(w[1], w[2])}
<1>1. PICK n : IsFiniteSet(found) /\ \A m \in found : KnownMatch(g, kind, val, rule, n, m, cls, subst)
  BY FoundIsKnown, Zenon
<1>2. top \in Nat /\ \A k \in 1 .. top : KnownMatch(g, kind, val, rule, n, matches[k], cls, subst)
  BY <1>1, SetToSeqFacts
<1>3. \A m \in found : \E k \in 1 .. top : matches[k] = m
  BY <1>1, SetToSeqOnto
<1> HIDE DEF In
<1>4. \A k \in 0 .. top : \A x : << k, x >> \in X <=> In(k, x)
  <2>1. ASSUME NEW k, NEW x, In(k, x) PROVE x \in EGraphs
    BY <2>1, Zenon DEF In, Keeps, GrownLawful, Sound, IsEGraph
  <2> QED
    BY <2>1
<1>5. << 0, g >> \in X
  <2>1. 0 \in 0 .. top /\ 1 .. 0 = {}
    BY <1>2
  <2>2. Keeps(ct, g, kind, val, home, n0, g)
    BY KeepsItself, Zenon
  <2>3. In(0, g)
    BY <2>1, <2>2 DEF In
  <2> QED
    BY <1>4, <2>1, <2>3
<1>6. ASSUME NEW k \in 1 .. top, NEW x, << k - 1, x >> \in X
      PROVE  << k, ApplyMatch(x, rule, cls, subst, matches[k]) >> \in X
  <2>1. k - 1 \in 0 .. top /\ k \in 0 .. top /\ \A j \in 1 .. k : j \in 1 .. k - 1 \/ j = k
    BY <1>2
  <2>2. In(k - 1, x)
    BY <1>4, <1>6, <2>1, Zenon
  <2> HIDE DEF X
  <2>3. PICK m : m = matches[k]
    OBVIOUS
  <2>4. PICK y : y = ApplyMatch(x, rule, cls, subst, m)
    OBVIOUS
  <2>5. KnownMatch(g, kind, val, rule, n, m, cls, subst)
    BY <1>2, <2>3, Zenon
  <2>6. Keeps(ct, g, kind, val, home, n0, x) /\ (Rises(g, x) \/ (x = g /\ Done(k - 1)))
    BY <2>2, Zenon DEF In
  <2>7. Keeps(ct, g, kind, val, home, n0, y) /\ RaisedFurther(g, rule, cls, subst, m, x, y)
    BY <2>4, <2>5, <2>6, MatchRises, Zenon
  <2>8. IsDone(g, rule, cls, subst, m) /\ Done(k - 1) => Done(k)
    BY <2>1, <2>3, Zenon
  <2>9. In(k, y)
    <3> HIDE DEF Done
    <3> QED
      BY <2>6, <2>7, <2>8, Zenon DEF In, RaisedFurther
  <2> QED
    BY <1>4, <2>1, <2>3, <2>4, <2>9, Zenon
<1> HIDE DEF X
<1>7. << top, ApplyOne(g, rule, cls, subst) >> \in X
  <2>1. PICK ms : ms = matches
    OBVIOUS
  <2> QED
    BY <1>2, <1>5, <1>6, ApplyOneStays
<1>8. In(top, h)
  <2>1. top \in 0 .. top
    BY <1>2
  <2> QED
    BY <1>4, <1>7, <2>1, Zenon
<1>9. ASSUME Done(top), NEW m \in found PROVE IsDone(g, rule, cls, subst, m)
  BY <1>3, <1>9, Zenon
<1> QED
  BY <1>8, <1>9, Zenon DEF In, RaisedOrDone

\* The numbers of the classes and the others are all there are.
LEMMA RisesIsUnion ==
  ASSUME NEW g, NEW kind, Sound(g, kind), NEW h, NEW more, Sound(h, more), Rises(g, h)
  PROVE  Unions(h) > Unions(g)
<1>1. ASSUME NEW f, NEW k, Sound(f, k)
      PROVE  IsFiniteSet(Dead(f)) /\ Cardinality(Dead(f)) \in Nat /\ Unions(f) = Cardinality(Dead(f))
  <2>1. Ids(f) = 1 .. Len(f.uf) /\ Len(f.uf) \in Nat
    BY <1>1, SoundIds
  <2>2. IsFiniteSet(Ids(f))
    BY <2>1, FS_Interval
  <2>3. Classes(f) = Ids(f) \ Dead(f) /\ Dead(f) \subseteq Ids(f)
    BY DEF Classes, Dead, Find
  <2>4. IsFiniteSet(Dead(f)) /\ Cardinality(Dead(f)) \in Nat /\ Cardinality(Ids(f)) \in Nat
    BY <2>2, <2>3, FS_Subset, FS_CardinalityType
  <2>5. Cardinality(Classes(f)) = Cardinality(Ids(f)) - Cardinality(Dead(f))
    <3>1. Ids(f) \cap Dead(f) = Dead(f)
      BY <2>3
    <3> QED
      BY <2>2, <2>3, <3>1, FS_Difference
  <2> QED
    BY <2>4, <2>5 DEF Unions
<1>2. /\ IsFiniteSet(Dead(h)) /\ Cardinality(Dead(h)) \in Nat /\ Unions(h) = Cardinality(Dead(h))
      /\ Cardinality(Dead(g)) \in Nat /\ Unions(g) = Cardinality(Dead(g))
  BY <1>1
<1>3. Cardinality(Dead(g)) <= Cardinality(Dead(h)) /\ Cardinality(Dead(g)) # Cardinality(Dead(h))
  BY <1>2, FS_Subset DEF Rises
<1> QED
  BY <1>2, <1>3

-----------------------------------------------------------------------------
(* No e-node is in two classes, but between the unions and the rebuilding. *)

Separate(g) == \A m, n \in g.nodes : m.en = n.en => m.cls = n.cls

IsGraph(g) == g = [nodes |-> g.nodes, uf |-> g.uf, info |-> g.info] /\ Separate(g)

LEMMA SeparateIsCongruent ==
  ASSUME NEW g, NEW kind, Sound(g, kind)
  PROVE  (Congruent(g) = {}) <=> IsGraph(g)
<1>1. g = [nodes |-> g.nodes, uf |-> g.uf, info |-> g.info]
  BY SoundHasInfos DEF HasInfos
<1>2. \A n \in g.nodes : n.cls \in Nat
  <2>1. Ids(g) = 1 .. Len(g.uf)
    BY SoundIds
  <2> QED
    BY <2>1 DEF Sound, IsEGraph, Classes
<1>3. ASSUME Separate(g), Congruent(g) # {} PROVE FALSE
  <2>1. PICK p \in g.nodes \X g.nodes : p[1].en = p[2].en /\ p[1].cls < p[2].cls
    BY <1>3 DEF Congruent
  <2>2. PICK m, n : m = p[1] /\ n = p[2]
    OBVIOUS
  <2>3. m \in g.nodes /\ n \in g.nodes /\ m.en = n.en /\ m.cls < n.cls
    BY <2>1, <2>2
  <2>4. m.cls = n.cls
    BY <1>3, <2>3 DEF Separate
  <2> QED
    BY <1>2, <2>3, <2>4
<1>4. ASSUME Congruent(g) = {}, NEW m \in g.nodes, NEW n \in g.nodes, m.en = n.en
      PROVE  m.cls = n.cls
  <2>1. ASSUME NEW a \in g.nodes, NEW b \in g.nodes, a.en = b.en, a.cls < b.cls PROVE FALSE
    <3>1. PICK p : p = <<a, b>>
      OBVIOUS
    <3>2. p \in g.nodes \X g.nodes /\ p[1] = a /\ p[2] = b
      BY <3>1
    <3>3. <<p[1].cls, p[2].cls>> \in Congruent(g)
      BY <2>1, <3>2 DEF Congruent
    <3> QED
      BY <1>4, <3>3
  <2>2. ~(m.cls < n.cls) /\ ~(n.cls < m.cls)
    BY <1>4, <2>1
  <2> QED
    BY <1>2, <2>2
<1> QED
  BY <1>1, <1>3, <1>4 DEF IsGraph, Separate

LEMMA AddIsGraph ==
  ASSUME NEW g, IsGraph(g), NEW en, NEW f, f = Add(g, en)
  PROVE  IsGraph(f.eg)
<1>1. PICK c : c = Canonical(g, en)
  OBVIOUS
<1>2. \/ f.eg = g
      \/ (\A n \in g.nodes : n.en # c) /\ f.eg = NewClass(g, c)
  BY <1>1, AddCases
<1>3. ASSUME \A n \in g.nodes : n.en # c, f.eg = NewClass(g, c) PROVE IsGraph(f.eg)
  <2>1. PICK new, uf, info : /\ new = [cls |-> Len(g.uf) + 1, en |-> c]
                             /\ f.eg = [nodes |-> g.nodes \cup {new}, uf |-> uf, info |-> info]
    BY <1>3, Zenon DEF NewClass
  <2>2. new.en = c
    BY <2>1
  <2>3. PICK h : h = f.eg
    OBVIOUS
  <2>4. h.nodes = g.nodes \cup {new} /\ h = [nodes |-> h.nodes, uf |-> h.uf, info |-> h.info]
    BY <2>1, <2>3
  <2>5. ASSUME NEW m \in h.nodes, NEW n \in h.nodes, m.en = n.en PROVE m.cls = n.cls
    <3>1. (m \in g.nodes \/ m = new) /\ (n \in g.nodes \/ n = new)
      BY <2>4
    <3> QED
      BY <1>3, <2>2, <2>5, <3>1 DEF IsGraph, Separate
  <2> QED
    BY <2>3, <2>4, <2>5 DEF IsGraph, Separate
<1> QED
  BY <1>2, <1>3

LEMMA AddTypedIsGraph ==
  ASSUME NEW g, IsGraph(g), NEW en, NEW info, NEW added, added = AddTyped(g, en, info)
  PROVE  IsGraph(added.eg)
<1>1. PICK f : f = Add(g, en)
  OBVIOUS
<1>2. PICK h, id : h = f.eg /\ id = f.id
  OBVIOUS
<1>3. IsGraph(h)
  BY <1>1, <1>2, AddIsGraph
<1>4. PICK e : e = SetInfo(h, id, info)
  OBVIOUS
<1>5. added.eg = e
  BY <1>1, <1>2, <1>4 DEF AddTyped
<1>6. PICK nodes, uf, infos : h = [nodes |-> nodes, uf |-> uf, info |-> infos]
  BY <1>3 DEF IsGraph
<1>7. PICK more : e = [h EXCEPT !.info = more]
  BY <1>4 DEF SetInfo
<1>8. e = [nodes |-> nodes, uf |-> uf, info |-> more] /\ h.nodes = nodes
  BY <1>6, <1>7
<1>9. e = [nodes |-> e.nodes, uf |-> e.uf, info |-> e.info] /\ e.nodes = h.nodes
  BY <1>8
<1> QED
  BY <1>3, <1>5, <1>9 DEF IsGraph, Separate

\* The chains of a module without tiles are of two links.
LEMMA ChainIsGraph ==
  ASSUME NEW g, IsGraph(g), NEW id, NEW links, links = <<>> \/ Len(links) = 2,
         NEW added, added = AddChain(g, id, links)
  PROVE  IsGraph(added.eg)
<1>1. CASE links = <<>>
  BY <1>1, ChainOfNone
<1>2. CASE Len(links) = 2
  <2>1. PICK start : start = [eg |-> g, id |-> id]
    OBVIOUS
  <2>2. PICK x : x = LinkTo(start, links[1]) /\ added = LinkTo(x, links[2])
    BY <1>2, <2>1, ChainOfTwo
  <2>3. start.eg = g
    BY <2>1
  <2>4. IsGraph(x.eg)
    BY <2>2, <2>3, AddTypedIsGraph, Zenon DEF LinkTo
  <2> QED
    BY <2>2, <2>4, AddTypedIsGraph, Zenon DEF LinkTo
<1> QED
  BY <1>1, <1>2

LEMMA ExprIsGraph ==
  ASSUME NEW g, IsGraph(g), NEW mod, NEW i, i.tile = <<>>, NEW is_root, NEW symbols,
         NEW added, added = AddExpr(g, mod, i, is_root, symbols)
  PROVE  IsGraph(added.eg)
<1>1. CASE i.op = "parameter"
  <2>1. PICK var : var = AddTyped(g, Texted("var", i.sym, <<>>), Info(<<Bytes(TypeOf(i))>>, "U8"))
    OBVIOUS
  <2>2. PICK links : links = ParameterLinks(i)
    OBVIOUS
  <2>3. PICK chain : chain = AddChain(var.eg, var.id, links)
    OBVIOUS
  <2>4. added.eg = chain.eg
    BY <1>1, <2>1, <2>2, <2>3, Zenon DEF AddExpr
  <2>5. IsGraph(var.eg)
    BY <2>1, AddTypedIsGraph, Zenon
  <2>6. Len(links) = 2
    BY <2>2, ParameterLinksAre, Zenon
  <2> QED
    BY <2>3, <2>4, <2>5, <2>6, ChainIsGraph, Zenon
<1>2. CASE i.op # "parameter"
  <2>1. PICK kids : kids = OperandIds(i, symbols)
    OBVIOUS
  <2>2. PICK node : node = AddTyped(g, Operation(i, mod.regions, kids), TypeOf(i))
    OBVIOUS
  <2>3. PICK links : links = IF is_root THEN RootLinks(i) ELSE <<>>
    OBVIOUS
  <2>4. PICK chain : chain = AddChain(node.eg, node.id, links)
    OBVIOUS
  <2>5. added.eg = chain.eg
    BY <1>2, <2>1, <2>2, <2>3, <2>4, Zenon DEF AddExpr, OperandIds
  <2>6. IsGraph(node.eg)
    BY <2>2, AddTypedIsGraph, Zenon
  <2>7. links = <<>> \/ Len(links) = 2
    BY <2>3, RootLinksAre, Zenon
  <2> QED
    BY <2>4, <2>5, <2>6, <2>7, ChainIsGraph, Zenon
<1> QED
  BY <1>1, <1>2

-----------------------------------------------------------------------------
(* An iteration that merges nothing has found all there is.                *)

Settled(g, p) ==
  \A m \in FindMatches(g, p.cls, Lhs(p.rule)) : IsDone(g, p.rule, p.cls, p.subst, m)

Searched(g, found) == \A rule \in Rules : Search(g, rule) \subseteq found

\* As long as nothing has been merged, the e-graph is that of the search; each
\* match is still to be applied, or is noted and has its other side.
IsUnmerged ==
  /\ IsGraph(eg)
  /\ Searched(eg, pending \cup processed)
  /\ \A p \in processed : Settled(eg, p)

CInv ==
  /\ phase \in {"build", "hook"} => IsGraph(eg)
  /\ phase = "apply" /\ ~merged => IsUnmerged
  /\ SaturatedIsClosed

LEMMA InitCloses == Init => CInv
<1> SUFFICES ASSUME Init PROVE CInv
  OBVIOUS
<1>1. phase = "build" /\ eg = EmptyEGraph
  BY Zenon DEF Init
<1>2. eg = [nodes |-> {}, uf |-> <<>>, info |-> <<>>]
  BY <1>1 DEF EmptyEGraph
<1>3. IsGraph(eg)
  BY <1>2 DEF IsGraph, Separate
<1> QED
  BY <1>1, <1>3 DEF CInv, SaturatedIsClosed

LEMMA AddInstructionCloses ==
  ASSUME NEW kind, IsInv(kind), Typed(module), CInv, AddInstruction
  PROVE  CInv'
<1>1. PICK i, is_root : i = Instruction /\ is_root = IsRoot
  OBVIOUS
<1>2. PICK added : added = AddExpr(eg, module, i, is_root, table)
  OBVIOUS
<1>3. /\ phase = "build" /\ Accepted(module, i, is_root, offsets)
      /\ eg' = added.eg /\ phase' \in {"hook", "build"}
  BY <1>1, <1>2, Zenon DEF AddInstruction
<1>4. i.tile = <<>>
  <2>1. i.op \in Supported
    BY <1>3, Zenon DEF Accepted
  <2>2. pc \in DOMAIN module.code
    <3>1. Control /\ module \in Modules
      BY Zenon DEF IsInv, Control
    <3>2. DOMAIN module.code = 1 .. Len(module.code) /\ Len(module.code) \in Nat
      BY <3>1, ModuleFacts, Zenon
    <3> QED
      BY <1>3, <3>1, <3>2 DEF Control
  <2>3. i = module.code[pc]
    BY <1>1 DEF Instruction
  <2> QED
    BY <2>1, <2>2, <2>3, Zenon DEF Typed
<1>5. IsGraph(eg)
  BY <1>3, Zenon DEF CInv
<1>6. IsGraph(eg')
  BY <1>2, <1>3, <1>4, <1>5, ExprIsGraph, Zenon
<1> QED
  BY <1>3, <1>6 DEF CInv, SaturatedIsClosed

LEMMA IterateCloses ==
  ASSUME CInv, Iterate
  PROVE  CInv'
<1>1. /\ phase = "hook" /\ phase' = "apply" /\ eg' = eg /\ processed' = {}
      /\ pending' = UNION {Search(eg, rule) : rule \in Rules}
  BY Zenon DEF Iterate, HookClears
<1>2. IsGraph(eg')
  BY <1>1, Zenon DEF CInv
<1>3. Searched(eg', pending' \cup processed')
  BY <1>1 DEF Searched
<1>4. IsUnmerged'
  BY <1>1, <1>2, <1>3 DEF IsUnmerged
<1> QED
  BY <1>1, <1>4 DEF CInv, SaturatedIsClosed

\* apply_one merges a class or leaves the e-graph as it is.
LEMMA NextIsSettled ==
  ASSUME NEW kind, IsInv(kind), VInv, Apply, NoMistake,
         NEW m \in NextMatches, m \notin processed,
         eg' = ApplyOne(eg, m.rule, m.cls, m.subst), ~(Unions(eg') > Unions(eg))
  PROVE  eg' = eg /\ Settled(eg, m)
<1>1. phase = "apply" /\ eg' = ApplyOne(eg, m.rule, m.cls, m.subst)
  BY Zenon DEF Apply
<1>2. Sound(eg, kind) /\ \A p \in pending : PendingOK(eg, kind, p)
  BY Zenon DEF IsInv
<1>3. PICK home : HasValues(home)
  BY Zenon DEF VInv
<1>4. PICK ct : ct = ConstantTypes(module)
  OBVIOUS
<1>5. Lawful(ct, eg, value, home) /\ TrueInfos(eg, value)
  BY <1>3, <1>4, Zenon DEF HasValues
<1>6. PICK top : top = Len(eg.uf)
  OBVIOUS
<1>7. top \in Nat /\ Ids(eg) = 1 .. top
  BY <1>2, <1>6, SoundIds
<1>8. m \in pending
  BY DEF NextMatches
<1>9. Fresh(eg, top)
  BY <1>7 DEF Fresh
<1>10. PICK rule, cls, subst : rule = m.rule /\ cls = m.cls /\ subst = m.subst
  OBVIOUS
<1>11. SubstOK(eg, kind, rule, cls, subst)
  BY <1>2, <1>8, <1>10, Zenon DEF PendingOK
<1>12. cls <= top
  BY <1>7, <1>11 DEF SubstOK
<1>13. \A q \in FindMatches(eg, cls, Lhs(rule)) : SoberAt(eg, value, rule, cls, subst, q)
  BY <1>1, <1>10, NextIsSober, Zenon
<1>14. PICK h : h = ApplyOne(eg, rule, cls, subst)
  OBVIOUS
<1>15. eg' = h
  BY <1>1, <1>10, <1>14, Zenon
<1>16. RaisedOrDone(eg, rule, cls, subst, h)
  BY <1>2, <1>5, <1>7, <1>9, <1>11, <1>12, <1>13, <1>14, ApplyOneRises, Zenon
<1>17. ~Rises(eg, h)
  <2>1. PICK more : Sound(h, more)
    BY <1>2, <1>11, <1>14, ApplyOneIsSound, Zenon DEF Improved
  <2> QED
    BY <1>2, <1>15, <2>1, RisesIsUnion, Zenon
<1> QED
  BY <1>10, <1>15, <1>16, <1>17, Zenon DEF Settled, RaisedOrDone

LEMMA ApplyCloses ==
  ASSUME NEW kind, IsInv(kind), VInv, CInv, Apply, NoMistake
  PROVE  CInv'
<1>1. PICK m \in NextMatches :
         /\ pending' = pending \ {m} /\ processed' = processed \cup {m}
         /\ eg' = IF m \in processed THEN eg ELSE ApplyOne(eg, m.rule, m.cls, m.subst)
  BY DEF Apply
<1>2. /\ phase = "apply" /\ phase' = phase
      /\ pending' = pending \ {m} /\ processed' = processed \cup {m}
      /\ m \in processed => eg' = eg
      /\ m \notin processed => eg' = ApplyOne(eg, m.rule, m.cls, m.subst)
      /\ merged' = (merged \/ Unions(eg') > Unions(eg))
  BY <1>1, Zenon DEF Apply
<1>3. ASSUME ~merged' PROVE IsUnmerged'
  <2>1. ~merged /\ ~(Unions(eg') > Unions(eg))
    BY <1>2, <1>3, Zenon
  <2>2. /\ IsGraph(eg) /\ Searched(eg, pending \cup processed)
        /\ \A p \in processed : Settled(eg, p)
    BY <1>2, <2>1, Zenon DEF CInv, IsUnmerged
  <2>3. eg' = eg /\ Settled(eg, m)
    <3>1. CASE m \in processed
      BY <1>2, <2>2, <3>1, Zenon
    <3>2. CASE m \notin processed
      BY <1>2, <2>1, <3>2, NextIsSettled, Zenon
    <3> QED
      BY <3>1, <3>2
  <2>4. pending \cup processed \subseteq pending' \cup processed'
    BY <1>2
  <2>5. Searched(eg', pending' \cup processed')
    BY <2>2, <2>3, <2>4 DEF Searched
  <2>6. \A p \in processed' : Settled(eg', p)
    BY <1>2, <2>2, <2>3
  <2> QED
    BY <2>2, <2>3, <2>5, <2>6 DEF IsUnmerged
<1> QED
  BY <1>2, <1>3 DEF CInv, SaturatedIsClosed

LEMMA RebuildCloses ==
  ASSUME NEW kind, IsInv(kind), CInv, Rebuild
  PROVE  CInv'
<1>1. /\ phase \in {"apply", "closing"} /\ phase' = phase
      /\ Congruent(eg) # {} /\ merged' = merged
  BY Zenon DEF Rebuild, run
<1>2. Sound(eg, kind)
  BY Zenon DEF IsInv
<1>3. ~IsGraph(eg)
  BY <1>1, <1>2, SeparateIsCongruent
<1>4. phase = "apply" => merged
  BY <1>1, <1>3, Zenon DEF CInv, IsUnmerged
<1> QED
  BY <1>1, <1>4 DEF CInv, SaturatedIsClosed

LEMMA EndCloses ==
  ASSUME NEW kind, IsInv(kind), CInv, EndIteration
  PROVE  CInv'
<1>1. /\ phase = "apply" /\ pending = {} /\ Congruent(eg) = {} /\ eg' = eg
      /\ phase' = IF merged THEN "hook" ELSE "saturated"
  BY Zenon DEF EndIteration
<1>2. Sound(eg, kind)
  BY Zenon DEF IsInv
<1>3. IsGraph(eg')
  BY <1>1, <1>2, SeparateIsCongruent
<1>4. CASE merged
  BY <1>1, <1>3, <1>4 DEF CInv, SaturatedIsClosed
<1>5. CASE ~merged
  <2>1. Searched(eg, processed) /\ \A p \in processed : Settled(eg, p)
    BY <1>1, <1>5 DEF CInv, IsUnmerged
  <2>2. ASSUME NEW rule \in Rules, NEW cls \in Classes(eg), NEW m \in FindMatches(eg, cls, Lhs(rule))
        PROVE  IsDone(eg, rule, cls, Subst(Lhs(rule), m.ids), m) /\ Find(eg, cls) = cls
    <3>1. PICK subst : subst = Subst(Lhs(rule), m.ids)
      OBVIOUS
    <3>2. PICK p : p = [rule |-> rule, cls |-> cls, subst |-> subst]
      OBVIOUS
    <3>3. p \in Search(eg, rule)
      BY <3>1, <3>2 DEF Search
    <3>4. Settled(eg, p)
      BY <2>1, <3>3 DEF Searched
    <3>5. p.rule = rule /\ p.cls = cls /\ p.subst = subst
      BY <3>2
    <3>6. IsDone(eg, rule, cls, subst, m)
      BY <3>4, <3>5, Zenon DEF Settled
    <3> QED
      BY <3>1, <3>6 DEF Classes, Find
  <2>3. \A rule \in Rules : Closed(eg, rule)
    BY <2>2, Zenon DEF Closed, IsDone
  <2>4. phase' = "saturated"
    BY <1>1, <1>5
  <2>5. SaturatedIsClosed'
    BY <1>1, <2>3, Zenon DEF SaturatedIsClosed
  <2> QED
    BY <2>4, <2>5 DEF CInv
<1> QED
  BY <1>4, <1>5

LEMMA StepCloses ==
  ASSUME NEW kind, IsInv(kind), VInv, CInv, Typed(module), [Next]_vars, NoMistake
  PROVE  CInv'
<1>1. ASSUME Panic \/ Interrupt \/ Stop PROVE CInv'
  <2>1. phase' = "panic" \/ phase' = "closing" \/ phase' = "stopped"
    BY <1>1, Zenon DEF Panic, Interrupt, Stop
  <2> QED
    BY <2>1 DEF CInv, SaturatedIsClosed
<1>2. ASSUME UNCHANGED vars PROVE CInv'
  <2>1. phase' = phase /\ eg' = eg /\ merged' = merged /\ pending' = pending /\ processed' = processed
    BY <1>2, Zenon DEF vars, run
  <2> QED
    BY <2>1, Zenon DEF CInv, IsUnmerged, SaturatedIsClosed
<1> QED
  BY <1>1, <1>2, AddInstructionCloses, IterateCloses, ApplyCloses, RebuildCloses, EndCloses, Zenon
     DEF Next, Step, Finished

LEMMA ClosesAlways == Spec /\ []NoMistake => [](Typed(module) => CInv)
<1>1. Init => (Typed(module) => CInv)
  BY InitCloses
<1>2. /\ IInv /\ NoMistake /\ (Typed(module) => VInv) /\ (Typed(module) => CInv) /\ [Next]_vars
      => (Typed(module) => CInv)'
  <2> SUFFICES ASSUME IInv, NoMistake, Typed(module) => VInv, Typed(module) => CInv, [Next]_vars,
                      Typed(module)'
               PROVE  CInv'
    OBVIOUS
  <2>1. PICK kind : IsInv(kind)
    BY Zenon DEF IInv
  <2>2. module' = module
    BY ModuleStays
  <2>3. Typed(module)
    BY <2>2, Zenon
  <2> QED
    BY <2>1, <2>3, StepCloses
<1> QED
  BY <1>1, <1>2, InvAlways, ValuesAlways, PTL DEF Spec

\* The look at PROCESSED loses no match: of a module that is typed, as long as
\* no step of apply_one is mistaken, egg's runner says that the e-graph is
\* saturated only if every match of every rule has its other side, in its own
\* class.  An iteration that merges nothing changes nothing at all, neither
\* e-nodes nor TensorInfos.
THEOREM SaturatedIsAlwaysClosed ==
  Spec /\ []NoMistake => [](Typed(module) => SaturatedIsClosed)
<1>1. CInv => SaturatedIsClosed
  BY Zenon DEF CInv
<1> QED
  BY <1>1, ClosesAlways, PTL

=============================================================================
