--------------------------- MODULE FrontEndProofs ---------------------------
(***************************************************************************)
(* Proofs about FrontEnd, for every set of well-formed modules: the e-graph *)
(* that the initializer builds and the rules rewrite.                      *)
(*                                                                         *)
(* That an input's Var stays alone in its class is not inductive: a rule   *)
(* merges the class that matched with the one it makes, so that one must   *)
(* be known not to be an input's, and what matched must be known to be     *)
(* typed, or to be bytes that the rule leaves bytes.  The invariant says   *)
(* that the classes can be coloured, as inputs, raw bytes and typed        *)
(* tensors, so that each e-node fits the colours of its operands and each  *)
(* merge joins classes of one colour.                                      *)
(***************************************************************************)
EXTENDS FrontEnd, FiniteSetTheorems, WellFoundedInduction, TLAPS

-----------------------------------------------------------------------------
(* The e-graph the initializer and the rules build, and its colouring. kind*)
(* gives each class a colour the code does not keep: an input's own class, its*)
(* bytes in another shape, or a tensor with a type.                        *)

Infos      == [shape : Seq(Nat), dtype : Dtypes]
\* That a literal is a string is beyond the provers.
Texts == STRING \cup {""} \cup Dtypes \cup {Text[dtype] : dtype \in Dtypes}

ENodes     == [op : TensorOps, text : Texts, data : Seq(Nat), kids : Seq(Nat)]
ClassNodes == [cls : Nat, en : ENodes]
EGraphs    == [nodes : SUBSET ClassNodes, uf : Seq(Nat), info : Seq(Infos)]

\* The e-node has its operands and its string.
HasParts(en) ==
  /\ Len(en.kids) = NumChildren(en.op)
  /\ (en.text # "" \/ en.data # <<>>) <=> (en.op \in HasMetadata \cup {"var"})
  /\ en.op = "slice" => en.data # <<>>

IsEGraph(g) ==
  /\ g \in EGraphs /\ IsFiniteSet(g.nodes) /\ Len(g.info) = Len(g.uf)
  /\ \A id \in Ids(g) : Find(g, id) \in Classes(g)
  /\ \A n \in g.nodes :
       /\ n.cls \in Classes(g) /\ HasParts(n.en)
       /\ \A k \in DOMAIN n.en.kids : n.en.kids[k] \in Classes(g)

\* A class is an input's, or the input's bytes in another shape, or has a type.
Kinds == {"input", "raw", "typed"}

KindOf(kind, en) ==
  IF en.op = "var" THEN "input"
  ELSE IF en.op = "reshape" /\ kind[en.kids[1]] # "typed" THEN "raw" ELSE "typed"

\* Bytes without a type are reshaped or converted, and nothing else.
Fits(kind, en) ==
  en.op \in {"reshape", "bitcvt"} \/ \A k \in DOMAIN en.kids : kind[en.kids[k]] = "typed"

IsKinded(g, kind) ==
  /\ kind \in Seq(Kinds) /\ Len(kind) = Len(g.uf)
  /\ \A id \in Ids(g) :
       /\ kind[Find(g, id)] = kind[id]
       /\ kind[id] = "input" => Find(g, id) = id /\ Len(g.info[id].shape) <= 1
       /\ kind[id] # "typed" => g.info[id].dtype = "U8"
  /\ \A n \in g.nodes : kind[n.cls] = KindOf(kind, n.en) /\ Fits(kind, n.en)
  /\ \A m, n \in g.nodes : m.en = n.en /\ m.en.op = "var" => m.cls = n.cls

Sound(g, kind) == IsEGraph(g) /\ IsKinded(g, kind)

\* What was there keeps its kind, and an input its TensorInfo; no Var is new.
Grows(g, kind, h, more) ==
  /\ Len(g.uf) <= Len(h.uf)
  /\ \A id \in Ids(g) :
       /\ more[id] = kind[id]
       /\ kind[id] = "input" => h.info[id] = g.info[id]
  /\ \A n \in h.nodes : n.en.op = "var" =>
       \E m \in g.nodes : m.en.op = "var" /\ m.en.text = n.en.text

LEMMA EGraphFacts ==
  ASSUME NEW g, g \in EGraphs
  PROVE  /\ g.nodes \in SUBSET ClassNodes /\ g.uf \in Seq(Nat) /\ g.info \in Seq(Infos)
         /\ Ids(g) = 1 .. Len(g.uf) /\ Len(g.uf) \in Nat
BY DEF EGraphs, Ids

LEMMA ClassNodeFacts ==
  ASSUME NEW n, n \in ClassNodes
  PROVE  /\ n.cls \in Nat /\ n.en \in ENodes /\ n.en.op \in TensorOps
         /\ n.en.kids \in Seq(Nat) /\ DOMAIN n.en.kids = 1 .. Len(n.en.kids)
         /\ n.en.text \in Texts /\ n.en.data \in Seq(Nat)
BY DEF ClassNodes, ENodes

LEMMA ArityFacts ==
  ASSUME NEW op \in TensorOps
  PROVE  /\ NumChildren(op) \in {0, 1, 2}
         /\ op = "var" => NumChildren(op) = 0
         /\ op = "reshape" => NumChildren(op) = 1
BY DEF NumChildren, TensorOps, BinaryOps, UnaryOps, Reductions

\* A reshape has an operand.
LEMMA ReshapeHasKid ==
  ASSUME NEW en \in ENodes, HasParts(en), en.op = "reshape"
  PROVE  DOMAIN en.kids = {1}
<1>1. en.op \in TensorOps /\ DOMAIN en.kids = 1 .. Len(en.kids)
  BY DEF ENodes
<1>2. Len(en.kids) = NumChildren(en.op)
  BY DEF HasParts
<1>3. NumChildren(en.op) = 1
  BY <1>1, ArityFacts
<1> QED
  BY <1>1, <1>2, <1>3

\* An e-graph grows into itself ...
LEMMA GrowsReflexive ==
  ASSUME NEW g, NEW kind, Sound(g, kind)
  PROVE  Grows(g, kind, g, kind)
<1>1. g \in EGraphs
  BY DEF Sound, IsEGraph
<1>2. Len(g.uf) \in Nat
  BY <1>1, EGraphFacts
<1> QED
  BY <1>2 DEF Grows

\* ... and growth adds up.
LEMMA GrowsTransitive ==
  ASSUME NEW g, NEW kind, NEW h, NEW more, NEW f, NEW most,
         Sound(g, kind), Sound(h, more), Sound(f, most),
         Grows(g, kind, h, more), Grows(h, more, f, most)
  PROVE  Grows(g, kind, f, most)
<1>1. g \in EGraphs /\ h \in EGraphs /\ f \in EGraphs
  BY DEF Sound, IsEGraph
<1>2. /\ Ids(g) = 1 .. Len(g.uf) /\ Len(g.uf) \in Nat
      /\ Ids(h) = 1 .. Len(h.uf) /\ Len(h.uf) \in Nat /\ Len(f.uf) \in Nat
  BY <1>1, EGraphFacts
<1>3. Len(g.uf) <= Len(f.uf) /\ Ids(g) \subseteq Ids(h)
  BY <1>2 DEF Grows
<1>4. ASSUME NEW id \in Ids(g)
      PROVE  most[id] = kind[id] /\ (kind[id] = "input" => f.info[id] = g.info[id])
  BY <1>3 DEF Grows
<1>5. ASSUME NEW n \in f.nodes, n.en.op = "var"
      PROVE  \E m \in g.nodes : m.en.op = "var" /\ m.en.text = n.en.text
  <2>1. PICK m \in h.nodes : m.en.op = "var" /\ m.en.text = n.en.text
    BY <1>5 DEF Grows
  <2> QED
    BY <2>1 DEF Grows
<1> QED
  BY <1>3, <1>4, <1>5 DEF Grows

\* The e-node with the numbers its kids have now.
Canonical(g, en) == [en EXCEPT !.kids = [k \in DOMAIN @ |-> Find(g, @[k])]]

\* Canonical numbers leave an e-node what it was and keep its kids' kinds.
LEMMA CanonicalFacts ==
  ASSUME NEW g, NEW kind, Sound(g, kind), NEW en \in ENodes, HasParts(en),
         \A k \in DOMAIN en.kids : en.kids[k] \in Ids(g), NEW c, c = Canonical(g, en)
  PROVE  /\ c \in ENodes /\ HasParts(c) /\ c.op = en.op /\ c.text = en.text
         /\ DOMAIN c.kids = DOMAIN en.kids
         /\ \A k \in DOMAIN c.kids : c.kids[k] \in Classes(g)
         /\ KindOf(kind, c) = KindOf(kind, en) /\ (Fits(kind, en) => Fits(kind, c))
<1>1. /\ en.op \in TensorOps /\ en.text \in Texts /\ en.data \in Seq(Nat) /\ en.kids \in Seq(Nat)
      /\ en = [op |-> en.op, text |-> en.text, data |-> en.data, kids |-> en.kids]
  BY DEF ENodes
<1> DEFINE ks == [k \in DOMAIN en.kids |-> Find(g, en.kids[k])]
<1>2. c = [op |-> en.op, text |-> en.text, data |-> en.data, kids |-> ks]
  BY <1>1 DEF Canonical
<1>3. \A id \in Ids(g) : Find(g, id) \in Classes(g) /\ Find(g, id) \in Nat /\ kind[Find(g, id)] = kind[id]
  BY EGraphFacts DEF Sound, IsEGraph, IsKinded, Classes
<1>4. \A k \in DOMAIN en.kids : ks[k] \in Nat /\ ks[k] \in Classes(g) /\ kind[ks[k]] = kind[en.kids[k]]
  BY <1>3
<1>5. DOMAIN ks = DOMAIN en.kids /\ DOMAIN en.kids = 1 .. Len(en.kids) /\ Len(en.kids) \in Nat
  BY <1>1
<1> HIDE DEF ks
<1>6. ks \in Seq(Nat) /\ Len(ks) = Len(en.kids)
  <2>1. ks = [k \in 1 .. Len(en.kids) |-> ks[k]]
    BY <1>5 DEF ks
  <2> QED
    BY <1>4, <1>5, <2>1
<1>7. /\ c.op = en.op /\ c.text = en.text /\ c.data = en.data /\ c.kids = ks
  BY <1>2
<1>8. c \in ENodes
  BY <1>1, <1>2, <1>6 DEF ENodes
<1>9. HasParts(c)
  BY <1>6, <1>7 DEF HasParts
<1>10. en.op = "reshape" => 1 \in DOMAIN en.kids
  BY ReshapeHasKid
<1>11. KindOf(kind, c) = KindOf(kind, en)
  BY <1>4, <1>7, <1>10 DEF KindOf
<1>12. Fits(kind, en) => Fits(kind, c)
  BY <1>4, <1>5, <1>7 DEF Fits
<1> QED
  BY <1>4, <1>5, <1>7, <1>8, <1>9, <1>11, <1>12

-----------------------------------------------------------------------------
(* add: an e-node that is known, or a new class for it.                    *)

\* A new class for an e-node that is in none.
NewClass(g, en) ==
  [nodes |-> g.nodes \cup {[cls |-> Len(g.uf) + 1, en |-> en]},
   uf |-> Append(g.uf, Len(g.uf) + 1), info |-> Append(g.info, Default)]

LEMMA AppendFacts ==
  ASSUME NEW S, NEW s \in Seq(S), NEW x \in S
  PROVE  /\ Append(s, x) \in Seq(S) /\ Len(Append(s, x)) = Len(s) + 1
         /\ Append(s, x)[Len(s) + 1] = x
         /\ \A k \in 1 .. Len(s) : Append(s, x)[k] = s[k]
OBVIOUS

LEMMA DefaultIsInfo == Default \in Infos /\ Len(Default.shape) = 0 /\ Default.dtype = "U8"
BY DEF Default, Info, Infos, Dtypes

\* A new class is coloured by its e-node: sharing a class is not needed for that.
LEMMA NewClassIsSound ==
  ASSUME NEW g, NEW kind, Sound(g, kind), NEW en \in ENodes, HasParts(en),
         \A k \in DOMAIN en.kids : en.kids[k] \in Classes(g),
         Fits(kind, en), \A n \in g.nodes : n.en # en,
         NEW h, h = NewClass(g, en), NEW more, more = Append(kind, KindOf(kind, en))
  PROVE  /\ Sound(h, more) /\ Len(h.uf) = Len(g.uf) + 1
         /\ more[Len(g.uf) + 1] = KindOf(kind, en)
         /\ \A id \in Ids(g) : more[id] = kind[id] /\ h.info[id] = g.info[id]
         /\ Len(g.uf) + 1 \in Classes(h)
<1> DEFINE top == Len(g.uf)
           id0 == top + 1
           new == [cls |-> id0, en |-> en]
<1>1. g \in EGraphs /\ Len(g.info) = top /\ IsFiniteSet(g.nodes)
  BY DEF Sound, IsEGraph
<1>2. /\ g.nodes \in SUBSET ClassNodes /\ g.uf \in Seq(Nat) /\ g.info \in Seq(Infos)
      /\ Ids(g) = 1 .. top /\ top \in Nat
  BY <1>1, EGraphFacts
<1>3. kind \in Seq(Kinds) /\ Len(kind) = top
  BY DEF Sound, IsKinded
<1>4. KindOf(kind, en) \in Kinds
  BY DEF KindOf, Kinds
<1>5. h.nodes = g.nodes \cup {new} /\ h.uf = Append(g.uf, id0) /\ h.info = Append(g.info, Default)
      /\ h = [nodes |-> g.nodes \cup {new}, uf |-> h.uf, info |-> h.info]
  BY DEF NewClass
<1>6. new \in ClassNodes /\ new.cls = id0 /\ new.en = en
  BY <1>2 DEF ClassNodes
<1> HIDE DEF new
<1>7. /\ h.uf \in Seq(Nat) /\ Len(h.uf) = id0 /\ h.uf[id0] = id0
      /\ \A id \in 1 .. top : h.uf[id] = g.uf[id]
  <2>1. id0 \in Nat
    BY <1>2
  <2> QED
    BY <1>2, <1>5, <2>1, AppendFacts
<1>8. /\ h.info \in Seq(Infos) /\ Len(h.info) = id0 /\ h.info[id0] = Default
      /\ \A id \in 1 .. top : h.info[id] = g.info[id]
  BY <1>1, <1>2, <1>5, AppendFacts, DefaultIsInfo
<1>9. /\ more \in Seq(Kinds) /\ Len(more) = id0 /\ more[id0] = KindOf(kind, en)
      /\ \A id \in 1 .. top : more[id] = kind[id]
  BY <1>3, <1>4, AppendFacts
<1>10. /\ Ids(h) = 1 .. id0 /\ id0 \in Nat /\ id0 \in Ids(h) /\ Ids(g) \subseteq Ids(h) /\ id0 \notin Ids(g)
       /\ \A id \in Ids(h) : id = id0 \/ id \in Ids(g)
  <2>1. Ids(h) = 1 .. Len(h.uf)
    BY <1>7 DEF Ids
  <2> QED
    BY <1>2, <1>7, <2>1
<1> HIDE DEF top, id0
<1>11. Find(h, id0) = id0 /\ \A id \in Ids(g) : Find(h, id) = Find(g, id)
  BY <1>2, <1>7 DEF Find
<1>12. Classes(g) \subseteq Ids(g) /\ Classes(g) \subseteq Classes(h) /\ id0 \in Classes(h)
  BY <1>10, <1>11 DEF Classes, Find
<1>13. h \in EGraphs
  BY <1>2, <1>5, <1>6, <1>7, <1>8 DEF EGraphs
<1>14. IsFiniteSet(h.nodes)
  <2>1. IsFiniteSet(g.nodes \cup {new})
    BY <1>1, FS_AddElement, Zenon
  <2> QED
    BY <1>5, <2>1, Zenon
<1>15. \A n \in h.nodes : n = new \/ n \in g.nodes
  BY <1>5
<1>16. IsEGraph(h)
  <2>1. \A id \in Ids(h) : Find(h, id) \in Classes(h)
    BY <1>10, <1>11, <1>12 DEF Sound, IsEGraph
  <2>2. ASSUME NEW n \in h.nodes
        PROVE  /\ n.cls \in Classes(h) /\ HasParts(n.en)
               /\ \A k \in DOMAIN n.en.kids : n.en.kids[k] \in Classes(h)
    <3>1. CASE n = new
      BY <1>6, <1>12, <3>1
    <3>2. CASE n \in g.nodes
      BY <1>12, <3>2 DEF Sound, IsEGraph
    <3> QED
      BY <1>15, <3>1, <3>2
  <2> QED
    BY <1>7, <1>8, <1>13, <1>14, <2>1, <2>2 DEF IsEGraph
<1>17. \A id \in Classes(g) : more[id] = kind[id]
  BY <1>2, <1>9, <1>12
<1>18. ASSUME NEW e \in ENodes, HasParts(e), \A k \in DOMAIN e.kids : e.kids[k] \in Classes(g)
       PROVE  KindOf(more, e) = KindOf(kind, e) /\ (Fits(kind, e) => Fits(more, e))
  <2>1. e.op = "reshape" => 1 \in DOMAIN e.kids
    BY <1>18, ReshapeHasKid
  <2> QED
    BY <1>17, <1>18, <2>1 DEF KindOf, Fits
<1>19. IsKinded(h, more)
  <2>1. ASSUME NEW id \in Ids(h)
        PROVE  /\ more[Find(h, id)] = more[id]
               /\ more[id] = "input" => Find(h, id) = id /\ Len(h.info[id].shape) <= 1
               /\ more[id] # "typed" => h.info[id].dtype = "U8"
    <3>1. CASE id = id0
      <4>1. h.info[id] = Default
        BY <1>8, <3>1
      <4>2. Len(h.info[id].shape) <= 1 /\ h.info[id].dtype = "U8"
        BY <4>1, DefaultIsInfo
      <4> QED
        BY <1>11, <3>1, <4>2
    <3>2. CASE id \in Ids(g)
      <4>1. Find(g, id) \in Classes(g)
        BY <3>2 DEF Sound, IsEGraph
      <4>2. more[id] = kind[id] /\ h.info[id] = g.info[id]
        BY <1>2, <1>8, <1>9, <3>2
      <4> QED
        BY <1>11, <1>17, <3>2, <4>1, <4>2 DEF Sound, IsKinded
    <3> QED
      BY <1>10, <3>1, <3>2
  <2>2. ASSUME NEW n \in h.nodes
        PROVE  more[n.cls] = KindOf(more, n.en) /\ Fits(more, n.en)
    <3>1. CASE n = new
      BY <1>6, <1>9, <1>18, <3>1
    <3>2. CASE n \in g.nodes
      <4>1. n.en \in ENodes
        BY <1>2, <3>2, ClassNodeFacts
      <4>2. /\ n.cls \in Classes(g) /\ HasParts(n.en)
            /\ \A k \in DOMAIN n.en.kids : n.en.kids[k] \in Classes(g)
        BY <3>2 DEF Sound, IsEGraph
      <4>3. kind[n.cls] = KindOf(kind, n.en) /\ Fits(kind, n.en)
        BY <3>2 DEF Sound, IsKinded
      <4> QED
        BY <1>17, <1>18, <4>1, <4>2, <4>3
    <3> QED
      BY <1>15, <3>1, <3>2
  <2>3. ASSUME NEW m \in h.nodes, NEW n \in h.nodes, m.en = n.en, m.en.op = "var"
        PROVE  m.cls = n.cls
    <3>1. CASE m \in g.nodes /\ n \in g.nodes
      BY <2>3, <3>1 DEF Sound, IsKinded
    <3>2. CASE m = new \/ n = new
      BY <1>6, <1>15, <2>3, <3>2
    <3> QED
      BY <1>15, <3>1, <3>2
  <2> QED
    BY <1>7, <1>9, <2>1, <2>2, <2>3 DEF IsKinded
<1> QED
  BY <1>2, <1>7, <1>8, <1>9, <1>12, <1>16, <1>19 DEF Sound, id0, top

\* The e-graph and the class that an operation is in.
Added(g, kind, en, h, more, id) ==
  /\ Sound(h, more) /\ Grows(g, kind, h, more)
  /\ id \in Ids(h) /\ more[id] = KindOf(kind, en)

\* Whether the e-node is known or not, add's class has the kind of the e-node.
LEMMA AddIsSound ==
  ASSUME NEW g, NEW kind, Sound(g, kind), NEW en \in ENodes, HasParts(en), en.op # "var",
         \A k \in DOMAIN en.kids : en.kids[k] \in Ids(g), Fits(kind, en)
  PROVE  \E more : Added(g, kind, en, Add(g, en).eg, more, Add(g, en).id)
<1> DEFINE c == Canonical(g, en)
           found == {n \in g.nodes : n.en = c}
<1>1. /\ c \in ENodes /\ HasParts(c) /\ c.op = en.op /\ c.text = en.text
      /\ DOMAIN c.kids = DOMAIN en.kids
      /\ \A k \in DOMAIN c.kids : c.kids[k] \in Classes(g)
      /\ KindOf(kind, c) = KindOf(kind, en) /\ Fits(kind, c)
  BY CanonicalFacts
<1>2. Add(g, en) = IF found # {} THEN [eg |-> g, id |-> (CHOOSE n \in found : TRUE).cls]
                   ELSE [eg |-> NewClass(g, c), id |-> Len(g.uf) + 1]
  BY DEF Add, Canonical, NewClass
<1> HIDE DEF c
<1>3. CASE found # {}
  <2> DEFINE n == CHOOSE n \in found : TRUE
  <2>1. n \in found
    BY <1>3
  <2>2. Add(g, en).eg = g /\ Add(g, en).id = n.cls
    BY <1>2, <1>3
  <2>3. n \in g.nodes /\ n.en = c
    BY <2>1
  <2> HIDE DEF n, found
  <2>4. n.cls \in Ids(g) /\ kind[n.cls] = KindOf(kind, en)
    BY <1>1, <2>3 DEF Sound, IsEGraph, IsKinded, Classes
  <2>5. Grows(g, kind, g, kind)
    BY GrowsReflexive
  <2> QED
    BY <2>2, <2>4, <2>5 DEF Added
<1>4. CASE found = {}
  <2>1. Add(g, en).eg = NewClass(g, c) /\ Add(g, en).id = Len(g.uf) + 1
    BY <1>2, <1>4
  <2>2. \A n \in g.nodes : n.en # c
    BY <1>4
  <2> HIDE DEF found
  <2> DEFINE h == NewClass(g, c)
             more == Append(kind, KindOf(kind, c))
  <2>3. /\ Sound(h, more) /\ Len(h.uf) = Len(g.uf) + 1
        /\ more[Len(g.uf) + 1] = KindOf(kind, c)
        /\ \A id \in Ids(g) : more[id] = kind[id] /\ h.info[id] = g.info[id]
        /\ Len(g.uf) + 1 \in Classes(h)
    BY <1>1, <2>2, NewClassIsSound
  <2>4. Len(g.uf) \in Nat
    BY EGraphFacts DEF Sound, IsEGraph
  <2>5. ASSUME NEW n \in h.nodes, n.en.op = "var"
        PROVE  \E m \in g.nodes : m.en.op = "var" /\ m.en.text = n.en.text
    <3>1. n \in g.nodes \/ n.en = c
      BY DEF NewClass
    <3>2. n \in g.nodes
      BY <1>1, <2>5, <3>1
    <3> QED
      BY <2>5, <3>2
  <2> HIDE DEF h, more
  <2>6. Grows(g, kind, h, more)
    BY <2>3, <2>4, <2>5 DEF Grows
  <2>7. Added(g, kind, en, h, more, Len(g.uf) + 1)
    BY <1>1, <2>3, <2>6 DEF Added, Classes
  <2> QED
    BY <2>1, <2>7 DEF h
<1> QED
  BY <1>3, <1>4

-----------------------------------------------------------------------------
(* set_info, set_shapes and union.                                         *)

\* A set of naturals that is not empty has a least element.
LEMMA LeastElement ==
  ASSUME NEW S \in SUBSET Nat, S # {}
  PROVE  \E m \in S : \A k \in S : m <= k
<1>1. PICK m \in S : \A k \in S : ~(<<k, m>> \in OpToRel(<, Nat))
  BY NatLessThanWellFounded, WFMin
<1>2. \A k \in S : ~(k < m)
  BY <1>1 DEF OpToRel
<1> QED
  BY <1>2

LEMMA MinIsElement ==
  ASSUME NEW S \in SUBSET Nat, S # {}
  PROVE  Min(S) \in S /\ \A k \in S : Min(S) <= k
<1>1. \E m \in S : \A k \in S : m <= k
  BY LeastElement
<1> QED
  BY <1>1 DEF Min

LEMMA MaxIsElement ==
  ASSUME NEW n \in Nat, NEW S \in SUBSET (0 .. n), S # {}
  PROVE  Max(S) \in S /\ \A k \in S : k <= Max(S)
<1> DEFINE T == {j \in 0 .. n : n - j \in S}
<1>1. T # {} /\ T \in SUBSET Nat
  <2>1. PICK k \in S : TRUE
    OBVIOUS
  <2>2. n - k \in 0 .. n /\ n - (n - k) = k
    OBVIOUS
  <2>3. n - k \in T
    BY <2>1, <2>2
  <2>4. T \in SUBSET Nat
    OBVIOUS
  <2> QED
    BY <2>3, <2>4
<1>2. PICK m \in T : \A k \in T : m <= k
  <2> HIDE DEF T
  <2> QED
    BY <1>1, LeastElement
<1>3. n - m \in S /\ m \in 0 .. n
  OBVIOUS
<1>4. ASSUME NEW k \in S PROVE k <= n - m
  <2>1. n - k \in T
    <3>1. n - k \in 0 .. n /\ n - (n - k) = k
      OBVIOUS
    <3> QED
      BY <3>1
  <2>2. m <= n - k /\ k \in 0 .. n
    BY <1>2, <2>1
  <2> QED
    BY <1>3, <2>2
<1>5. \E x \in S : \A y \in S : x >= y
  BY <1>3, <1>4
<1> QED
  BY <1>5 DEF Max

LEMMA ImageIsFinite ==
  ASSUME NEW S, IsFiniteSet(S), NEW f, DOMAIN f = S
  PROVE  IsFiniteSet({f[x] : x \in S})
<1> DEFINE T == {f[x] : x \in S}
           h == [x \in S |-> f[x]]
<1>1. h \in [S -> T] /\ \A t \in T : \E x \in S : h[x] = t
  OBVIOUS
<1>2. h \in Surjection(S, T)
  BY <1>1 DEF Surjection
<1> QED
  BY <1>2, FS_Surjection

\* Other TensorInfos.
LEMMA OtherInfos ==
  ASSUME NEW g, NEW kind, Sound(g, kind), NEW infos \in Seq(Infos), Len(infos) = Len(g.uf),
         \A id \in Ids(g) :
           /\ kind[id] = "input" => Len(infos[id].shape) <= 1
           /\ kind[id] # "typed" => infos[id].dtype = "U8",
         NEW h, h = [g EXCEPT !.info = infos]
  PROVE  Sound(h, kind) /\ h.uf = g.uf /\ h.nodes = g.nodes /\ h.info = infos
<1>1. g \in EGraphs
  BY DEF Sound, IsEGraph
<1>2. h.uf = g.uf /\ h.nodes = g.nodes /\ h.info = infos /\ h \in EGraphs
  BY <1>1 DEF EGraphs
<1>3. /\ Ids(h) = Ids(g) /\ Classes(h) = Classes(g)
      /\ \A id : Find(h, id) = Find(g, id)
  BY <1>2 DEF Ids, Classes, Find
<1>4. IsEGraph(h)
  BY <1>2, <1>3 DEF Sound, IsEGraph
<1>5. IsKinded(h, kind)
  BY <1>2, <1>3 DEF Sound, IsKinded
<1> QED
  BY <1>2, <1>4, <1>5 DEF Sound

\* set_info replaces one TensorInfo: never an input's, and bytes stay bytes.
LEMMA SetInfoIsSound ==
  ASSUME NEW g, NEW kind, Sound(g, kind), NEW id \in Ids(g), NEW info \in Infos,
         kind[id] # "typed" => info.dtype = "U8",
         kind[id] = "input" => Len(info.shape) <= 1,
         NEW h, h = SetInfo(g, id, info)
  PROVE  /\ Sound(h, kind) /\ h.uf = g.uf /\ h.nodes = g.nodes
         /\ h.info[Find(g, id)] = info
         /\ \A c \in Ids(g) : c # Find(g, id) => h.info[c] = g.info[c]
<1>1. g \in EGraphs /\ Len(g.info) = Len(g.uf) /\ Find(g, id) \in Ids(g)
  BY DEF Sound, IsEGraph, Classes
<1>2. Ids(g) = 1 .. Len(g.uf) /\ g.info \in Seq(Infos) /\ Len(g.uf) \in Nat
  BY <1>1, EGraphFacts
<1> DEFINE infos == [g.info EXCEPT ![Find(g, id)] = info]
<1>3. h = [g EXCEPT !.info = infos]
  BY <1>1 DEF SetInfo, EGraphs
<1>4. /\ infos \in Seq(Infos) /\ Len(infos) = Len(g.uf)
      /\ infos[Find(g, id)] = info
      /\ \A c \in Ids(g) : c # Find(g, id) => infos[c] = g.info[c]
  BY <1>1, <1>2
<1> HIDE DEF infos
<1>5. kind[Find(g, id)] = kind[id]
  BY DEF Sound, IsKinded
<1>6. ASSUME NEW c \in Ids(g)
      PROVE  /\ kind[c] = "input" => Len(infos[c].shape) <= 1
             /\ kind[c] # "typed" => infos[c].dtype = "U8"
  <2>1. CASE c = Find(g, id)
    BY <1>4, <1>5, <2>1
  <2>2. CASE c # Find(g, id)
    BY <1>4, <2>2 DEF Sound, IsKinded
  <2> QED
    BY <2>1, <2>2
<1>7. Sound(h, kind) /\ h.uf = g.uf /\ h.nodes = g.nodes /\ h.info = infos
  BY <1>3, <1>4, <1>6, OtherInfos
<1> QED
  BY <1>4, <1>7

\* Of the classes b they may all get the TensorInfos.
Shapes(shapes, b) ==
  \A k \in DOMAIN shapes : shapes[k] \in Infos /\ (b = "raw" => shapes[k].dtype = "U8")

\* set_shapes replaces the TensorInfos of a match's classes.
LEMMA WithShapesIsSound ==
  ASSUME NEW g, NEW kind, Sound(g, kind), NEW n \in Nat, NEW ids, NEW shapes,
         DOMAIN shapes \subseteq 1 .. n, NEW b \in {"raw", "typed"}, Shapes(shapes, b),
         \A k \in 1 .. n : ids[k] \in Ids(g) /\ kind[ids[k]] = b,
         NEW h, h = WithShapes(g, ids, shapes)
  PROVE  Sound(h, kind) /\ h.uf = g.uf /\ Grows(g, kind, h, kind)
<1>1. g \in EGraphs /\ Len(g.info) = Len(g.uf)
  BY DEF Sound, IsEGraph
<1>2. Ids(g) = 1 .. Len(g.uf) /\ g.info \in Seq(Infos) /\ Len(g.uf) \in Nat /\ DOMAIN g.info = Ids(g)
  BY <1>1, EGraphFacts
<1> DEFINE at(cls) == {k \in DOMAIN shapes : Find(g, ids[k]) = cls}
           infos == [cls \in DOMAIN g.info |-> IF at(cls) = {} THEN g.info[cls]
                                               ELSE shapes[Max(at(cls))]]
<1>3. h = [g EXCEPT !.info = infos]
  BY <1>1 DEF WithShapes, EGraphs
<1>4. ASSUME NEW cls \in Ids(g), at(cls) # {}
      PROVE  /\ shapes[Max(at(cls))] \in Infos /\ kind[cls] = b
             /\ b = "raw" => shapes[Max(at(cls))].dtype = "U8"
  <2>1. at(cls) \in SUBSET (0 .. n)
    OBVIOUS
  <2>2. Max(at(cls)) \in at(cls)
    <3> HIDE DEF at
    <3> QED
      BY <1>4, <2>1, MaxIsElement
  <2>3. PICK k \in 1 .. n : k = Max(at(cls)) /\ k \in DOMAIN shapes /\ Find(g, ids[k]) = cls
    BY <2>2
  <2>4. kind[cls] = kind[ids[k]]
    BY <2>3 DEF Sound, IsKinded
  <2> QED
    BY <2>3, <2>4 DEF Shapes
<1> HIDE DEF at
<1>5. infos \in Seq(Infos) /\ Len(infos) = Len(g.uf)
  <2>1. \A cls \in Ids(g) : infos[cls] \in Infos
    BY <1>2, <1>4
  <2>2. infos = [cls \in 1 .. Len(g.uf) |-> infos[cls]]
    BY <1>2
  <2> HIDE DEF infos
  <2> QED
    BY <1>2, <2>1, <2>2
<1>6. ASSUME NEW cls \in Ids(g)
      PROVE  /\ kind[cls] = "input" => infos[cls] = g.info[cls]
             /\ kind[cls] # "typed" => infos[cls].dtype = "U8"
  <2>1. CASE at(cls) = {}
    BY <1>2, <2>1 DEF Sound, IsKinded
  <2>2. CASE at(cls) # {}
    BY <1>2, <1>4, <2>2
  <2> QED
    BY <2>1, <2>2
<1>7. \A cls \in Ids(g) : kind[cls] = "input" => Len(g.info[cls].shape) <= 1
  BY DEF Sound, IsKinded
<1> HIDE DEF infos
<1>8. Sound(h, kind) /\ h.uf = g.uf /\ h.nodes = g.nodes /\ h.info = infos
  BY <1>3, <1>5, <1>6, <1>7, OtherInfos
<1>9. Grows(g, kind, h, kind)
  BY <1>2, <1>6, <1>8 DEF Grows
<1> QED
  BY <1>8, <1>9

\* Classes of one kind can be one class, inputs' excepted.
LEMMA UnionIsSound ==
  ASSUME NEW g, NEW kind, Sound(g, kind), NEW a \in Ids(g), NEW b \in Ids(g),
         kind[a] = kind[b], kind[a] # "input",
         NEW h, h = Union(g, a, b)
  PROVE  Sound(h, kind) /\ Len(h.uf) = Len(g.uf) /\ Grows(g, kind, h, kind)
<1>1. CASE Find(g, a) = Find(g, b)
  BY <1>1, GrowsReflexive DEF Union
<1>2. CASE Find(g, a) # Find(g, b)
  <2> DEFINE x == Find(g, a)
             y == Find(g, b)
             kept == IF Parents(g, x) < Parents(g, y) THEN y ELSE x
             gone == IF kept = x THEN y ELSE x
             now(id) == IF id = gone THEN kept ELSE id
             image(n) == [cls |-> now(n.cls),
                          en |-> [n.en EXCEPT !.kids = KidsRenamed(@, gone, kept)]]
  <2>1. h = [nodes |-> {image(n) : n \in g.nodes},
             uf |-> [id \in Ids(g) |-> now(g.uf[id])], info |-> g.info]
    BY <1>2 DEF Union
  <2>2. /\ x \in Classes(g) /\ y \in Classes(g) /\ x # y
        /\ kind[x] = kind[a] /\ kind[y] = kind[a]
    BY <1>2 DEF Sound, IsEGraph, IsKinded
  <2>3. \/ kept = x /\ gone = y
        \/ kept = y /\ gone = x
    BY <2>2
  <2> HIDE DEF kept, gone, x, y
  <2>4. kept \in Classes(g) /\ gone \in Classes(g) /\ kept # gone /\ kind[kept] = kind[gone]
        /\ kind[gone] # "input"
    BY <2>2, <2>3
  <2>5. g \in EGraphs /\ Len(g.info) = Len(g.uf) /\ IsFiniteSet(g.nodes)
    BY DEF Sound, IsEGraph
  <2>6. /\ g.nodes \in SUBSET ClassNodes /\ g.uf \in Seq(Nat) /\ g.info \in Seq(Infos)
        /\ Ids(g) = 1 .. Len(g.uf) /\ Len(g.uf) \in Nat
    BY <2>5, EGraphFacts
  <2>7. h.uf = [id \in Ids(g) |-> now(g.uf[id])] /\ h.info = g.info
        /\ h.nodes = {image(n) : n \in g.nodes}
    BY <2>1
  <2>8. /\ \A id \in Ids(g) : now(id) \in Ids(g) /\ now(id) \in Nat /\ kind[now(id)] = kind[id]
        /\ \A id \in Ids(g) : kind[id] = "input" => now(id) = id
        /\ \A id \in Classes(g) : now(id) \in Classes(g) /\ now(id) # gone /\ g.uf[now(id)] = now(id)
        /\ now(kept) = kept
    <3>1. /\ kept \in Ids(g) /\ gone \in Ids(g)
          /\ \A id \in Classes(g) : id \in Ids(g) /\ g.uf[id] = id
      BY <2>4 DEF Classes
    <3>2. \A id \in Ids(g) : id \in Nat
      BY <2>6
    <3>3. \A id : now(id) = IF id = gone THEN kept ELSE id
      OBVIOUS
    <3> HIDE DEF now
    <3>4. \A id \in Ids(g) : now(id) \in Ids(g) /\ now(id) \in Nat /\ kind[now(id)] = kind[id]
      BY <2>4, <3>1, <3>2, <3>3
    <3>5. \A id \in Ids(g) : kind[id] = "input" => now(id) = id
      BY <2>4, <3>3
    <3>6. \A id \in Classes(g) : now(id) \in Classes(g) /\ now(id) # gone
      BY <2>4, <3>3
    <3>7. \A id \in Classes(g) : g.uf[now(id)] = now(id)
      BY <3>1, <3>6
    <3> QED
      BY <2>4, <3>3, <3>4, <3>5, <3>6, <3>7
  <2>9. \A id \in Ids(g) : g.uf[id] \in Classes(g) /\ g.uf[id] \in Ids(g) /\ kind[g.uf[id]] = kind[id]
    BY DEF Sound, IsEGraph, IsKinded, Find, Classes
  <2>10. DOMAIN h.uf = Ids(g) /\ \A id \in Ids(g) : h.uf[id] = now(g.uf[id])
    BY <2>7
  <2> HIDE DEF now
  <2>11. \A id \in Ids(g) : now(g.uf[id]) \in Nat
    BY <2>8, <2>9
  <2>12. h.uf \in Seq(Nat) /\ Len(h.uf) = Len(g.uf)
    BY <2>6, <2>7, <2>11
  <2>13. Ids(h) = Ids(g) /\ \A id \in Ids(g) : Find(h, id) = now(Find(g, id))
    BY <2>10 DEF Ids, Find
  <2>14. \A id \in Classes(g) : now(id) \in Classes(h)
    <3> SUFFICES ASSUME NEW id \in Classes(g) PROVE now(id) \in Classes(h)
      OBVIOUS
    <3>1. now(id) \in Ids(g) /\ g.uf[now(id)] = now(id) /\ now(id) # gone
      BY <2>8 DEF Classes
    <3>2. h.uf[now(id)] = now(now(id))
      BY <2>10, <3>1
    <3>3. now(now(id)) = now(id)
      BY <3>1 DEF now
    <3> QED
      BY <2>13, <3>1, <3>2, <3>3 DEF Classes
  \* The e-nodes.
  <2>15. ASSUME NEW n \in g.nodes
         PROVE  /\ image(n) \in ClassNodes /\ HasParts(image(n).en)
                /\ image(n).cls = now(n.cls) /\ image(n).cls \in Classes(h)
                /\ image(n).en.op = n.en.op /\ image(n).en.text = n.en.text
                /\ DOMAIN image(n).en.kids = DOMAIN n.en.kids
                /\ \A k \in DOMAIN n.en.kids :
                     /\ image(n).en.kids[k] = now(n.en.kids[k]) /\ n.en.kids[k] \in Classes(g)
                     /\ image(n).en.kids[k] \in Classes(h)
    <3>1. /\ n.cls \in Classes(g) /\ HasParts(n.en) /\ n \in ClassNodes
          /\ \A k \in DOMAIN n.en.kids : n.en.kids[k] \in Classes(g)
      BY <2>6 DEF Sound, IsEGraph
    <3>2. /\ n.en \in ENodes /\ n.en.kids \in Seq(Nat) /\ DOMAIN n.en.kids = 1 .. Len(n.en.kids)
      BY <3>1, ClassNodeFacts
    <3> DEFINE ks == KidsRenamed(n.en.kids, gone, kept)
    <3>3. ks = [k \in 1 .. Len(n.en.kids) |-> now(n.en.kids[k])]
      BY <3>2 DEF KidsRenamed, now
    <3>4. \A k \in DOMAIN n.en.kids : now(n.en.kids[k]) \in Nat
      BY <2>8, <3>1 DEF Classes
    <3>5. ks \in Seq(Nat) /\ Len(ks) = Len(n.en.kids) /\ DOMAIN ks = DOMAIN n.en.kids
          /\ \A k \in DOMAIN n.en.kids : ks[k] = now(n.en.kids[k])
      BY <3>2, <3>3, <3>4
    <3> HIDE DEF ks
    <3> DEFINE e == [n.en EXCEPT !.kids = ks]
    <3>6. image(n) = [cls |-> now(n.cls), en |-> e]
      BY DEF ks
    <3>7. e \in ENodes /\ e.op = n.en.op /\ e.text = n.en.text /\ e.data = n.en.data /\ e.kids = ks
      BY <3>2, <3>5 DEF ENodes
    <3> HIDE DEF e
    <3>8. image(n).cls = now(n.cls) /\ image(n).en = e
      BY <3>6
    <3>9. now(n.cls) \in Nat
      BY <2>8, <3>1 DEF Classes
    <3>10. image(n) \in ClassNodes
      BY <3>6, <3>7, <3>9 DEF ClassNodes
    <3> HIDE DEF image
    <3>11. HasParts(e)
      BY <3>1, <3>5, <3>7 DEF HasParts
    <3> QED
      BY <2>14, <3>1, <3>5, <3>7, <3>8, <3>10, <3>11
  <2>16. \A m \in h.nodes : \E n \in g.nodes : m = image(n)
    BY <2>7
  <2>17. h \in EGraphs
    <3>1. h.nodes \in SUBSET ClassNodes
      BY <2>15, <2>16
    <3>2. h = [nodes |-> h.nodes, uf |-> h.uf, info |-> h.info]
      BY <2>1
    <3> QED
      BY <2>6, <2>7, <2>12, <3>1, <3>2 DEF EGraphs
  <2>18. IsFiniteSet(h.nodes)
    <3> DEFINE f == [n \in g.nodes |-> image(n)]
    <3>1. h.nodes = {f[n] : n \in g.nodes} /\ DOMAIN f = g.nodes
      BY <2>7
    <3> HIDE DEF f
    <3> QED
      BY <2>5, <3>1, ImageIsFinite
  <2> HIDE DEF image
  <2>19. IsEGraph(h)
    <3>1. \A id \in Ids(h) : Find(h, id) \in Classes(h)
      BY <2>9, <2>13, <2>14 DEF Find
    <3>2. ASSUME NEW m \in h.nodes
          PROVE  /\ m.cls \in Classes(h) /\ HasParts(m.en)
                 /\ \A k \in DOMAIN m.en.kids : m.en.kids[k] \in Classes(h)
      <4>1. PICK n \in g.nodes : m = image(n)
        BY <2>16
      <4> QED
        BY <2>15, <4>1
    <3> QED
      BY <2>5, <2>7, <2>12, <2>17, <2>18, <3>1, <3>2 DEF IsEGraph
  <2>20. IsKinded(h, kind)
    <3>1. ASSUME NEW id \in Ids(h)
          PROVE  /\ kind[Find(h, id)] = kind[id]
                 /\ kind[id] = "input" => Find(h, id) = id /\ Len(h.info[id].shape) <= 1
                 /\ kind[id] # "typed" => h.info[id].dtype = "U8"
      <4>1. id \in Ids(g) /\ Find(h, id) = now(Find(g, id)) /\ h.info[id] = g.info[id]
        BY <2>7, <2>13
      <4>2. kind[Find(h, id)] = kind[id]
        BY <2>8, <2>9, <4>1 DEF Find
      <4> QED
        BY <2>8, <4>1, <4>2 DEF Sound, IsKinded
    <3>2. ASSUME NEW m \in h.nodes
          PROVE  kind[m.cls] = KindOf(kind, m.en) /\ Fits(kind, m.en)
      <4>1. PICK n \in g.nodes : m = image(n)
        BY <2>16
      <4>2. /\ m.cls = now(n.cls) /\ m.en.op = n.en.op
            /\ DOMAIN m.en.kids = DOMAIN n.en.kids
            /\ \A k \in DOMAIN n.en.kids : m.en.kids[k] = now(n.en.kids[k]) /\ n.en.kids[k] \in Classes(g)
        BY <2>15, <4>1
      <4>3. /\ kind[n.cls] = KindOf(kind, n.en) /\ Fits(kind, n.en)
            /\ n.cls \in Ids(g) /\ HasParts(n.en)
        BY DEF Sound, IsKinded, IsEGraph, Classes
      <4>4. \A k \in DOMAIN n.en.kids : kind[m.en.kids[k]] = kind[n.en.kids[k]]
        BY <2>8, <4>2 DEF Classes
      <4>5. n.en.op = "reshape" => 1 \in DOMAIN n.en.kids
        BY <2>6, <4>3, ClassNodeFacts, ReshapeHasKid
      <4>6. kind[m.cls] = kind[n.cls]
        BY <2>8, <4>2, <4>3
      <4> QED
        BY <4>2, <4>3, <4>4, <4>5, <4>6 DEF KindOf, Fits
    <3>3. ASSUME NEW l \in h.nodes, NEW m \in h.nodes, l.en = m.en, l.en.op = "var"
          PROVE  l.cls = m.cls
      <4>1. PICK i \in g.nodes : l = image(i)
        BY <2>16
      <4>2. PICK j \in g.nodes : m = image(j)
        BY <2>16
      <4>3. i.en.op = "var" /\ j.en.op = "var" /\ i.en.text = j.en.text
        BY <2>15, <3>3, <4>1, <4>2
      <4>4. i.en = j.en
        <5>1. /\ i.en \in ENodes /\ j.en \in ENodes /\ HasParts(i.en) /\ HasParts(j.en)
          BY <2>6, ClassNodeFacts DEF Sound, IsEGraph
        <5>2. Len(i.en.kids) = 0 /\ Len(j.en.kids) = 0
          BY <4>3, <5>1, ArityFacts DEF HasParts, ENodes
        <5>3. i.en.kids = <<>> /\ j.en.kids = <<>>
          BY <5>1, <5>2 DEF ENodes
        <5>4. image(i).en.data = i.en.data /\ image(j).en.data = j.en.data
          BY <5>1 DEF image, ENodes
        <5> QED
          BY <3>3, <4>1, <4>2, <4>3, <5>1, <5>3, <5>4 DEF ENodes
      <4>5. i.cls = j.cls
        BY <4>3, <4>4 DEF Sound, IsKinded
      <4> QED
        BY <2>15, <4>1, <4>2, <4>5
    <3> QED
      BY <2>12, <2>13, <3>1, <3>2, <3>3 DEF Sound, IsKinded
  <2>21. Grows(g, kind, h, kind)
    <3>1. ASSUME NEW m \in h.nodes, m.en.op = "var"
          PROVE  \E n \in g.nodes : n.en.op = "var" /\ n.en.text = m.en.text
      <4>1. PICK n \in g.nodes : m = image(n)
        BY <2>16
      <4> QED
        BY <2>15, <3>1, <4>1
    <3>2. Len(g.uf) <= Len(h.uf) /\ h.info = g.info
      BY <2>6, <2>7, <2>12
    <3> QED
      BY <3>1, <3>2 DEF Grows
  <2> QED
    BY <2>12, <2>19, <2>20, <2>21 DEF Sound
<1> QED
  BY <1>1, <1>2

-----------------------------------------------------------------------------
(* apply_pat: the classes of a right-hand side, one position at a time.    *)

LEMMA MapIsSeq ==
  ASSUME NEW S, NEW n \in Nat, NEW f, f = [k \in 1 .. n |-> f[k]], \A k \in 1 .. n : f[k] \in S
  PROVE  f \in Seq(S) /\ Len(f) = n /\ DOMAIN f = 1 .. n
OBVIOUS

\* Each value of f is made of the one before, as long as that is in X.
Follows(f, n, a, F, X) ==
  /\ f = [k \in 0 .. n |-> f[k]] /\ f[0] = a
  /\ \A k \in 1 .. n : <<k - 1, f[k - 1]>> \in X => f[k] = F[<<k - 1, f[k - 1]>>]

\* The steps from k to k + 1 stay in X.
StaysIn(n, F, X) ==
  \A k \in 1 .. n : \A x : <<k - 1, x>> \in X => <<k, F[<<k - 1, x>>]>> \in X

AllIn(f, n, X) == \A k \in 0 .. n : <<k, f[k]>> \in X

\* An invariant of the steps holds of every value of the function.
LEMMA FollowersStay ==
  ASSUME NEW n \in Nat, NEW a, NEW F, NEW X, <<0, a>> \in X, StaysIn(n, F, X),
         NEW f, Follows(f, n, a, F, X)
  PROVE  AllIn(f, n, X)
<1> DEFINE Bad == {k \in 0 .. n : <<k, f[k]>> \notin X}
<1>1. ASSUME Bad # {} PROVE FALSE
  <2>1. Bad \in SUBSET Nat
    OBVIOUS
  <2> HIDE DEF Bad
  <2>2. PICK k \in Bad : \A j \in Bad : k <= j
    BY <1>1, <2>1, LeastElement
  <2>3. k \in 0 .. n /\ <<k, f[k]>> \notin X
    BY DEF Bad
  <2>4. k # 0
    BY <2>3 DEF Follows
  <2>5. k \in 1 .. n /\ k - 1 \in 0 .. n /\ ~(k <= k - 1)
    BY <2>3, <2>4
  <2>6. <<k - 1, f[k - 1]>> \in X
    BY <2>2, <2>5 DEF Bad
  <2>7. f[k] = F[<<k - 1, f[k - 1]>>]
    BY <2>5, <2>6 DEF Follows
  <2> QED
    BY <2>3, <2>5, <2>6, <2>7 DEF StaysIn
<1> QED
  BY <1>1 DEF AllIn

\* A recursive function over 0 .. n is one that follows its steps: it is
\* there by well-founded recursion, and CHOOSE picks it.
LEMMA FollowersExist ==
  ASSUME NEW n \in Nat, NEW a, NEW F, NEW X, <<0, a>> \in X, StaysIn(n, F, X)
  PROVE  \E f : Follows(f, n, a, F, X) /\ AllIn(f, n, X)
<1> DEFINE Bad == {m \in 0 .. n : ~ \E f : Follows(f, m, a, F, X)}
<1>1. ASSUME Bad # {} PROVE FALSE
  <2>1. Bad \in SUBSET Nat
    OBVIOUS
  <2> HIDE DEF Bad
  <2>2. PICK m \in Bad : \A k \in Bad : m <= k
    BY <1>1, <2>1, LeastElement
  <2>3. m \in 0 .. n /\ ~ \E f : Follows(f, m, a, F, X)
    BY DEF Bad
  <2>4. CASE m = 0
    <3> DEFINE f == [k \in 0 .. 0 |-> a]
    <3>1. f = [k \in 0 .. 0 |-> f[k]] /\ f[0] = a /\ 1 .. 0 = {}
      OBVIOUS
    <3> HIDE DEF f
    <3>2. Follows(f, 0, a, F, X)
      BY <3>1 DEF Follows
    <3> QED
      BY <2>3, <2>4, <3>2
  <2>5. CASE m # 0
    <3>1. m - 1 \in 0 .. n /\ ~(m <= m - 1) /\ m \in 1 .. n /\ m \in Nat
      BY <2>3, <2>5
    <3>2. PICK f : Follows(f, m - 1, a, F, X)
      BY <2>2, <3>1 DEF Bad
    <3> DEFINE h == [k \in 0 .. m |-> IF k = m THEN F[<<m - 1, f[m - 1]>>] ELSE f[k]]
    <3>3. h = [k \in 0 .. m |-> h[k]] /\ h[m] = F[<<m - 1, f[m - 1]>>]
          /\ \A k \in 0 .. m - 1 : h[k] = f[k]
      BY <3>1
    <3> HIDE DEF h
    <3>4. \A k \in 1 .. m : k - 1 \in 0 .. m - 1 /\ (k # m => k \in 0 .. m - 1 /\ k \in 1 .. m - 1)
      BY <3>1
    <3>5. \A k \in 1 .. m : <<k - 1, h[k - 1]>> \in X => h[k] = F[<<k - 1, h[k - 1]>>]
      BY <3>2, <3>3, <3>4 DEF Follows
    <3>6. h[0] = a
      <4>1. 0 \in 0 .. m - 1
        BY <3>1
      <4> QED
        BY <3>2, <3>3, <4>1 DEF Follows
    <3>7. Follows(h, m, a, F, X)
      BY <3>3, <3>5, <3>6 DEF Follows
    <3> QED
      BY <2>3, <3>7
  <2> QED
    BY <2>4, <2>5
<1>2. n \in 0 .. n
  OBVIOUS
<1>3. PICK f : Follows(f, n, a, F, X)
  BY <1>1, <1>2
<1> QED
  BY <1>3, FollowersStay

\* An operation of a pattern has its operands before it, and with its string
\* it is an e-node.
PositionOK(pat, metadata, i) ==
  \/ pat[i].var # ""
  \/ /\ pat[i].var = "" /\ pat[i].op # "var"
     /\ ENode(pat[i].op, metadata[i].text, metadata[i].data, pat[i].kids) \in ENodes
     /\ HasParts(ENode(pat[i].op, metadata[i].text, metadata[i].data, pat[i].kids))
     /\ \A k \in DOMAIN pat[i].kids : pat[i].kids[k] \in 1 .. i - 1

\* After n positions of a pattern.
Applied(g, kind, b, s, n) ==
  /\ s.ids \in Seq(Nat) /\ Len(s.ids) = n
  /\ \E more : /\ Sound(s.eg, more) /\ Grows(g, kind, s.eg, more)
               /\ \A k \in 1 .. n : s.ids[k] \in Ids(s.eg) /\ more[s.ids[k]] = b

\* The position's class is of the kind b.
StaysOf(g, kind, b, pat, subst, i) ==
  /\ pat[i].var # "" => subst[pat[i].var] \in Ids(g) /\ kind[subst[pat[i].var]] = b
  /\ pat[i].var = "" => (b = "raw" => pat[i].op = "reshape")

PatStep(pat, metadata, subst, i, prev) ==
  LET kids == [k \in DOMAIN pat[i].kids |-> prev.ids[pat[i].kids[k]]]
      added == IF pat[i].var # ""
               THEN [eg |-> prev.eg, id |-> subst[pat[i].var]]
               ELSE Add(prev.eg, ENode(pat[i].op, metadata[i].text, metadata[i].data, kids))
  IN  [eg |-> added.eg, ids |-> Append(prev.ids, added.id)]

LEMMA ENodeIs ==
  ASSUME NEW op, NEW text, NEW data, NEW kids
  PROVE  /\ ENode(op, text, data, kids).op = op /\ ENode(op, text, data, kids).text = text
         /\ ENode(op, text, data, kids).data = data /\ ENode(op, text, data, kids).kids = kids
         /\ (ENode(op, text, data, kids) \in ENodes <=>
               op \in TensorOps /\ text \in Texts /\ data \in Seq(Nat) /\ kids \in Seq(Nat))
BY DEF ENode, ENodes

\* A position whose operands have classes gets one of the same kind.
LEMMA PatStepIsApplied ==
  ASSUME NEW g, NEW kind, Sound(g, kind), NEW b \in {"raw", "typed"},
         NEW pat, NEW metadata, NEW subst, NEW i \in Nat \ {0}, PositionOK(pat, metadata, i),
         StaysOf(g, kind, b, pat, subst, i),
         NEW prev, Applied(g, kind, b, prev, i - 1)
  PROVE  Applied(g, kind, b, PatStep(pat, metadata, subst, i, prev), i)
<1> DEFINE s == PatStep(pat, metadata, subst, i, prev)
<1>1. prev.ids \in Seq(Nat) /\ Len(prev.ids) = i - 1
  BY DEF Applied
<1>2. PICK more : /\ Sound(prev.eg, more) /\ Grows(g, kind, prev.eg, more)
                  /\ \A k \in 1 .. i - 1 : prev.ids[k] \in Ids(prev.eg) /\ more[prev.ids[k]] = b
  BY DEF Applied
<1>3. g \in EGraphs /\ prev.eg \in EGraphs
  BY <1>2 DEF Sound, IsEGraph
<1>4. Ids(g) = 1 .. Len(g.uf) /\ Ids(prev.eg) = 1 .. Len(prev.eg.uf)
      /\ Len(g.uf) \in Nat /\ Len(prev.eg.uf) \in Nat
  BY <1>3, EGraphFacts
<1>5. CASE pat[i].var # ""
  <2> DEFINE id == subst[pat[i].var]
  <2>1. s.eg = prev.eg /\ s.ids = Append(prev.ids, id)
    BY <1>5 DEF PatStep
  <2>2. id \in Ids(g) /\ kind[id] = b
    BY <1>5 DEF StaysOf
  <2> HIDE DEF id, s
  <2>3. id \in Ids(prev.eg) /\ more[id] = b /\ id \in Nat
    BY <1>2, <1>4, <2>2 DEF Grows
  <2>4. s.ids \in Seq(Nat) /\ Len(s.ids) = i /\ s.ids[i] = id
        /\ \A k \in 1 .. i - 1 : s.ids[k] = prev.ids[k]
    BY <1>1, <2>1, <2>3, AppendFacts
  <2>5. \A k \in 1 .. i : k = i \/ k \in 1 .. i - 1
    OBVIOUS
  <2>6. \A k \in 1 .. i : s.ids[k] \in Ids(s.eg) /\ more[s.ids[k]] = b
    BY <1>2, <2>1, <2>3, <2>4, <2>5
  <2>7. Applied(g, kind, b, s, i)
    BY <1>2, <2>1, <2>4, <2>6 DEF Applied
  <2> QED
    BY <2>7 DEF s
<1>6. CASE pat[i].var = ""
  <2> DEFINE kids == [k \in DOMAIN pat[i].kids |-> prev.ids[pat[i].kids[k]]]
             en0 == ENode(pat[i].op, metadata[i].text, metadata[i].data, pat[i].kids)
             en == ENode(pat[i].op, metadata[i].text, metadata[i].data, kids)
             a == Add(prev.eg, en)
  <2>1. s.eg = a.eg /\ s.ids = Append(prev.ids, a.id)
    BY <1>6 DEF PatStep
  <2> HIDE DEF s, a
  <2>2. /\ pat[i].op # "var" /\ en0 \in ENodes /\ HasParts(en0)
        /\ \A k \in DOMAIN pat[i].kids : pat[i].kids[k] \in 1 .. i - 1
    BY <1>6 DEF PositionOK
  <2>3. /\ en.op = pat[i].op /\ en.kids = kids /\ en.text = metadata[i].text /\ en.data = metadata[i].data
        /\ en0.op = pat[i].op /\ en0.kids = pat[i].kids /\ en0.text = metadata[i].text
        /\ en0.data = metadata[i].data
    BY ENodeIs
  <2>4. /\ pat[i].op \in TensorOps /\ metadata[i].text \in Texts /\ metadata[i].data \in Seq(Nat)
        /\ pat[i].kids \in Seq(Nat)
    BY <2>2, ENodeIs
  <2>5. \A k \in DOMAIN kids : kids[k] \in Ids(prev.eg) /\ more[kids[k]] = b /\ kids[k] \in Nat
    BY <1>2, <1>4, <2>2
  <2>6. /\ kids \in Seq(Nat) /\ Len(kids) = Len(pat[i].kids) /\ DOMAIN kids = DOMAIN pat[i].kids
    <3>1. kids = [k \in 1 .. Len(pat[i].kids) |-> kids[k]] /\ Len(pat[i].kids) \in Nat
      BY <2>4
    <3>2. DOMAIN kids = 1 .. Len(pat[i].kids) /\ DOMAIN pat[i].kids = 1 .. Len(pat[i].kids)
      BY <2>4
    <3> HIDE DEF kids
    <3>3. \A k \in 1 .. Len(pat[i].kids) : kids[k] \in Nat
      BY <2>5, <3>2
    <3> QED
      BY <3>1, <3>2, <3>3, MapIsSeq
  <2>7. en \in ENodes
    BY <2>4, <2>6, ENodeIs, SMTT(30)
  <2>8. HasParts(en)
    BY <2>2, <2>3, <2>6 DEF HasParts
  <2>9. b = "raw" => en.op = "reshape"
    BY <1>6, <2>3 DEF StaysOf
  <2> HIDE DEF kids, en, en0
  <2>10. Fits(more, en)
    BY <2>3, <2>5, <2>9 DEF Fits
  <2>11. KindOf(more, en) = b
    <3>1. en.op = "reshape" => 1 \in DOMAIN kids
      BY <2>3, <2>7, <2>8, ReshapeHasKid
    <3> QED
      BY <2>2, <2>3, <2>5, <2>9, <3>1 DEF KindOf
  <2>12. PICK most : Added(prev.eg, more, en, a.eg, most, a.id)
    BY <1>2, <2>2, <2>3, <2>5, <2>7, <2>8, <2>10, AddIsSound DEF a
  <2>13. Sound(a.eg, most) /\ Grows(prev.eg, more, a.eg, most) /\ a.id \in Ids(a.eg) /\ most[a.id] = b
    BY <2>11, <2>12 DEF Added
  <2>14. Grows(g, kind, a.eg, most)
    BY <1>2, <2>13, GrowsTransitive
  <2>15. Ids(a.eg) = 1 .. Len(a.eg.uf) /\ Len(a.eg.uf) \in Nat
    BY <2>13, EGraphFacts DEF Sound, IsEGraph
  <2>16. a.id \in Nat
    BY <2>13, <2>15
  <2>17. s.ids \in Seq(Nat) /\ Len(s.ids) = i /\ s.ids[i] = a.id
         /\ \A k \in 1 .. i - 1 : s.ids[k] = prev.ids[k]
    BY <1>1, <2>1, <2>16, AppendFacts
  <2>18. \A k \in 1 .. i : k = i \/ k \in 1 .. i - 1
    OBVIOUS
  <2>19. \A id \in Ids(prev.eg) : id \in Ids(a.eg) /\ most[id] = more[id]
    BY <1>4, <2>13, <2>15 DEF Grows
  <2>20. ASSUME NEW k \in 1 .. i PROVE s.ids[k] \in Ids(s.eg) /\ most[s.ids[k]] = b
    <3>1. CASE k = i
      BY <2>1, <2>13, <2>17, <3>1
    <3>2. CASE k \in 1 .. i - 1
      <4>1. s.ids[k] = prev.ids[k] /\ prev.ids[k] \in Ids(prev.eg) /\ more[prev.ids[k]] = b
        BY <1>2, <2>17, <3>2
      <4> QED
        BY <2>1, <2>19, <4>1
    <3> QED
      BY <2>18, <3>1, <3>2
  <2>21. Applied(g, kind, b, s, i)
    BY <2>1, <2>13, <2>14, <2>17, <2>20 DEF Applied
  <2> QED
    BY <2>21 DEF s
<1> QED
  BY <1>5, <1>6

\* apply_pat returns an e-graph that has grown and a class of kind b.
LEMMA ApplyPatIsApplied ==
  ASSUME NEW g, NEW kind, Sound(g, kind), NEW b \in {"raw", "typed"},
         NEW pat, NEW metadata, NEW subst, Len(pat) \in Nat,
         \A i \in 1 .. Len(pat) :
           PositionOK(pat, metadata, i) /\ StaysOf(g, kind, b, pat, subst, i)
  PROVE  Applied(g, kind, b, ApplyPat(g, pat, metadata, subst), Len(pat))
<1> DEFINE top == Len(pat)
           Body(f) == [i \in 0 .. top |-> IF i = 0 THEN [eg |-> g, ids |-> <<>>]
                                        ELSE PatStep(pat, metadata, subst, i, f[i - 1])]
           upto == CHOOSE f : f = Body(f)
           a == [eg |-> g, ids |-> <<>>]
           S == [eg : EGraphs, ids : Seq(Nat)]
           X == {w \in (0 .. top) \X S : Applied(g, kind, b, w[2], w[1])}
           F == [w \in X |-> PatStep(pat, metadata, subst, w[1] + 1, w[2])]
<1>1. ApplyPat(g, pat, metadata, subst) = upto[top]
  BY DEF ApplyPat, PatStep
<1>2. \A k \in 0 .. top : \A x : Applied(g, kind, b, x, k) /\ x \in S <=> <<k, x>> \in X
  OBVIOUS
<1>3. <<0, a>> \in X
  <2>1. a.eg = g /\ a.ids = <<>> /\ 1 .. 0 = {} /\ 0 \in 0 .. top
    OBVIOUS
  <2>2. a \in S
    BY DEF Sound, IsEGraph
  <2>3. Applied(g, kind, b, a, 0)
    <3> HIDE DEF a
    <3> QED
      BY <2>1, GrowsReflexive DEF Applied
  <2> QED
    BY <1>2, <2>1, <2>2, <2>3
<1>4. ASSUME NEW k \in 1 .. top, NEW x, <<k - 1, x>> \in X
      PROVE  /\ F[<<k - 1, x>>] = PatStep(pat, metadata, subst, k, x)
             /\ <<k, F[<<k - 1, x>>]>> \in X
  <2>1. k - 1 \in 0 .. top /\ k \in 0 .. top /\ k \in Nat \ {0} /\ (k - 1) + 1 = k
    OBVIOUS
  <2>2. Applied(g, kind, b, x, k - 1)
    BY <1>2, <1>4, <2>1
  <2>3. F[<<k - 1, x>>] = PatStep(pat, metadata, subst, k, x)
    BY <1>4, <2>1
  <2> HIDE DEF F, X
  <2>4. Applied(g, kind, b, PatStep(pat, metadata, subst, k, x), k)
    BY <2>1, <2>2, PatStepIsApplied
  <2>5. PatStep(pat, metadata, subst, k, x) \in S
    <3> DEFINE s == PatStep(pat, metadata, subst, k, x)
    <3>1. s = [eg |-> s.eg, ids |-> s.ids]
      BY DEF PatStep
    <3> HIDE DEF s
    <3>2. s.eg \in EGraphs /\ s.ids \in Seq(Nat)
      BY <2>4 DEF Applied, Sound, IsEGraph, s
    <3>3. s \in S
      BY <3>1, <3>2
    <3> QED
      BY <3>3 DEF s
  <2> QED
    BY <1>2, <2>1, <2>3, <2>4, <2>5
<1> HIDE DEF F, X
<1>5. StaysIn(top, F, X)
  BY <1>4 DEF StaysIn
<1>6. PICK f : Follows(f, top, a, F, X) /\ AllIn(f, top, X)
  <2> HIDE DEF a, top
  <2> QED
    BY <1>3, <1>5, FollowersExist DEF top
<1>7. \A k \in 1 .. top : k \in 0 .. top /\ k - 1 \in 0 .. top /\ k # 0
  OBVIOUS
<1>8. f = Body(f)
  <2>1. ASSUME NEW k \in 0 .. top
        PROVE  f[k] = IF k = 0 THEN a ELSE PatStep(pat, metadata, subst, k, f[k - 1])
    <3>1. k = 0 \/ k \in 1 .. top
      OBVIOUS
    <3>2. ASSUME k \in 1 .. top PROVE f[k] = PatStep(pat, metadata, subst, k, f[k - 1])
      BY <1>4, <1>6, <1>7, <3>2 DEF Follows, AllIn
    <3> QED
      BY <1>6, <1>7, <3>1, <3>2 DEF Follows
  <2> QED
    BY <1>6, <2>1 DEF Follows
<1>9. upto = Body(upto)
  <2> HIDE DEF Body
  <2> QED
    BY <1>8
<1> HIDE DEF upto
<1>10. Follows(upto, top, a, F, X)
  <2>1. upto = [k \in 0 .. top |-> upto[k]] /\ upto[0] = a
    BY <1>9
  <2>2. \A k \in 1 .. top : upto[k] = PatStep(pat, metadata, subst, k, upto[k - 1])
    BY <1>7, <1>9
  <2> QED
    BY <1>4, <2>1, <2>2 DEF Follows
<1>11. AllIn(upto, top, X)
  <2> HIDE DEF a, top
  <2> QED
    BY <1>3, <1>5, <1>10, FollowersStay DEF top
<1>12. <<top, upto[top]>> \in X /\ top \in 0 .. top
  BY <1>11 DEF AllIn
<1> QED
  BY <1>1, <1>2, <1>12

-----------------------------------------------------------------------------
(* The matches of a left-hand side: their classes are all typed or all bytes.*)

\* What a match holds.
Matches == [ids : Seq(Nat), ens : Seq(ENodes \cup {NoENode})]

\* All of a match's n classes are typed, or none is.
Uniform(g, kind, m, n, c) ==
  /\ m \in Matches /\ Len(m.ids) = n /\ Len(m.ens) = n
  /\ \A i \in 1 .. n : m.ids[i] \in Classes(g) /\ (kind[m.ids[i]] = "typed" <=> kind[c] = "typed")

MatchOK(g, kind, p, n, m, c) ==
  /\ Uniform(g, kind, m, n, c) /\ m.ids[n] = c
  /\ p.var = "" => /\ p.op # "reshape" => kind[c] = "typed"
                   /\ m.ens[n] \in ENodes /\ HasParts(m.ens[n]) /\ m.ens[n].op = p.op

Found(g, kind, p, n, found) ==
  /\ found \in [Classes(g) -> SUBSET Matches]
  /\ \A c \in Classes(g) :
       IsFiniteSet(found[c]) /\ \A m \in found[c] : MatchOK(g, kind, p, n, m, c)

KidsSize(pat, size, j) ==
  IF Len(pat[j].kids) = 1 THEN size[pat[j].kids[1]]
  ELSE size[pat[j].kids[1]] + size[pat[j].kids[2]]

\* size[j] classes match the part of the pattern that ends at position j.
PartOK(pat, size, j) ==
  /\ size[j] \in Nat \ {0}
  /\ \/ pat[j].var # "" /\ size[j] = 1
     \/ /\ pat[j].var = "" /\ pat[j].op \in TensorOps \ {"var", "bitcvt"}
        /\ Len(pat[j].kids) = NumChildren(pat[j].op)
        /\ \/ /\ Len(pat[j].kids) = 1 /\ DOMAIN pat[j].kids = {1} /\ pat[j].kids[1] \in 1 .. j - 1
           \/ /\ Len(pat[j].kids) = 2 /\ DOMAIN pat[j].kids = {1, 2}
              /\ pat[j].kids[1] \in 1 .. j - 1 /\ pat[j].kids[2] \in 1 .. j - 1
        /\ size[j] = KidsSize(pat, size, j) + 1

\* All e-nodes of a match are on classes of one kind: only a bitcvt starts
\* from bytes and ends with a type, and no left-hand side goes through one.
LEMMA NodeKind ==
  ASSUME NEW g, NEW kind, Sound(g, kind), NEW n \in g.nodes, n.en.op \notin {"var", "bitcvt"}
  PROVE  /\ n.en \in ENodes /\ HasParts(n.en) /\ n.cls \in Classes(g)
         /\ \A k \in DOMAIN n.en.kids :
              n.en.kids[k] \in Classes(g) /\ (kind[n.en.kids[k]] = "typed" <=> kind[n.cls] = "typed")
         /\ n.en.op # "reshape" => kind[n.cls] = "typed"
<1>1. /\ n.cls \in Classes(g) /\ HasParts(n.en)
      /\ \A k \in DOMAIN n.en.kids : n.en.kids[k] \in Classes(g)
      /\ kind[n.cls] = KindOf(kind, n.en) /\ Fits(kind, n.en)
  BY DEF Sound, IsEGraph, IsKinded
<1>2. n.en \in ENodes
  BY EGraphFacts, ClassNodeFacts DEF Sound, IsEGraph
<1>3. n.en.op = "reshape" => DOMAIN n.en.kids = {1}
  BY <1>1, <1>2, ReshapeHasKid
<1>4. n.en.op # "reshape" => kind[n.cls] = "typed"
  BY <1>1 DEF KindOf
<1>5. ASSUME NEW k \in DOMAIN n.en.kids PROVE kind[n.en.kids[k]] = "typed" <=> kind[n.cls] = "typed"
  <2>1. CASE n.en.op = "reshape"
    BY <1>1, <1>3, <2>1 DEF KindOf
  <2>2. CASE n.en.op # "reshape"
    BY <1>1, <1>4, <2>2 DEF Fits
  <2> QED
    BY <2>1, <2>2
<1> QED
  BY <1>1, <1>2, <1>4, <1>5

LEMMA ConcatFacts ==
  ASSUME NEW S, NEW s \in Seq(S), NEW t \in Seq(S)
  PROVE  /\ s \o t \in Seq(S) /\ Len(s \o t) = Len(s) + Len(t)
         /\ \A k \in 1 .. Len(s) : (s \o t)[k] = s[k]
         /\ \A k \in 1 .. Len(t) : (s \o t)[Len(s) + k] = t[k]
         /\ \A k \in 1 .. Len(s \o t) : k \in 1 .. Len(s) \/ \E j \in 1 .. Len(t) : k = Len(s) + j
<1>1. s \o t \in Seq(S) /\ Len(s \o t) = Len(s) + Len(t) /\ Len(s) \in Nat /\ Len(t) \in Nat
  OBVIOUS
<1>2. \A k \in 1 .. Len(s) : (s \o t)[k] = s[k]
  OBVIOUS
<1>3. \A k \in 1 .. Len(t) : (s \o t)[Len(s) + k] = t[k]
  OBVIOUS
<1>4. ASSUME NEW k \in 1 .. Len(s \o t), k \notin 1 .. Len(s)
      PROVE  \E j \in 1 .. Len(t) : k = Len(s) + j
  <2>1. k - Len(s) \in 1 .. Len(t) /\ k = Len(s) + (k - Len(s))
    BY <1>1, <1>4
  <2> QED
    BY <2>1
<1> QED
  BY <1>1, <1>2, <1>3, <1>4

LEMMA MatchFacts ==
  ASSUME NEW ids \in Seq(Nat), NEW ens \in Seq(ENodes \cup {NoENode})
  PROVE  Match(ids, ens) \in Matches /\ Match(ids, ens).ids = ids /\ Match(ids, ens).ens = ens
BY DEF Match, Matches

LEMMA ClassesAreNumbers ==
  ASSUME NEW g, NEW kind, Sound(g, kind)
  PROVE  /\ Classes(g) \subseteq Nat /\ Classes(g) \subseteq Ids(g)
         /\ \A c \in Classes(g) : Find(g, c) = c
<1>1. Ids(g) \subseteq Nat
  BY EGraphFacts DEF Sound, IsEGraph
<1> QED
  BY <1>1 DEF Classes, Find

\* A match of the operands together.
LEMMA JoinedIsUniform ==
  ASSUME NEW g, NEW kind, Sound(g, kind), NEW c, NEW n1 \in Nat, NEW n2 \in Nat, NEW v1, NEW v2,
         Uniform(g, kind, v1, n1, c), Uniform(g, kind, v2, n2, c)
  PROVE  Uniform(g, kind, Match(v1.ids \o v2.ids, v1.ens \o v2.ens), n1 + n2, c)
<1> DEFINE ids == v1.ids \o v2.ids
           ens == v1.ens \o v2.ens
<1>1. /\ v1.ids \in Seq(Nat) /\ v2.ids \in Seq(Nat) /\ Len(v1.ids) = n1 /\ Len(v2.ids) = n2
      /\ v1.ens \in Seq(ENodes \cup {NoENode}) /\ v2.ens \in Seq(ENodes \cup {NoENode})
      /\ Len(v1.ens) = n1 /\ Len(v2.ens) = n2
  BY DEF Uniform, Matches
<1>2. /\ ids \in Seq(Nat) /\ ens \in Seq(ENodes \cup {NoENode}) /\ Len(ids) = n1 + n2 /\ Len(ens) = n1 + n2
      /\ \A k \in 1 .. n1 : ids[k] = v1.ids[k]
      /\ \A k \in 1 .. n2 : ids[n1 + k] = v2.ids[k]
      /\ \A k \in 1 .. n1 + n2 : k \in 1 .. n1 \/ \E j \in 1 .. n2 : k = n1 + j
  <2> DEFINE s == v1.ids
             t == v2.ids
             u == v1.ens
             w == v2.ens
  <2>1. /\ s \in Seq(Nat) /\ t \in Seq(Nat) /\ Len(s) = n1 /\ Len(t) = n2
        /\ u \in Seq(ENodes \cup {NoENode}) /\ w \in Seq(ENodes \cup {NoENode})
        /\ Len(u) = n1 /\ Len(w) = n2 /\ ids = s \o t /\ ens = u \o w
    BY <1>1
  <2> HIDE DEF s, t, u, w, ids, ens
  <2>2. /\ s \o t \in Seq(Nat) /\ Len(s \o t) = Len(s) + Len(t)
        /\ \A k \in 1 .. Len(s) : (s \o t)[k] = s[k]
        /\ \A k \in 1 .. Len(t) : (s \o t)[Len(s) + k] = t[k]
        /\ \A k \in 1 .. Len(s \o t) : k \in 1 .. Len(s) \/ \E j \in 1 .. Len(t) : k = Len(s) + j
    BY <2>1, ConcatFacts, ZenonT(40)
  <2>3. /\ u \o w \in Seq(ENodes \cup {NoENode}) /\ Len(u \o w) = Len(u) + Len(w)
    BY <2>1, ConcatFacts
  <2> QED
    BY <2>1, <2>2, <2>3, ZenonT(40) DEF s, t
<1>3. ASSUME NEW k \in 1 .. n1 + n2
      PROVE  ids[k] \in Classes(g) /\ (kind[ids[k]] = "typed" <=> kind[c] = "typed")
  <2>1. k \in 1 .. n1 \/ \E j \in 1 .. n2 : k = n1 + j
    BY <1>2
  <2>2. CASE k \in 1 .. n1
    <3>1. ids[k] = v1.ids[k]
      BY <1>2, <2>2
    <3> QED
      BY <2>2, <3>1 DEF Uniform
  <2>3. ASSUME NEW j \in 1 .. n2, k = n1 + j
        PROVE  ids[k] \in Classes(g) /\ (kind[ids[k]] = "typed" <=> kind[c] = "typed")
    <3>1. ids[k] = v2.ids[j]
      BY <1>2, <2>3
    <3> QED
      BY <3>1 DEF Uniform
  <2> QED
    BY <2>1, <2>2, <2>3
<1> HIDE DEF ids, ens
<1>4. Match(ids, ens) \in Matches /\ Match(ids, ens).ids = ids /\ Match(ids, ens).ens = ens
  BY <1>2, MatchFacts
<1>5. Uniform(g, kind, Match(ids, ens), n1 + n2, c)
  BY <1>2, <1>3, <1>4 DEF Uniform
<1> QED
  BY <1>5 DEF ids, ens

\* A match of an operand has the kind of the class above it.
LEMMA UniformOfKid ==
  ASSUME NEW g, NEW kind, NEW m, NEW n, NEW c, NEW kid, Uniform(g, kind, m, n, kid),
         kind[kid] = "typed" <=> kind[c] = "typed"
  PROVE  Uniform(g, kind, m, n, c)
BY DEF Uniform

\* The matches of an e-node's kids.
KidMatches(p, of, en) ==
  IF Len(p.kids) = 1 THEN of[1][en.kids[1]]
  ELSE {Match(v[1].ids \o v[2].ids, v[1].ens \o v[2].ens) :
          v \in of[1][en.kids[1]] \X of[2][en.kids[2]]}

IsSum(n, l, n1, n2) ==
  n1 \in Nat /\ (l = 1 => n = n1) /\ (l = 2 => n2 \in Nat /\ n = n1 + n2)

LEMMA KidMatchesFacts ==
  ASSUME NEW g, NEW kind, Sound(g, kind), NEW p, NEW of, NEW p1, NEW p2, NEW n, NEW n1, NEW n2,
         IsSum(n, Len(p.kids), n1, n2),
         NEW node \in g.nodes, node.en.op \notin {"var", "bitcvt"},
         Len(p.kids) \in {1, 2}, Len(p.kids) = Len(node.en.kids),
         Found(g, kind, p1, n1, of[1]), Len(p.kids) = 2 => Found(g, kind, p2, n2, of[2])
  PROVE  /\ IsFiniteSet(KidMatches(p, of, node.en))
         /\ \A m \in KidMatches(p, of, node.en) :
              Uniform(g, kind, m, n, node.cls)
<1> DEFINE en == node.en
           c == node.cls
<1>1. /\ en \in ENodes
      /\ \A k \in DOMAIN en.kids :
           en.kids[k] \in Classes(g) /\ (kind[en.kids[k]] = "typed" <=> kind[c] = "typed")
  BY NodeKind
<1>2. DOMAIN en.kids = 1 .. Len(en.kids)
  BY <1>1 DEF ENodes
<1> HIDE DEF en, c
<1>3. /\ en.kids[1] \in Classes(g) /\ (kind[en.kids[1]] = "typed" <=> kind[c] = "typed")
      /\ Len(p.kids) = 2 => en.kids[2] \in Classes(g) /\ (kind[en.kids[2]] = "typed" <=> kind[c] = "typed")
  BY <1>1, <1>2 DEF en
<1>4. /\ IsFiniteSet(of[1][en.kids[1]])
      /\ \A m \in of[1][en.kids[1]] : Uniform(g, kind, m, n1, c)
  <2>1. /\ IsFiniteSet(of[1][en.kids[1]])
        /\ \A m \in of[1][en.kids[1]] : Uniform(g, kind, m, n1, en.kids[1])
    BY <1>3 DEF Found, MatchOK
  <2> QED
    BY <1>3, <2>1, UniformOfKid
<1>5. CASE Len(p.kids) = 1
  BY <1>4, <1>5 DEF KidMatches, en, c, IsSum
<1>6. CASE Len(p.kids) = 2
  <2>1. /\ IsFiniteSet(of[2][en.kids[2]])
        /\ \A m \in of[2][en.kids[2]] : Uniform(g, kind, m, n2, c)
    <3>1. /\ IsFiniteSet(of[2][en.kids[2]])
          /\ \A m \in of[2][en.kids[2]] : Uniform(g, kind, m, n2, en.kids[2])
      BY <1>3, <1>6 DEF Found, MatchOK
    <3> QED
      BY <1>3, <1>6, <3>1, UniformOfKid
  <2> DEFINE A == of[1][en.kids[1]]
             B == of[2][en.kids[2]]
             f == [v \in A \X B |-> Match(v[1].ids \o v[2].ids, v[1].ens \o v[2].ens)]
  <2>2. KidMatches(p, of, en) = {f[v] : v \in A \X B}
    <3>1. {f[v] : v \in A \X B} = {Match(v[1].ids \o v[2].ids, v[1].ens \o v[2].ens) : v \in A \X B}
      OBVIOUS
    <3>2. Len(p.kids) # 1
      BY <1>6
    <3> HIDE DEF f
    <3> QED
      BY <3>1, <3>2, Zenon DEF KidMatches
  <2>3. IsFiniteSet(A \X B)
    BY <1>4, <2>1, FS_Product
  <2>4. DOMAIN f = A \X B
    OBVIOUS
  <2>5. ASSUME NEW v \in A \X B PROVE Uniform(g, kind, f[v], n, c)
    <3>1. v[1] \in A /\ v[2] \in B /\ f[v] = Match(v[1].ids \o v[2].ids, v[1].ens \o v[2].ens)
      OBVIOUS
    <3> HIDE DEF f
    <3>2. Uniform(g, kind, v[1], n1, c) /\ Uniform(g, kind, v[2], n2, c)
      BY <1>4, <2>1, <3>1
    <3>3. n1 \in Nat /\ n2 \in Nat /\ n = n1 + n2
      BY <1>6 DEF IsSum
    <3> QED
      BY <3>1, <3>2, <3>3, JoinedIsUniform
  <2> HIDE DEF f, A, B
  <2>6. IsFiniteSet({f[v] : v \in A \X B})
    BY <2>3, <2>4, ImageIsFinite
  <2> QED
    BY <1>6, <2>2, <2>5, <2>6 DEF en, c
<1> QED
  BY <1>5, <1>6

\* A match of the operands and the class and the e-node on top of it.
LEMMA MatchOnTop ==
  ASSUME NEW g, NEW kind, Sound(g, kind), NEW p, NEW n \in Nat, NEW node \in g.nodes,
         node.en.op \notin {"var", "bitcvt"}, node.en.op = p.op,
         NEW m, Uniform(g, kind, m, n, node.cls)
  PROVE  MatchOK(g, kind, p, n + 1, Match(Append(m.ids, node.cls), Append(m.ens, node.en)), node.cls)
<1> DEFINE c == node.cls
           en == node.en
           ids == Append(m.ids, c)
           ens == Append(m.ens, en)
<1>1. /\ en \in ENodes /\ HasParts(en) /\ c \in Classes(g) /\ c \in Nat
      /\ en.op # "reshape" => kind[c] = "typed"
  BY NodeKind, ClassesAreNumbers
<1>2. /\ m.ids \in Seq(Nat) /\ m.ens \in Seq(ENodes \cup {NoENode}) /\ Len(m.ids) = n /\ Len(m.ens) = n
  BY DEF Uniform, Matches
<1> HIDE DEF c, en
<1>3. ids \in Seq(Nat) /\ Len(ids) = n + 1 /\ ids[n + 1] = c /\ \A k \in 1 .. n : ids[k] = m.ids[k]
  BY <1>1, <1>2, AppendFacts
<1>4. ens \in Seq(ENodes \cup {NoENode}) /\ Len(ens) = n + 1 /\ ens[n + 1] = en
  BY <1>1, <1>2, AppendFacts
<1> HIDE DEF ids, ens
<1>5. Match(ids, ens) \in Matches /\ Match(ids, ens).ids = ids /\ Match(ids, ens).ens = ens
  BY <1>3, <1>4, MatchFacts
<1>6. ASSUME NEW k \in 1 .. n + 1
      PROVE  ids[k] \in Classes(g) /\ (kind[ids[k]] = "typed" <=> kind[c] = "typed")
  <2>1. CASE k = n + 1
    BY <1>1, <1>3, <2>1
  <2>2. CASE k \in 1 .. n
    BY <1>3, <2>2 DEF Uniform, c
  <2> QED
    BY <2>1, <2>2
<1>7. Uniform(g, kind, Match(ids, ens), n + 1, c)
  BY <1>3, <1>4, <1>5, <1>6 DEF Uniform
<1>8. en.op = p.op
  BY DEF en
<1>9. MatchOK(g, kind, p, n + 1, Match(ids, ens), c)
  BY <1>1, <1>3, <1>4, <1>5, <1>7, <1>8 DEF MatchOK
<1> QED
  BY <1>9 DEF ids, ens, c, en

LEMMA MatchIsMatch ==
  ASSUME NEW g, NEW kind, NEW p, NEW n, NEW m, NEW c, MatchOK(g, kind, p, n, m, c)
  PROVE  m \in Matches
BY DEF MatchOK, Uniform

LEMMA SumIsNat ==
  ASSUME NEW n, NEW l \in {1, 2}, NEW n1, NEW n2, IsSum(n, l, n1, n2)
  PROVE  n \in Nat
BY DEF IsSum

LEMMA KidsSizeIsSum ==
  ASSUME NEW pat, NEW size, NEW j, Len(pat[j].kids) = 2
  PROVE  KidsSize(pat, size, j) = size[pat[j].kids[1]] + size[pat[j].kids[2]]
<1>1. Len(pat[j].kids) # 1
  OBVIOUS
<1> QED
  BY <1>1, Zenon DEF KidsSize

KidsFound(g, kind, pat, size, kids, of) ==
  \A k \in DOMAIN kids :
    size[kids[k]] \in Nat /\ Found(g, kind, pat[kids[k]], size[kids[k]], of[k])

\* One level of a pattern is found in every class of the e-graph.
LEMMA ExtendedIsFound ==
  ASSUME NEW g, NEW kind, Sound(g, kind), NEW pat, NEW size, NEW j \in Nat, PartOK(pat, size, j),
         pat[j].var = "", NEW of, KidsFound(g, kind, pat, size, pat[j].kids, of),
         NEW c \in Classes(g)
  PROVE  /\ IsFiniteSet(Extended(g, pat[j], c, of))
         /\ \A m \in Extended(g, pat[j], c, of) : MatchOK(g, kind, pat[j], size[j], m, c)
<1> DEFINE p == pat[j]
           n1 == size[p.kids[1]]
           n2 == size[p.kids[2]]
           n == KidsSize(pat, size, j)
           mine == {m \in g.nodes : m.cls = c /\ m.en.op = p.op}
           on(node) == {Match(Append(m.ids, c), Append(m.ens, node.en)) : m \in KidMatches(p, of, node.en)}
           f == [node \in mine |-> on(node)]
<1>1. /\ p.op \in TensorOps \ {"var", "bitcvt"} /\ Len(p.kids) = NumChildren(p.op)
      /\ Len(p.kids) \in {1, 2} /\ 1 \in DOMAIN p.kids /\ (Len(p.kids) = 2 => 2 \in DOMAIN p.kids)
      /\ IsSum(n, Len(p.kids), n1, n2) /\ n \in Nat /\ size[j] = n + 1
  <2>1. \/ Len(p.kids) = 1 /\ DOMAIN p.kids = {1}
        \/ Len(p.kids) = 2 /\ DOMAIN p.kids = {1, 2}
    BY DEF PartOK
  <2>2. 1 \in DOMAIN p.kids /\ (Len(p.kids) = 2 => 2 \in DOMAIN p.kids) /\ Len(p.kids) \in {1, 2}
    BY <2>1
  <2>3. n1 \in Nat /\ (Len(p.kids) = 2 => n2 \in Nat)
    BY <2>2 DEF KidsFound
  <2>4. /\ Len(p.kids) = 1 => n = n1
        /\ Len(p.kids) = 2 => n = n1 + n2
    <3>1. Len(p.kids) = 1 => n = n1
      BY Zenon DEF KidsSize
    <3>2. Len(p.kids) = 2 => n = n1 + n2
      BY KidsSizeIsSum, Zenon
    <3> QED
      BY <3>1, <3>2
  <2>6. size[j] = n + 1
    BY DEF PartOK
  <2>7. IsSum(n, Len(p.kids), n1, n2)
    <3> HIDE DEF n, n1, n2, p
    <3> QED
      BY <2>3, <2>4 DEF IsSum
  <2>8. n \in Nat
    <3> HIDE DEF n, n1, n2, p
    <3> QED
      BY <2>2, <2>7, SumIsNat
  <2>5. p.op \in TensorOps \ {"var", "bitcvt"} /\ Len(p.kids) = NumChildren(p.op)
    BY DEF PartOK
  <2> QED
    BY <2>2, <2>5, <2>6, <2>7, <2>8
<1>2. /\ Found(g, kind, pat[p.kids[1]], n1, of[1])
      /\ Len(p.kids) = 2 => Found(g, kind, pat[p.kids[2]], n2, of[2])
  BY <1>1 DEF KidsFound
<1>3. Find(g, c) = c
  BY ClassesAreNumbers
<1>4. Extended(g, p, c, of) = UNION {f[node] : node \in mine}
  <2> DEFINE with(en) == {Match(Append(m.ids, c), Append(m.ens, en)) : m \in KidMatches(p, of, en)}
             fits == {e \in NodesOf(g, c) : e.op = p.op}
  <2>1. fits = {node.en : node \in mine}
    BY <1>3 DEF NodesOf
  <2>2. Extended(g, p, c, of) = UNION {with(en) : en \in fits}
    BY DEF Extended, KidMatches
  <2>3. \A node \in mine : f[node] = with(node.en)
    OBVIOUS
  <2> HIDE DEF with, fits, f, mine
  <2>4. ASSUME NEW x, x \in UNION {with(en) : en \in fits}
        PROVE  x \in UNION {f[node] : node \in mine}
    <3>1. PICK en \in fits : x \in with(en)
      BY <2>4
    <3>2. PICK node \in mine : en = node.en
      BY <2>1, <3>1
    <3> QED
      BY <2>3, <3>1, <3>2
  <2>5. ASSUME NEW x, x \in UNION {f[node] : node \in mine}
        PROVE  x \in UNION {with(en) : en \in fits}
    <3>1. PICK node \in mine : x \in f[node]
      BY <2>5
    <3>2. node.en \in fits
      BY <2>1
    <3> QED
      BY <2>3, <3>1, <3>2
  <2> QED
    BY <2>2, <2>4, <2>5
<1> HIDE DEF n, n1, n2, p
<1>5. ASSUME NEW node \in mine
      PROVE  /\ IsFiniteSet(f[node])
             /\ \A m \in f[node] : MatchOK(g, kind, p, size[j], m, c)
  <2>1. node \in g.nodes /\ node.cls = c /\ node.en.op = p.op /\ f[node] = on(node)
    OBVIOUS
  <2>2. Len(p.kids) = Len(node.en.kids)
    BY <1>1, <2>1 DEF Sound, IsEGraph, HasParts
  <2>3. /\ IsFiniteSet(KidMatches(p, of, node.en))
        /\ \A m \in KidMatches(p, of, node.en) : Uniform(g, kind, m, n, c)
    BY <1>1, <1>2, <2>1, <2>2, KidMatchesFacts
  <2> DEFINE K == KidMatches(p, of, node.en)
             h == [m \in K |-> Match(Append(m.ids, c), Append(m.ens, node.en))]
  <2>4. on(node) = {h[m] : m \in K} /\ DOMAIN h = K
    OBVIOUS
  <2>5. ASSUME NEW m \in K PROVE MatchOK(g, kind, p, size[j], h[m], c)
    <3>1. h[m] = Match(Append(m.ids, c), Append(m.ens, node.en))
      OBVIOUS
    <3>2. Uniform(g, kind, m, n, node.cls)
      BY <2>1, <2>3
    <3>3. node.en.op \notin {"var", "bitcvt"}
      BY <1>1, <2>1
    <3> HIDE DEF h, K
    <3>4. MatchOK(g, kind, p, n + 1, Match(Append(m.ids, node.cls), Append(m.ens, node.en)), node.cls)
      BY <1>1, <2>1, <3>2, <3>3, MatchOnTop
    <3> QED
      BY <1>1, <2>1, <3>1, <3>4
  <2>6. IsFiniteSet(K) /\ DOMAIN h = K
    BY <2>3
  <2> HIDE DEF h, K, on
  <2>7. IsFiniteSet({h[m] : m \in K})
    BY <2>6, ImageIsFinite, ZenonT(40)
  <2> QED
    BY <2>1, <2>4, <2>5, <2>7
<1>6. IsFiniteSet(mine)
  <2>1. IsFiniteSet(g.nodes) /\ mine \subseteq g.nodes
    BY DEF Sound, IsEGraph
  <2> HIDE DEF mine
  <2> QED
    BY <2>1, FS_Subset
<1>7. DOMAIN f = mine
  OBVIOUS
<1> HIDE DEF f, mine
<1>8. IsFiniteSet({f[node] : node \in mine})
  BY <1>6, <1>7, ImageIsFinite
<1>9. IsFiniteSet(UNION {f[node] : node \in mine})
  BY <1>5, <1>8, FS_UNION
<1>10. \A m \in Extended(g, p, c, of) : MatchOK(g, kind, p, size[j], m, c)
  BY <1>4, <1>5
<1>11. IsFiniteSet(Extended(g, p, c, of))
  BY <1>4, <1>9
<1> QED
  BY <1>10, <1>11 DEF p

LhsOK(pat, size) == \A j \in 1 .. Len(pat) : PartOK(pat, size, j)

\* The matches of one more position, by class.
Matched(g, pat, prev, i) ==
  [id \in Classes(g) |->
     IF pat[i].var # "" THEN {Match(<<id>>, <<NoENode>>)}
     ELSE Extended(g, pat[i], id, [k \in DOMAIN pat[i].kids |-> prev[pat[i].kids[k]]])]

AllFound(g, kind, pat, size, s, n) ==
  /\ s \in Seq([Classes(g) -> SUBSET Matches]) /\ Len(s) = n
  /\ \A j \in 1 .. n : Found(g, kind, pat[j], size[j], s[j])

\* The same, with the matches of the positions before it.
LEMMA MatchedIsFound ==
  ASSUME NEW g, NEW kind, Sound(g, kind), NEW pat, NEW size, NEW i \in Nat \ {0},
         \A j \in 1 .. i : PartOK(pat, size, j),
         NEW prev, AllFound(g, kind, pat, size, prev, i - 1)
  PROVE  Found(g, kind, pat[i], size[i], Matched(g, pat, prev, i))
<1> DEFINE M == Matched(g, pat, prev, i)
<1>1. i \in 1 .. i /\ i \in Nat
  OBVIOUS
<1>2. PartOK(pat, size, i)
  BY <1>1
<1>3. ASSUME NEW c \in Classes(g)
      PROVE  /\ M[c] \in SUBSET Matches /\ IsFiniteSet(M[c])
             /\ \A m \in M[c] : MatchOK(g, kind, pat[i], size[i], m, c)
  <2>1. CASE pat[i].var # ""
    <3> DEFINE m == Match(<<c>>, <<NoENode>>)
    <3>1. M[c] = {m}
      BY <2>1 DEF Matched
    <3>2. c \in Nat
      BY ClassesAreNumbers
    <3>3. <<c>> \in Seq(Nat) /\ <<NoENode>> \in Seq(ENodes \cup {NoENode}) /\ Len(<<c>>) = 1
          /\ Len(<<NoENode>>) = 1 /\ <<c>>[1] = c
      <4> HIDE DEF M
      <4> QED
        BY <3>2
    <3>4. m \in Matches /\ m.ids = <<c>> /\ m.ens = <<NoENode>>
      BY <3>3, MatchFacts
    <3>5. size[i] = 1
      BY <1>2, <2>1 DEF PartOK
    <3> HIDE DEF m, M
    <3>6. \A k \in 1 .. 1 : k = 1
      OBVIOUS
    <3>7. Uniform(g, kind, m, 1, c)
      BY <3>3, <3>4, <3>6 DEF Uniform
    <3>8. MatchOK(g, kind, pat[i], size[i], m, c)
      BY <2>1, <3>3, <3>4, <3>5, <3>7 DEF MatchOK
    <3>9. IsFiniteSet({m})
      BY FS_Singleton
    <3> QED
      BY <3>1, <3>4, <3>8, <3>9
  <2>2. CASE pat[i].var = ""
    <3> DEFINE of == [k \in DOMAIN pat[i].kids |-> prev[pat[i].kids[k]]]
    <3>1. M[c] = Extended(g, pat[i], c, of)
      BY <2>2 DEF Matched
    <3>2. \A k \in DOMAIN pat[i].kids : pat[i].kids[k] \in 1 .. i - 1
      BY <1>2, <2>2 DEF PartOK
    <3>3. \A j \in 1 .. i - 1 : j \in 1 .. i
      OBVIOUS
    <3>4. \A k \in DOMAIN pat[i].kids : size[pat[i].kids[k]] \in Nat
      BY <3>2, <3>3 DEF PartOK
    <3>5. \A k \in DOMAIN pat[i].kids :
            Found(g, kind, pat[pat[i].kids[k]], size[pat[i].kids[k]], of[k])
      BY <3>2 DEF AllFound
    <3> HIDE DEF of, M
    <3>6. KidsFound(g, kind, pat, size, pat[i].kids, of)
      BY <3>4, <3>5 DEF KidsFound
    <3>7. /\ IsFiniteSet(Extended(g, pat[i], c, of))
          /\ \A m \in Extended(g, pat[i], c, of) : MatchOK(g, kind, pat[i], size[i], m, c)
      BY <1>1, <1>2, <2>2, <3>6, ExtendedIsFound
    <3> QED
      BY <3>1, <3>7, MatchIsMatch
  <2> QED
    BY <2>1, <2>2
<1>4. M = [c \in Classes(g) |-> M[c]]
  BY DEF Matched
<1> HIDE DEF M
<1>5. M \in [Classes(g) -> SUBSET Matches]
  BY <1>3, <1>4
<1>6. Found(g, kind, pat[i], size[i], M)
  BY <1>3, <1>5 DEF Found
<1> QED
  BY <1>6 DEF M

\* What find_matches returns has a class for each position of the pattern.
LEMMA FindMatchesIsFound ==
  ASSUME NEW g, NEW kind, Sound(g, kind), NEW pat, NEW size, Len(pat) \in Nat \ {0},
         LhsOK(pat, size), NEW cls \in Ids(g)
  PROVE  /\ IsFiniteSet(FindMatches(g, cls, pat))
         /\ \A m \in FindMatches(g, cls, pat) :
              MatchOK(g, kind, pat[Len(pat)], size[Len(pat)], m, Find(g, cls))
<1> DEFINE top == Len(pat)
           T == [Classes(g) -> SUBSET Matches]
           Body(f) == [i \in 0 .. top |-> IF i = 0 THEN <<>>
                                        ELSE Append(f[i - 1], Matched(g, pat, f[i - 1], i))]
           upto == CHOOSE f : f = Body(f)
           X == {w \in (0 .. top) \X Seq(T) : AllFound(g, kind, pat, size, w[2], w[1])}
           F == [w \in X |-> Append(w[2], Matched(g, pat, w[2], w[1] + 1))]
<1>1. FindMatches(g, cls, pat) = upto[top][top][Find(g, cls)]
  BY DEF FindMatches, Matched
<1>2. \A k \in 0 .. top : \A x : AllFound(g, kind, pat, size, x, k) <=> <<k, x>> \in X
  BY DEF AllFound
<1>3. <<0, <<>>>> \in X
  <2>1. <<>> \in Seq(T) /\ Len(<<>>) = 0 /\ 1 .. 0 = {} /\ 0 \in 0 .. top
    OBVIOUS
  <2>2. AllFound(g, kind, pat, size, <<>>, 0)
    BY <2>1 DEF AllFound
  <2> QED
    BY <1>2, <2>1, <2>2
<1>4. ASSUME NEW k \in 1 .. top, NEW x, <<k - 1, x>> \in X
      PROVE  /\ F[<<k - 1, x>>] = Append(x, Matched(g, pat, x, k))
             /\ <<k, F[<<k - 1, x>>]>> \in X
  <2>1. k - 1 \in 0 .. top /\ k \in 0 .. top /\ k \in Nat \ {0} /\ (k - 1) + 1 = k
        /\ \A j \in 1 .. k : j \in 1 .. top
    OBVIOUS
  <2>2. AllFound(g, kind, pat, size, x, k - 1)
    BY <1>2, <1>4, <2>1
  <2>3. F[<<k - 1, x>>] = Append(x, Matched(g, pat, x, k))
    BY <1>4, <2>1
  <2> HIDE DEF F, X
  <2> DEFINE M == Matched(g, pat, x, k)
             s == Append(x, M)
  <2>4. \A j \in 1 .. k : PartOK(pat, size, j)
    BY <2>1 DEF LhsOK
  <2>5. Found(g, kind, pat[k], size[k], M)
    BY <2>1, <2>2, <2>4, MatchedIsFound
  <2>6. M \in T /\ x \in Seq(T) /\ Len(x) = k - 1
    BY <2>2, <2>5 DEF AllFound, Found
  <2> HIDE DEF M, T
  <2>7. s \in Seq(T) /\ Len(s) = k /\ s[k] = M /\ \A j \in 1 .. k - 1 : s[j] = x[j]
    BY <2>1, <2>6, AppendFacts
  <2>8. \A j \in 1 .. k : j = k \/ j \in 1 .. k - 1
    OBVIOUS
  <2> HIDE DEF s
  <2>9. \A j \in 1 .. k : Found(g, kind, pat[j], size[j], s[j])
    BY <2>2, <2>5, <2>7, <2>8 DEF AllFound
  <2>10. AllFound(g, kind, pat, size, s, k)
    BY <2>7, <2>9 DEF AllFound, T
  <2>11. F[<<k - 1, x>>] = s
    BY <2>3 DEF s, M
  <2> QED
    BY <1>2, <2>1, <2>3, <2>10, <2>11
<1> HIDE DEF F, X
<1>5. StaysIn(top, F, X)
  BY <1>4 DEF StaysIn
<1>6. PICK f : Follows(f, top, <<>>, F, X) /\ AllIn(f, top, X)
  <2> HIDE DEF top
  <2> QED
    BY <1>3, <1>5, FollowersExist DEF top
<1>7. \A k \in 1 .. top : k \in 0 .. top /\ k - 1 \in 0 .. top /\ k # 0
  OBVIOUS
<1>8. f = Body(f)
  <2>1. ASSUME NEW k \in 0 .. top
        PROVE  f[k] = IF k = 0 THEN <<>> ELSE Append(f[k - 1], Matched(g, pat, f[k - 1], k))
    <3>1. k = 0 \/ k \in 1 .. top
      OBVIOUS
    <3>2. ASSUME k \in 1 .. top PROVE f[k] = Append(f[k - 1], Matched(g, pat, f[k - 1], k))
      <4>1. <<k - 1, f[k - 1]>> \in X
        BY <1>6, <1>7, <3>2 DEF AllIn
      <4>2. f[k] = F[<<k - 1, f[k - 1]>>]
        BY <1>6, <3>2, <4>1 DEF Follows
      <4> QED
        BY <1>4, <3>2, <4>1, <4>2
    <3> QED
      BY <1>6, <1>7, <3>1, <3>2 DEF Follows
  <2> QED
    BY <1>6, <2>1 DEF Follows
<1>9. upto = Body(upto)
  <2> HIDE DEF Body
  <2> QED
    BY <1>8
<1> HIDE DEF upto
<1>10. Follows(upto, top, <<>>, F, X)
  <2>1. upto = [k \in 0 .. top |-> upto[k]] /\ upto[0] = <<>>
    BY <1>9
  <2>2. \A k \in 1 .. top : upto[k] = Append(upto[k - 1], Matched(g, pat, upto[k - 1], k))
    BY <1>7, <1>9
  <2>3. \A k \in 1 .. top : <<k - 1, upto[k - 1]>> \in X => upto[k] = F[<<k - 1, upto[k - 1]>>]
    BY <1>4, <2>2
  <2> HIDE DEF top
  <2> QED
    BY <2>1, <2>3 DEF Follows
<1>11. AllIn(upto, top, X)
  <2> HIDE DEF top
  <2> QED
    BY <1>3, <1>5, <1>10, FollowersStay DEF top
<1>12. <<top, upto[top]>> \in X /\ top \in 0 .. top /\ top \in 1 .. top
  BY <1>11 DEF AllIn
<1>13. AllFound(g, kind, pat, size, upto[top], top)
  BY <1>2, <1>12
<1>14. Found(g, kind, pat[top], size[top], upto[top][top])
  BY <1>12, <1>13 DEF AllFound
<1>15. Find(g, cls) \in Classes(g)
  BY DEF Sound, IsEGraph
<1> QED
  BY <1>1, <1>14, <1>15 DEF Found

-----------------------------------------------------------------------------
(* What the eleven left-hand sides have in common.                         *)

\* The number of classes that match the part that ends at each position.
Sizes(rule) ==
  CASE rule = 0 -> <<1, 1, 3, 1, 5>>
    [] rule \in {1, 6, 9} -> <<1, 2, 3>>
    [] rule \in {2, 3, 4, 7} -> <<1>>
    [] rule = 5 -> <<1, 1, 3>>
    [] rule = 8 -> <<1, 2>>
    [] rule = 10 -> <<1, 1, 2, 4>>

LEMMA Parts == \A name : V(name).var = name
BY DEF V

LEMMA NIs ==
  ASSUME NEW p, NEW op, NEW kids, p = N(op, kids)
  PROVE  p.var = "" /\ p.op = op /\ p.kids = kids
BY DEF N

LEMMA Positive == ASSUME NEW n \in Nat PROVE n + 1 \in Nat \ {0}
OBVIOUS

VarAt(pat, size, j) ==
  \E name : name # "" /\ pat[j] = V(name) /\ size[j] = 1

LEMMA VarPart ==
  ASSUME NEW pat, NEW size, NEW j, VarAt(pat, size, j)
  PROVE  PartOK(pat, size, j)
<1>1. PICK name : name # "" /\ pat[j] = V(name) /\ size[j] = 1
  BY DEF VarAt
<1>2. pat[j].var = name
  BY <1>1, Parts, Zenon
<1>3. size[j] \in Nat \ {0}
  <2>1. 1 \in Nat \ {0}
    OBVIOUS
  <2> QED
    BY <1>1, <2>1, Zenon
<1> QED
  BY <1>1, <1>2, <1>3, Zenon DEF PartOK

OneKid(pat, size, j, k, op) ==
  \E n \in Nat : \E kids : 
     /\ kids = <<k>> /\ pat[j] = N(op, kids) /\ size[k] = n /\ size[j] = n + 1 

LEMMA UnaryPart ==
  ASSUME NEW pat, NEW size, NEW j, NEW op \in TensorOps \ {"var", "bitcvt"}, NumChildren(op) = 1,
         NEW k \in 1 .. j - 1, OneKid(pat, size, j, k, op)
  PROVE  PartOK(pat, size, j) /\ pat[j].var = "" /\ pat[j].op = op
<1>1. PICK n \in Nat : \E kids : 
     /\ kids = <<k>> /\ pat[j] = N(op, kids) /\ size[k] = n /\ size[j] = n + 1 
  BY DEF OneKid
<1>a. PICK s : 
     /\ s = <<k>> /\ pat[j] = N(op, s) /\ size[k] = n /\ size[j] = n + 1 
  BY <1>1
<1>2. pat[j].var = "" /\ pat[j].op = op /\ pat[j].kids = s
  <2>1. pat[j] = N(op, s)
    BY <1>a, Zenon
  <2> QED
    BY <2>1, NIs, Zenon
<1>3. Len(s) = 1 /\ DOMAIN s = {1} /\ s[1] = k
  BY <1>a
<1>4. KidsSize(pat, size, j) = size[k]
  BY <1>2, <1>3, Zenon DEF KidsSize
<1>5. n + 1 \in Nat \ {0}
  BY Positive
<1>6. size[j] = KidsSize(pat, size, j) + 1
  BY <1>4, <1>a, Zenon
<1> QED
  BY <1>a, <1>2, <1>3, <1>5, <1>6, Zenon DEF PartOK

TwoKids(pat, size, j, k1, k2, op) ==
  \E n1, n2 \in Nat : \E kids :
    /\ kids = <<k1, k2>> /\ pat[j] = N(op, kids)
    /\ size[k1] = n1 /\ size[k2] = n2 /\ size[j] = n1 + n2 + 1

LEMMA BinaryPart ==
  ASSUME NEW pat, NEW size, NEW j, NEW op \in TensorOps \ {"var", "bitcvt"}, NumChildren(op) = 2,
         NEW k1 \in 1 .. j - 1, NEW k2 \in 1 .. j - 1, TwoKids(pat, size, j, k1, k2, op)
  PROVE  PartOK(pat, size, j) /\ pat[j].var = "" /\ pat[j].op = op
<1>1. PICK n1 \in Nat, n2 \in Nat : \E kids :
    /\ kids = <<k1, k2>> /\ pat[j] = N(op, kids)
    /\ size[k1] = n1 /\ size[k2] = n2 /\ size[j] = n1 + n2 + 1
  BY DEF TwoKids
<1>a. PICK s :
    /\ s = <<k1, k2>> /\ pat[j] = N(op, s)
    /\ size[k1] = n1 /\ size[k2] = n2 /\ size[j] = n1 + n2 + 1
  BY <1>1
<1>2. pat[j].var = "" /\ pat[j].op = op /\ pat[j].kids = s
  <2>1. pat[j] = N(op, s)
    BY <1>a, Zenon
  <2> QED
    BY <2>1, NIs, ZenonT(40)
<1>3. Len(s) = 2 /\ DOMAIN s = {1, 2} /\ s[1] = k1 /\ s[2] = k2
  BY <1>a
<1>4. KidsSize(pat, size, j) = size[k1] + size[k2]
  BY <1>2, <1>3, KidsSizeIsSum, ZenonT(40)
<1>5. n1 + n2 + 1 \in Nat \ {0}
  <2>1. n1 + n2 \in Nat
    OBVIOUS
  <2> QED
    BY <2>1, Positive
<1>6. size[j] = KidsSize(pat, size, j) + 1
  BY <1>4, <1>a, Zenon
<1> QED
  BY <1>a, <1>2, <1>3, <1>5, <1>6, Zenon DEF PartOK

LEMMA Arities ==
  /\ \A op \in {"slice", "convert", "broadcast", "reshape", "bitcvt", "copy"} :
       NumChildren(op) = 1 /\ op \in TensorOps
  /\ \A op \in {"dot", "add", "maximum", "concat"} : NumChildren(op) = 2 /\ op \in TensorOps
  /\ NumChildren("eye") = 0 /\ "eye" \in TensorOps
BY DEF NumChildren, TensorOps, BinaryOps, UnaryOps, Reductions

\* What the proofs need to know of a left-hand side; n is its length.
LhsFacts(rule, pat, size, n) ==
  /\ n \in Nat \ {0} /\ Len(pat) = n /\ DOMAIN pat = 1 .. n /\ size[n] = n /\ LhsOK(pat, size)
  /\ rule \in {2, 3, 4, 7} => n = 1 /\ pat[1].var = "x"
  /\ rule \in {1, 9} => n = 3
  /\ rule \in {0, 1, 5, 6, 8, 10} => pat[n].var = "" /\ pat[n].op # "reshape"
  /\ rule = 1 => pat[n].op = "slice"

\* All eleven left-hand sides are such patterns.
LEMMA LhsIsOK ==
  ASSUME NEW rule \in Rules
  PROVE  \E n : LhsFacts(rule, Lhs(rule), Sizes(rule), n)
<1> DEFINE pat == Lhs(rule)
           size == Sizes(rule)
<1>1. CASE rule = 0
  <2>1. /\ pat = <<V("a"), V("b"), N("dot", <<1, 2>>), V("d"), N("add", <<3, 4>>)>>
        /\ size = <<1, 1, 3, 1, 5>>
    BY <1>1 DEF Lhs, Sizes
  <2>2. /\ Len(pat) = 5 /\ DOMAIN pat = 1 .. 5
        /\ pat[1] = V("a") /\ pat[2] = V("b") /\ pat[3] = N("dot", <<1, 2>>) /\ pat[4] = V("d") /\ pat[5] = N("add", <<3, 4>>)
        /\ size[1] = 1 /\ size[2] = 1 /\ size[3] = 3 /\ size[4] = 1 /\ size[5] = 5
    BY <2>1
  <2> HIDE DEF pat, size
  <2>3. PartOK(pat, size, 1)
    <3>1. VarAt(pat, size, 1)
      BY <2>2 DEF VarAt
    <3> QED
      BY <3>1, VarPart
  <2>4. PartOK(pat, size, 2)
    <3>1. VarAt(pat, size, 2)
      BY <2>2 DEF VarAt
    <3> QED
      BY <3>1, VarPart
  <2>5. PartOK(pat, size, 3) /\ pat[3].var = "" /\ pat[3].op = "dot"
    <3>1. TwoKids(pat, size, 3, 1, 2, "dot")
      BY <2>2 DEF TwoKids
    <3>2. 1 \in 1 .. 3 - 1 /\ 2 \in 1 .. 3 - 1
      OBVIOUS
    <3>3. "dot" \in TensorOps \ {"var", "bitcvt"} /\ NumChildren("dot") = 2
      BY Arities
    <3> QED
      BY <3>1, <3>2, <3>3, BinaryPart, Zenon
  <2>6. PartOK(pat, size, 4)
    <3>1. VarAt(pat, size, 4)
      BY <2>2 DEF VarAt
    <3> QED
      BY <3>1, VarPart
  <2>7. PartOK(pat, size, 5) /\ pat[5].var = "" /\ pat[5].op = "add"
    <3>1. TwoKids(pat, size, 5, 3, 4, "add")
      BY <2>2 DEF TwoKids
    <3>2. 3 \in 1 .. 5 - 1 /\ 4 \in 1 .. 5 - 1
      OBVIOUS
    <3>3. "add" \in TensorOps \ {"var", "bitcvt"} /\ NumChildren("add") = 2
      BY Arities
    <3> QED
      BY <3>1, <3>2, <3>3, BinaryPart, ZenonT(40)
  <2>8. LhsOK(pat, size)
    <3>1. \A j \in 1 .. 5 : j \in {1, 2, 3, 4, 5}
      OBVIOUS
    <3> QED
      BY <2>2, <3>1, <2>3, <2>4, <2>5, <2>6, <2>7, Zenon DEF LhsOK
  <2>10. LhsFacts(rule, pat, size, 5)
    <3>1. rule \notin {2, 3, 4, 7} /\ rule \notin {1, 9} /\ rule # 1
      BY <1>1
    <3>2. 5 \in Nat \ {0}
      OBVIOUS
    <3>3. "add" # "reshape"
      OBVIOUS
    <3> QED
      BY <2>2, <2>8, <2>7, <3>1, <3>2, <3>3, Zenon DEF LhsFacts
  <2> QED
    BY <2>10 DEF pat, size
<1>2. CASE rule = 1
  <2>1. /\ pat = <<V("x"), N("convert", <<1>>), N("slice", <<2>>)>>
        /\ size = <<1, 2, 3>>
    BY <1>2 DEF Lhs, Sizes
  <2>2. /\ Len(pat) = 3 /\ DOMAIN pat = 1 .. 3
        /\ pat[1] = V("x") /\ pat[2] = N("convert", <<1>>) /\ pat[3] = N("slice", <<2>>)
        /\ size[1] = 1 /\ size[2] = 2 /\ size[3] = 3
    BY <2>1
  <2> HIDE DEF pat, size
  <2>3. PartOK(pat, size, 1)
    <3>1. VarAt(pat, size, 1)
      BY <2>2 DEF VarAt
    <3> QED
      BY <3>1, VarPart
  <2>4. PartOK(pat, size, 2) /\ pat[2].var = "" /\ pat[2].op = "convert"
    <3>1. OneKid(pat, size, 2, 1, "convert")
      BY <2>2 DEF OneKid
    <3>2. 1 \in 1 .. 2 - 1
      OBVIOUS
    <3>3. "convert" \in TensorOps \ {"var", "bitcvt"} /\ NumChildren("convert") = 1
      BY Arities
    <3> QED
      BY <3>1, <3>2, <3>3, UnaryPart, Zenon
  <2>5. PartOK(pat, size, 3) /\ pat[3].var = "" /\ pat[3].op = "slice"
    <3>1. OneKid(pat, size, 3, 2, "slice")
      BY <2>2 DEF OneKid
    <3>2. 2 \in 1 .. 3 - 1
      OBVIOUS
    <3>3. "slice" \in TensorOps \ {"var", "bitcvt"} /\ NumChildren("slice") = 1
      BY Arities
    <3> QED
      BY <3>1, <3>2, <3>3, UnaryPart, Zenon
  <2>6. LhsOK(pat, size)
    <3>1. \A j \in 1 .. 3 : j \in {1, 2, 3}
      OBVIOUS
    <3> QED
      BY <2>2, <3>1, <2>3, <2>4, <2>5, Zenon DEF LhsOK
  <2>8. LhsFacts(rule, pat, size, 3)
    <3>1. rule \notin {2, 3, 4, 7}
      BY <1>2
    <3>2. 3 \in Nat \ {0}
      OBVIOUS
    <3>3. "slice" # "reshape"
      OBVIOUS
    <3> QED
      BY <2>2, <2>6, <2>5, <3>1, <3>2, <3>3, Zenon DEF LhsFacts
  <2> QED
    BY <2>8 DEF pat, size
<1>3. CASE rule = 6
  <2>1. /\ pat = <<V("x"), N("convert", <<1>>), N("convert", <<2>>)>>
        /\ size = <<1, 2, 3>>
    BY <1>3 DEF Lhs, Sizes
  <2>2. /\ Len(pat) = 3 /\ DOMAIN pat = 1 .. 3
        /\ pat[1] = V("x") /\ pat[2] = N("convert", <<1>>) /\ pat[3] = N("convert", <<2>>)
        /\ size[1] = 1 /\ size[2] = 2 /\ size[3] = 3
    BY <2>1
  <2> HIDE DEF pat, size
  <2>3. PartOK(pat, size, 1)
    <3>1. VarAt(pat, size, 1)
      BY <2>2 DEF VarAt
    <3> QED
      BY <3>1, VarPart
  <2>4. PartOK(pat, size, 2) /\ pat[2].var = "" /\ pat[2].op = "convert"
    <3>1. OneKid(pat, size, 2, 1, "convert")
      BY <2>2 DEF OneKid
    <3>2. 1 \in 1 .. 2 - 1
      OBVIOUS
    <3>3. "convert" \in TensorOps \ {"var", "bitcvt"} /\ NumChildren("convert") = 1
      BY Arities
    <3> QED
      BY <3>1, <3>2, <3>3, UnaryPart, Zenon
  <2>5. PartOK(pat, size, 3) /\ pat[3].var = "" /\ pat[3].op = "convert"
    <3>1. OneKid(pat, size, 3, 2, "convert")
      BY <2>2 DEF OneKid
    <3>2. 2 \in 1 .. 3 - 1
      OBVIOUS
    <3>3. "convert" \in TensorOps \ {"var", "bitcvt"} /\ NumChildren("convert") = 1
      BY Arities
    <3> QED
      BY <3>1, <3>2, <3>3, UnaryPart, Zenon
  <2>6. LhsOK(pat, size)
    <3>1. \A j \in 1 .. 3 : j \in {1, 2, 3}
      OBVIOUS
    <3> QED
      BY <2>2, <3>1, <2>3, <2>4, <2>5, Zenon DEF LhsOK
  <2>8. LhsFacts(rule, pat, size, 3)
    <3>1. rule \notin {2, 3, 4, 7} /\ rule \notin {1, 9} /\ rule # 1
      BY <1>3
    <3>2. 3 \in Nat \ {0}
      OBVIOUS
    <3>3. "convert" # "reshape"
      OBVIOUS
    <3> QED
      BY <2>2, <2>6, <2>5, <3>1, <3>2, <3>3, Zenon DEF LhsFacts
  <2> QED
    BY <2>8 DEF pat, size
<1>4. CASE rule = 9
  <2>1. /\ pat = <<V("x"), N("reshape", <<1>>), N("reshape", <<2>>)>>
        /\ size = <<1, 2, 3>>
    BY <1>4 DEF Lhs, Sizes
  <2>2. /\ Len(pat) = 3 /\ DOMAIN pat = 1 .. 3
        /\ pat[1] = V("x") /\ pat[2] = N("reshape", <<1>>) /\ pat[3] = N("reshape", <<2>>)
        /\ size[1] = 1 /\ size[2] = 2 /\ size[3] = 3
    BY <2>1
  <2> HIDE DEF pat, size
  <2>3. PartOK(pat, size, 1)
    <3>1. VarAt(pat, size, 1)
      BY <2>2 DEF VarAt
    <3> QED
      BY <3>1, VarPart
  <2>4. PartOK(pat, size, 2) /\ pat[2].var = "" /\ pat[2].op = "reshape"
    <3>1. OneKid(pat, size, 2, 1, "reshape")
      BY <2>2 DEF OneKid
    <3>2. 1 \in 1 .. 2 - 1
      OBVIOUS
    <3>3. "reshape" \in TensorOps \ {"var", "bitcvt"} /\ NumChildren("reshape") = 1
      BY Arities
    <3> QED
      BY <3>1, <3>2, <3>3, UnaryPart, Zenon
  <2>5. PartOK(pat, size, 3) /\ pat[3].var = "" /\ pat[3].op = "reshape"
    <3>1. OneKid(pat, size, 3, 2, "reshape")
      BY <2>2 DEF OneKid
    <3>2. 2 \in 1 .. 3 - 1
      OBVIOUS
    <3>3. "reshape" \in TensorOps \ {"var", "bitcvt"} /\ NumChildren("reshape") = 1
      BY Arities
    <3> QED
      BY <3>1, <3>2, <3>3, UnaryPart, Zenon
  <2>6. LhsOK(pat, size)
    <3>1. \A j \in 1 .. 3 : j \in {1, 2, 3}
      OBVIOUS
    <3> QED
      BY <2>2, <3>1, <2>3, <2>4, <2>5, Zenon DEF LhsOK
  <2>8. LhsFacts(rule, pat, size, 3)
    <3>1. rule \notin {2, 3, 4, 7} /\ rule \notin {0, 1, 5, 6, 8, 10} /\ rule # 1
      BY <1>4
    <3>2. 3 \in Nat \ {0}
      OBVIOUS
    <3> QED
      BY <2>2, <2>6, <2>5, <3>1, <3>2, Zenon DEF LhsFacts
  <2> QED
    BY <2>8 DEF pat, size
<1>5. CASE rule \in {2, 3, 4, 7}
  <2>1. /\ pat = <<V("x")>>
        /\ size = <<1>>
    BY <1>5 DEF Lhs, Sizes
  <2>2. /\ Len(pat) = 1 /\ DOMAIN pat = 1 .. 1
        /\ pat[1] = V("x")
        /\ size[1] = 1
    BY <2>1
  <2> HIDE DEF pat, size
  <2>3. PartOK(pat, size, 1)
    <3>1. VarAt(pat, size, 1)
      BY <2>2 DEF VarAt
    <3> QED
      BY <3>1, VarPart
  <2>4. LhsOK(pat, size)
    <3>1. \A j \in 1 .. 1 : j \in {1}
      OBVIOUS
    <3> QED
      BY <2>2, <3>1, <2>3, Zenon DEF LhsOK
  <2>5. pat[1].var = "x"
    BY <2>2, Parts, Zenon
  <2>6. LhsFacts(rule, pat, size, 1)
    <3>1. rule \notin {1, 9} /\ rule \notin {0, 1, 5, 6, 8, 10} /\ rule # 1
      BY <1>5
    <3>2. 1 \in Nat \ {0}
      OBVIOUS
    <3> QED
      BY <2>2, <2>4, <2>5, <3>1, <3>2, Zenon DEF LhsFacts
  <2> QED
    BY <2>6 DEF pat, size
<1>6. CASE rule = 5
  <2>1. /\ pat = <<V("x"), V("y"), N("add", <<1, 2>>)>>
        /\ size = <<1, 1, 3>>
    BY <1>6 DEF Lhs, Sizes
  <2>2. /\ Len(pat) = 3 /\ DOMAIN pat = 1 .. 3
        /\ pat[1] = V("x") /\ pat[2] = V("y") /\ pat[3] = N("add", <<1, 2>>)
        /\ size[1] = 1 /\ size[2] = 1 /\ size[3] = 3
    BY <2>1
  <2> HIDE DEF pat, size
  <2>3. PartOK(pat, size, 1)
    <3>1. VarAt(pat, size, 1)
      BY <2>2 DEF VarAt
    <3> QED
      BY <3>1, VarPart
  <2>4. PartOK(pat, size, 2)
    <3>1. VarAt(pat, size, 2)
      BY <2>2 DEF VarAt
    <3> QED
      BY <3>1, VarPart
  <2>5. PartOK(pat, size, 3) /\ pat[3].var = "" /\ pat[3].op = "add"
    <3>1. TwoKids(pat, size, 3, 1, 2, "add")
      BY <2>2 DEF TwoKids
    <3>2. 1 \in 1 .. 3 - 1 /\ 2 \in 1 .. 3 - 1
      OBVIOUS
    <3>3. "add" \in TensorOps \ {"var", "bitcvt"} /\ NumChildren("add") = 2
      BY Arities
    <3> QED
      BY <3>1, <3>2, <3>3, BinaryPart, ZenonT(40)
  <2>6. LhsOK(pat, size)
    <3>1. \A j \in 1 .. 3 : j \in {1, 2, 3}
      OBVIOUS
    <3> QED
      BY <2>2, <3>1, <2>3, <2>4, <2>5, Zenon DEF LhsOK
  <2>8. LhsFacts(rule, pat, size, 3)
    <3>1. rule \notin {2, 3, 4, 7} /\ rule \notin {1, 9} /\ rule # 1
      BY <1>6
    <3>2. 3 \in Nat \ {0}
      OBVIOUS
    <3>3. "add" # "reshape"
      OBVIOUS
    <3> QED
      BY <2>2, <2>6, <2>5, <3>1, <3>2, <3>3, Zenon DEF LhsFacts
  <2> QED
    BY <2>8 DEF pat, size
<1>7. CASE rule = 8
  <2>1. /\ pat = <<V("x"), N("broadcast", <<1>>)>>
        /\ size = <<1, 2>>
    BY <1>7 DEF Lhs, Sizes
  <2>2. /\ Len(pat) = 2 /\ DOMAIN pat = 1 .. 2
        /\ pat[1] = V("x") /\ pat[2] = N("broadcast", <<1>>)
        /\ size[1] = 1 /\ size[2] = 2
    BY <2>1
  <2> HIDE DEF pat, size
  <2>3. PartOK(pat, size, 1)
    <3>1. VarAt(pat, size, 1)
      BY <2>2 DEF VarAt
    <3> QED
      BY <3>1, VarPart
  <2>4. PartOK(pat, size, 2) /\ pat[2].var = "" /\ pat[2].op = "broadcast"
    <3>1. OneKid(pat, size, 2, 1, "broadcast")
      BY <2>2 DEF OneKid
    <3>2. 1 \in 1 .. 2 - 1
      OBVIOUS
    <3>3. "broadcast" \in TensorOps \ {"var", "bitcvt"} /\ NumChildren("broadcast") = 1
      BY Arities
    <3> QED
      BY <3>1, <3>2, <3>3, UnaryPart, Zenon
  <2>5. LhsOK(pat, size)
    <3>1. \A j \in 1 .. 2 : j \in {1, 2}
      OBVIOUS
    <3> QED
      BY <2>2, <3>1, <2>3, <2>4, Zenon DEF LhsOK
  <2>7. LhsFacts(rule, pat, size, 2)
    <3>1. rule \notin {2, 3, 4, 7} /\ rule \notin {1, 9} /\ rule # 1
      BY <1>7
    <3>2. 2 \in Nat \ {0}
      OBVIOUS
    <3>3. "broadcast" # "reshape"
      OBVIOUS
    <3> QED
      BY <2>2, <2>5, <2>4, <3>1, <3>2, <3>3, Zenon DEF LhsFacts
  <2> QED
    BY <2>7 DEF pat, size
<1>8. CASE rule = 10
  <2>1. /\ pat = <<V("x"), V("c"), N("broadcast", <<2>>), N("maximum", <<1, 3>>)>>
        /\ size = <<1, 1, 2, 4>>
    BY <1>8 DEF Lhs, Sizes
  <2>2. /\ Len(pat) = 4 /\ DOMAIN pat = 1 .. 4
        /\ pat[1] = V("x") /\ pat[2] = V("c") /\ pat[3] = N("broadcast", <<2>>) /\ pat[4] = N("maximum", <<1, 3>>)
        /\ size[1] = 1 /\ size[2] = 1 /\ size[3] = 2 /\ size[4] = 4
    BY <2>1
  <2> HIDE DEF pat, size
  <2>3. PartOK(pat, size, 1)
    <3>1. VarAt(pat, size, 1)
      BY <2>2 DEF VarAt
    <3> QED
      BY <3>1, VarPart
  <2>4. PartOK(pat, size, 2)
    <3>1. VarAt(pat, size, 2)
      BY <2>2 DEF VarAt
    <3> QED
      BY <3>1, VarPart
  <2>5. PartOK(pat, size, 3) /\ pat[3].var = "" /\ pat[3].op = "broadcast"
    <3>1. OneKid(pat, size, 3, 2, "broadcast")
      BY <2>2 DEF OneKid
    <3>2. 2 \in 1 .. 3 - 1
      OBVIOUS
    <3>3. "broadcast" \in TensorOps \ {"var", "bitcvt"} /\ NumChildren("broadcast") = 1
      BY Arities
    <3> QED
      BY <3>1, <3>2, <3>3, UnaryPart, Zenon
  <2>6. PartOK(pat, size, 4) /\ pat[4].var = "" /\ pat[4].op = "maximum"
    <3>1. TwoKids(pat, size, 4, 1, 3, "maximum")
      BY <2>2 DEF TwoKids
    <3>2. 1 \in 1 .. 4 - 1 /\ 3 \in 1 .. 4 - 1
      OBVIOUS
    <3>3. "maximum" \in TensorOps \ {"var", "bitcvt"} /\ NumChildren("maximum") = 2
      BY Arities
    <3> QED
      BY <3>1, <3>2, <3>3, BinaryPart, ZenonT(40)
  <2>7. LhsOK(pat, size)
    <3>1. \A j \in 1 .. 4 : j \in {1, 2, 3, 4}
      OBVIOUS
    <3> QED
      BY <2>2, <3>1, <2>3, <2>4, <2>5, <2>6, Zenon DEF LhsOK
  <2>9. LhsFacts(rule, pat, size, 4)
    <3>1. rule \notin {2, 3, 4, 7} /\ rule \notin {1, 9} /\ rule # 1
      BY <1>8
    <3>2. 4 \in Nat \ {0}
      OBVIOUS
    <3>3. "maximum" # "reshape"
      OBVIOUS
    <3> QED
      BY <2>2, <2>7, <2>6, <3>1, <3>2, <3>3, Zenon DEF LhsFacts
  <2> QED
    BY <2>9 DEF pat, size
<1>9. rule \in 0 .. 10
  BY DEF Rules
<1> HIDE DEF pat, size
<1> QED
  BY <1>1, <1>2, <1>3, <1>4, <1>5, <1>6, <1>7, <1>8, <1>9

-----------------------------------------------------------------------------
(* The operations of the right-hand sides and the strings they are given.  *)

LEMMA TimesIsNat ==
  ASSUME NEW a \in Nat, NEW b \in Nat
  PROVE  a * b \in Nat /\ a + b \in Nat
OBVIOUS

\* The product of a shape's dimensions is a natural number.
LEMMA ProductIsNat ==
  ASSUME NEW s \in Seq(Nat)
  PROVE  Product(s) \in Nat
<1> DEFINE n == Len(s)
           Body(f) == [k \in 0 .. n |-> IF k = 0 THEN 1 ELSE f[k - 1] * s[k]]
           upto == CHOOSE f : f = Body(f)
           X == (0 .. n) \X Nat
           F == [w \in X |-> w[2] * s[w[1] + 1]]
<1>1. Product(s) = upto[n]
  BY DEF Product
<1>2. n \in Nat /\ <<0, 1>> \in X
  OBVIOUS
<1>3. ASSUME NEW k \in 1 .. n, NEW x, <<k - 1, x>> \in X
      PROVE  /\ F[<<k - 1, x>>] = x * s[k]
             /\ <<k, F[<<k - 1, x>>]>> \in X
  <2>1. x \in Nat /\ s[k] \in Nat /\ (k - 1) + 1 = k /\ k \in 0 .. n
    BY <1>3
  <2>2. F[<<k - 1, x>>] = x * s[k]
    BY <1>3, <2>1
  <2> QED
    BY <2>1, <2>2, TimesIsNat
<1> HIDE DEF F, X
<1>4. StaysIn(n, F, X)
  BY <1>3 DEF StaysIn
<1>5. PICK f : Follows(f, n, 1, F, X) /\ AllIn(f, n, X)
  <2> HIDE DEF n
  <2> QED
    BY <1>2, <1>4, FollowersExist
<1>6. \A k \in 1 .. n : k \in 0 .. n /\ k - 1 \in 0 .. n /\ k # 0
  OBVIOUS
<1>7. f = Body(f)
  <2>1. ASSUME NEW k \in 0 .. n
        PROVE  f[k] = IF k = 0 THEN 1 ELSE f[k - 1] * s[k]
    <3>1. k = 0 \/ k \in 1 .. n
      OBVIOUS
    <3>2. ASSUME k \in 1 .. n PROVE f[k] = f[k - 1] * s[k]
      BY <1>3, <1>5, <1>6, <3>2 DEF Follows, AllIn
    <3> QED
      BY <1>5, <1>6, <3>1, <3>2, Zenon DEF Follows
  <2> QED
    BY <1>5, <2>1 DEF Follows
<1>8. upto = Body(upto)
  <2> HIDE DEF Body
  <2> QED
    BY <1>7
<1> HIDE DEF upto
<1>9. Follows(upto, n, 1, F, X)
  <2>1. upto = [k \in 0 .. n |-> upto[k]] /\ upto[0] = 1
    BY <1>8, <1>2
  <2>2. \A k \in 1 .. n : upto[k] = upto[k - 1] * s[k]
    BY <1>6, <1>8, Zenon
  <2> QED
    BY <1>3, <2>1, <2>2 DEF Follows
<1>10. AllIn(upto, n, X)
  <2> HIDE DEF n
  <2> QED
    BY <1>2, <1>4, <1>9, FollowersStay
<1>11. <<n, upto[n]>> \in X /\ n \in 0 .. n
  BY <1>2, <1>10 DEF AllIn
<1> QED
  BY <1>1, <1>11 DEF X

\* A string that op takes.
MetaOK(m, op) ==
  /\ m.text \in Texts /\ m.data \in Seq(Nat)
  /\ (m.text # "" \/ m.data # <<>>) <=> op \in HasMetadata \cup {"var"}
  /\ op = "slice" => m.data # <<>>

LEMMA EmptyStrings == "" \in Texts /\ <<>> \in Seq(Nat)
<1>1. "" \in {""}
  BY Zenon
<1>2. <<>> \in Seq(Nat)
  OBVIOUS
<1> QED
  BY <1>1, <1>2, Zenon DEF Texts

LEMMA NoString ==
  ASSUME NEW m, m = None, NEW op, op \notin HasMetadata \cup {"var"}
  PROVE  MetaOK(m, op)
<1>1. m.text = "" /\ m.data = <<>>
  BY DEF None, Str
<1>2. "slice" \in HasMetadata
  BY DEF HasMetadata
<1> QED
  BY <1>1, <1>2, EmptyStrings, Zenon DEF MetaOK

LEMMA ListString ==
  ASSUME NEW data \in Seq(Nat), data # <<>>, NEW m, m = List(data), NEW op \in HasMetadata
  PROVE  MetaOK(m, op)
<1>1. m.text = "" /\ m.data = data
  BY DEF List
<1> QED
  BY <1>1, EmptyStrings, Zenon DEF MetaOK

LEMMA TextString ==
  ASSUME NEW text \in Texts, text # "", NEW m, m = Str(text), NEW op \in HasMetadata \ {"slice"}
  PROVE  MetaOK(m, op)
<1>1. m.text = text /\ m.data = <<>>
  BY DEF Str
<1>2. op # "slice" /\ op \in HasMetadata
  BY Zenon
<1> QED
  BY <1>1, <1>2, EmptyStrings, Zenon DEF MetaOK

\* Position i of a pattern is an operation on positions before it.
OpAt(pat, i, op, kids) == pat[i] = N(op, kids) /\ kids \in Seq(1 .. i - 1)

LEMMA NParts ==
  \A op, kids : N(op, kids).var = "" /\ N(op, kids).op = op /\ N(op, kids).kids = kids
BY DEF N

LEMMA OpAtParts ==
  ASSUME NEW pat, NEW i, NEW op, NEW kids, OpAt(pat, i, op, kids)
  PROVE  pat[i].var = "" /\ pat[i].op = op /\ pat[i].kids = kids
<1>1. PICK p : p = pat[i]
  OBVIOUS
<1>2. p = N(op, kids)
  BY <1>1 DEF OpAt
<1>3. p.var = "" /\ p.op = op /\ p.kids = kids
  BY <1>2, NParts, Zenon
<1> QED
  BY <1>1, <1>3

VarIs(pat, metadata, i, name) == PositionOK(pat, metadata, i) /\ pat[i].var = name
OpIs(pat, metadata, i, op) ==
  PositionOK(pat, metadata, i) /\ pat[i].var = "" /\ pat[i].op = op

LEMMA OpPosition ==
  ASSUME NEW pat, NEW metadata, NEW i \in Nat \ {0}, NEW op \in TensorOps \ {"var"}, NEW kids,
         OpAt(pat, i, op, kids), Len(kids) = NumChildren(op), MetaOK(metadata[i], op)
  PROVE  OpIs(pat, metadata, i, op)
<1>1. pat[i] = N(op, kids) /\ kids \in Seq(1 .. i - 1)
  BY DEF OpAt
<1>2. pat[i].var = "" /\ pat[i].op = op /\ pat[i].kids = kids
  BY OpAtParts
<1>3. kids \in Seq(Nat) /\ \A k \in DOMAIN kids : kids[k] \in 1 .. i - 1
  BY <1>1
<1> DEFINE m == metadata[i]
           en == ENode(op, m.text, m.data, kids)
<1>4. m.text \in Texts /\ m.data \in Seq(Nat)
  BY DEF MetaOK
<1>5. en \in ENodes /\ en.op = op /\ en.text = m.text /\ en.data = m.data /\ en.kids = kids
  BY <1>3, <1>4, ENodeIs
<1> HIDE DEF en
<1>6. HasParts(en)
  BY <1>5 DEF HasParts, MetaOK
<1>7. en = ENode(pat[i].op, metadata[i].text, metadata[i].data, pat[i].kids)
  BY <1>2, Zenon DEF en
<1>8. op # "var"
  OBVIOUS
<1> QED
  BY <1>2, <1>3, <1>5, <1>6, <1>7, <1>8, Zenon DEF PositionOK, OpIs

LEMMA VarPosition ==
  ASSUME NEW pat, NEW metadata, NEW i, NEW name, name # "", pat[i] = V(name)
  PROVE  VarIs(pat, metadata, i, name)
<1>1. pat[i].var = name
  BY Parts, Zenon
<1> QED
  BY <1>1, Zenon DEF PositionOK, VarIs

UnaryAt(pat, i, op, k)       == pat[i] = N(op, <<k>>) /\ k \in 1 .. i - 1
BinaryAt(pat, i, op, k1, k2) == pat[i] = N(op, <<k1, k2>>) /\ k1 \in 1 .. i - 1 /\ k2 \in 1 .. i - 1

LEMMA NullaryPosition ==
  ASSUME NEW pat, NEW metadata, NEW i \in Nat \ {0}, NEW op \in TensorOps \ {"var"},
         NumChildren(op) = 0, pat[i] = N(op, <<>>), MetaOK(metadata[i], op)
  PROVE  OpIs(pat, metadata, i, op)
<1>1. PICK s : s = <<>>
  OBVIOUS
<1>2. s \in Seq(1 .. i - 1) /\ Len(s) = 0
  BY <1>1
<1>3. OpAt(pat, i, op, s)
  BY <1>1, <1>2, Zenon DEF OpAt
<1> QED
  BY <1>2, <1>3, OpPosition, Zenon

LEMMA UnaryPosition ==
  ASSUME NEW pat, NEW metadata, NEW i \in Nat \ {0}, NEW op \in TensorOps \ {"var"},
         NumChildren(op) = 1, NEW k, UnaryAt(pat, i, op, k), MetaOK(metadata[i], op)
  PROVE  OpIs(pat, metadata, i, op)
<1>1. PICK s : s = <<k>>
  OBVIOUS
<1>2. k \in 1 .. i - 1 /\ pat[i] = N(op, s)
  BY <1>1, Zenon DEF UnaryAt
<1>3. s \in Seq(1 .. i - 1) /\ Len(s) = 1
  BY <1>1, <1>2
<1>4. OpAt(pat, i, op, s)
  BY <1>2, <1>3, Zenon DEF OpAt
<1> QED
  BY <1>3, <1>4, OpPosition, Zenon

LEMMA BinaryPosition ==
  ASSUME NEW pat, NEW metadata, NEW i \in Nat \ {0}, NEW op \in TensorOps \ {"var"},
         NumChildren(op) = 2, NEW k1, NEW k2, BinaryAt(pat, i, op, k1, k2), MetaOK(metadata[i], op)
  PROVE  OpIs(pat, metadata, i, op)
<1>1. PICK s : s = <<k1, k2>>
  OBVIOUS
<1>2. k1 \in 1 .. i - 1 /\ k2 \in 1 .. i - 1 /\ pat[i] = N(op, s)
  BY <1>1, Zenon DEF BinaryAt
<1>3. s \in Seq(1 .. i - 1) /\ Len(s) = 2
  BY <1>1, <1>2
<1>4. OpAt(pat, i, op, s)
  BY <1>2, <1>3, Zenon DEF OpAt
<1> QED
  BY <1>3, <1>4, OpPosition, Zenon

\* The variables of a rule's left-hand side that its right-hand side has.
RuleVars(rule) ==
  CASE rule = 0 -> {"a", "b", "d"} [] rule = 5 -> {"x", "y"} [] OTHER -> {"x"}

\* A variable the left-hand side binds, or an operation; bytes are reshaped only.
RightPart(rule, pat, i) ==
  \/ pat[i].var # "" /\ pat[i].var \in RuleVars(rule)
  \/ pat[i].var = "" /\ (rule = 3 => pat[i].op = "reshape")

RhsFacts(rule, pat, metadata, n) ==
  /\ n \in Nat \ {0} /\ Len(pat) = n
  /\ \A i \in 1 .. n : PositionOK(pat, metadata, i) /\ RightPart(rule, pat, i)

\* Rule by rule: with the strings it computes, the right-hand side is a
\* sequence of operations on what stands before them, over bound variables.
LEMMA Rhs0 ==
  ASSUME NEW rule, rule = 0, NEW metadata,
         MetaOK(metadata[2], "slice"),
         MetaOK(metadata[4], "dot"),
         MetaOK(metadata[6], "slice"),
         MetaOK(metadata[7], "add"),
         MetaOK(metadata[8], "slice"),
         MetaOK(metadata[9], "dot"),
         MetaOK(metadata[10], "slice"),
         MetaOK(metadata[11], "add"),
         MetaOK(metadata[12], "concat")
  PROVE  RhsFacts(rule, Rhs(rule), metadata, 12)
<1> DEFINE pat == Rhs(rule)
<1>1. pat = <<V("a"), N("slice", <<1>>), V("b"), N("dot", <<2, 3>>), V("d"), N("slice", <<5>>), N("add", <<4, 6>>), N("slice", <<1>>), N("dot", <<8, 3>>), N("slice", <<5>>), N("add", <<9, 10>>), N("concat", <<7, 11>>)>>
  BY DEF Rhs
<1>2. /\ Len(pat) = 12
      /\ pat[1] = V("a")
      /\ pat[2] = N("slice", <<1>>)
      /\ pat[3] = V("b")
      /\ pat[4] = N("dot", <<2, 3>>)
      /\ pat[5] = V("d")
      /\ pat[6] = N("slice", <<5>>)
      /\ pat[7] = N("add", <<4, 6>>)
      /\ pat[8] = N("slice", <<1>>)
      /\ pat[9] = N("dot", <<8, 3>>)
      /\ pat[10] = N("slice", <<5>>)
      /\ pat[11] = N("add", <<9, 10>>)
      /\ pat[12] = N("concat", <<7, 11>>)
  BY <1>1
<1> HIDE DEF pat
<1>3. PositionOK(pat, metadata, 1) /\ RightPart(rule, pat, 1)
  <2>1. VarIs(pat, metadata, 1, "a")
    <3>1. "a" # ""
      BY Zenon
    <3> QED
      BY <1>2, <3>1, VarPosition, Zenon
  <2>2. "a" \in RuleVars(rule)
    BY DEF RuleVars
  <2>3. "a" # ""
    BY Zenon
  <2> QED
    BY <2>1, <2>2, <2>3, Zenon DEF RightPart, VarIs, OpIs
<1>4. PositionOK(pat, metadata, 2) /\ RightPart(rule, pat, 2)
  <2>1. UnaryAt(pat, 2, "slice", 1) /\ 2 \in Nat \ {0}
    <3>1. 1 \in 1 .. 2 - 1 /\ 2 \in Nat \ {0}
      OBVIOUS
    <3> QED
      BY <1>2, <3>1, Zenon DEF UnaryAt
  <2>2. "slice" \in TensorOps \ {"var"} /\ NumChildren("slice") = 1
    BY Arities
  <2>3. OpIs(pat, metadata, 2, "slice")
    BY <2>1, <2>2, UnaryPosition, Zenon
  <2>4. rule # 3
    OBVIOUS
  <2> QED
    BY <2>3, <2>4, Zenon DEF RightPart, VarIs, OpIs
<1>5. PositionOK(pat, metadata, 3) /\ RightPart(rule, pat, 3)
  <2>1. VarIs(pat, metadata, 3, "b")
    <3>1. "b" # ""
      BY Zenon
    <3> QED
      BY <1>2, <3>1, VarPosition, Zenon
  <2>2. "b" \in RuleVars(rule)
    BY DEF RuleVars
  <2>3. "b" # ""
    BY Zenon
  <2> QED
    BY <2>1, <2>2, <2>3, Zenon DEF RightPart, VarIs, OpIs
<1>6. PositionOK(pat, metadata, 4) /\ RightPart(rule, pat, 4)
  <2>1. BinaryAt(pat, 4, "dot", 2, 3) /\ 4 \in Nat \ {0}
    <3>1. 2 \in 1 .. 4 - 1 /\ 3 \in 1 .. 4 - 1 /\ 4 \in Nat \ {0}
      OBVIOUS
    <3> QED
      BY <1>2, <3>1, Zenon DEF BinaryAt
  <2>2. "dot" \in TensorOps \ {"var"} /\ NumChildren("dot") = 2
    BY Arities
  <2>3. OpIs(pat, metadata, 4, "dot")
    BY <2>1, <2>2, BinaryPosition, Zenon
  <2>4. rule # 3
    OBVIOUS
  <2> QED
    BY <2>3, <2>4, Zenon DEF RightPart, VarIs, OpIs
<1>7. PositionOK(pat, metadata, 5) /\ RightPart(rule, pat, 5)
  <2>1. VarIs(pat, metadata, 5, "d")
    <3>1. "d" # ""
      BY Zenon
    <3> QED
      BY <1>2, <3>1, VarPosition, Zenon
  <2>2. "d" \in RuleVars(rule)
    BY DEF RuleVars
  <2>3. "d" # ""
    BY Zenon
  <2> QED
    BY <2>1, <2>2, <2>3, Zenon DEF RightPart, VarIs, OpIs
<1>8. PositionOK(pat, metadata, 6) /\ RightPart(rule, pat, 6)
  <2>1. UnaryAt(pat, 6, "slice", 5) /\ 6 \in Nat \ {0}
    <3>1. 5 \in 1 .. 6 - 1 /\ 6 \in Nat \ {0}
      OBVIOUS
    <3> QED
      BY <1>2, <3>1, Zenon DEF UnaryAt
  <2>2. "slice" \in TensorOps \ {"var"} /\ NumChildren("slice") = 1
    BY Arities
  <2>3. OpIs(pat, metadata, 6, "slice")
    BY <2>1, <2>2, UnaryPosition, Zenon
  <2>4. rule # 3
    OBVIOUS
  <2> QED
    BY <2>3, <2>4, Zenon DEF RightPart, VarIs, OpIs
<1>9. PositionOK(pat, metadata, 7) /\ RightPart(rule, pat, 7)
  <2>1. BinaryAt(pat, 7, "add", 4, 6) /\ 7 \in Nat \ {0}
    <3>1. 4 \in 1 .. 7 - 1 /\ 6 \in 1 .. 7 - 1 /\ 7 \in Nat \ {0}
      OBVIOUS
    <3> QED
      BY <1>2, <3>1, Zenon DEF BinaryAt
  <2>2. "add" \in TensorOps \ {"var"} /\ NumChildren("add") = 2
    BY Arities
  <2>3. OpIs(pat, metadata, 7, "add")
    BY <2>1, <2>2, BinaryPosition, Zenon
  <2>4. rule # 3
    OBVIOUS
  <2> QED
    BY <2>3, <2>4, Zenon DEF RightPart, VarIs, OpIs
<1>10. PositionOK(pat, metadata, 8) /\ RightPart(rule, pat, 8)
  <2>1. UnaryAt(pat, 8, "slice", 1) /\ 8 \in Nat \ {0}
    <3>1. 1 \in 1 .. 8 - 1 /\ 8 \in Nat \ {0}
      OBVIOUS
    <3> QED
      BY <1>2, <3>1, Zenon DEF UnaryAt
  <2>2. "slice" \in TensorOps \ {"var"} /\ NumChildren("slice") = 1
    BY Arities
  <2>3. OpIs(pat, metadata, 8, "slice")
    BY <2>1, <2>2, UnaryPosition, Zenon
  <2>4. rule # 3
    OBVIOUS
  <2> QED
    BY <2>3, <2>4, Zenon DEF RightPart, VarIs, OpIs
<1>11. PositionOK(pat, metadata, 9) /\ RightPart(rule, pat, 9)
  <2>1. BinaryAt(pat, 9, "dot", 8, 3) /\ 9 \in Nat \ {0}
    <3>1. 8 \in 1 .. 9 - 1 /\ 3 \in 1 .. 9 - 1 /\ 9 \in Nat \ {0}
      OBVIOUS
    <3> QED
      BY <1>2, <3>1, Zenon DEF BinaryAt
  <2>2. "dot" \in TensorOps \ {"var"} /\ NumChildren("dot") = 2
    BY Arities
  <2>3. OpIs(pat, metadata, 9, "dot")
    BY <2>1, <2>2, BinaryPosition, Zenon
  <2>4. rule # 3
    OBVIOUS
  <2> QED
    BY <2>3, <2>4, Zenon DEF RightPart, VarIs, OpIs
<1>12. PositionOK(pat, metadata, 10) /\ RightPart(rule, pat, 10)
  <2>1. UnaryAt(pat, 10, "slice", 5) /\ 10 \in Nat \ {0}
    <3>1. 5 \in 1 .. 10 - 1 /\ 10 \in Nat \ {0}
      OBVIOUS
    <3> QED
      BY <1>2, <3>1, Zenon DEF UnaryAt
  <2>2. "slice" \in TensorOps \ {"var"} /\ NumChildren("slice") = 1
    BY Arities
  <2>3. OpIs(pat, metadata, 10, "slice")
    BY <2>1, <2>2, UnaryPosition, Zenon
  <2>4. rule # 3
    OBVIOUS
  <2> QED
    BY <2>3, <2>4, Zenon DEF RightPart, VarIs, OpIs
<1>13. PositionOK(pat, metadata, 11) /\ RightPart(rule, pat, 11)
  <2>1. BinaryAt(pat, 11, "add", 9, 10) /\ 11 \in Nat \ {0}
    <3>1. 9 \in 1 .. 11 - 1 /\ 10 \in 1 .. 11 - 1 /\ 11 \in Nat \ {0}
      OBVIOUS
    <3> QED
      BY <1>2, <3>1, Zenon DEF BinaryAt
  <2>2. "add" \in TensorOps \ {"var"} /\ NumChildren("add") = 2
    BY Arities
  <2>3. OpIs(pat, metadata, 11, "add")
    BY <2>1, <2>2, BinaryPosition, Zenon
  <2>4. rule # 3
    OBVIOUS
  <2> QED
    BY <2>3, <2>4, Zenon DEF RightPart, VarIs, OpIs
<1>14. PositionOK(pat, metadata, 12) /\ RightPart(rule, pat, 12)
  <2>1. BinaryAt(pat, 12, "concat", 7, 11) /\ 12 \in Nat \ {0}
    <3>1. 7 \in 1 .. 12 - 1 /\ 11 \in 1 .. 12 - 1 /\ 12 \in Nat \ {0}
      OBVIOUS
    <3> QED
      BY <1>2, <3>1, Zenon DEF BinaryAt
  <2>2. "concat" \in TensorOps \ {"var"} /\ NumChildren("concat") = 2
    BY Arities
  <2>3. OpIs(pat, metadata, 12, "concat")
    BY <2>1, <2>2, BinaryPosition, Zenon
  <2>4. rule # 3
    OBVIOUS
  <2> QED
    BY <2>3, <2>4, Zenon DEF RightPart, VarIs, OpIs
<1>15. \A j \in 1 .. 12 : j \in {1, 2, 3, 4, 5, 6, 7, 8, 9, 10, 11, 12}
  OBVIOUS
<1>16. 12 \in Nat \ {0}
  OBVIOUS
<1>17. RhsFacts(rule, pat, metadata, 12)
  BY <1>2, <1>3, <1>4, <1>5, <1>6, <1>7, <1>8, <1>9, <1>10, <1>11, <1>12, <1>13, <1>14, <1>15, <1>16, Zenon DEF RhsFacts
<1> QED
  BY <1>17 DEF pat

LEMMA Rhs1 ==
  ASSUME NEW rule, rule = 1, NEW metadata,
         MetaOK(metadata[2], "slice"),
         MetaOK(metadata[3], "convert")
  PROVE  RhsFacts(rule, Rhs(rule), metadata, 3)
<1> DEFINE pat == Rhs(rule)
<1>1. pat = <<V("x"), N("slice", <<1>>), N("convert", <<2>>)>>
  BY DEF Rhs
<1>2. /\ Len(pat) = 3
      /\ pat[1] = V("x")
      /\ pat[2] = N("slice", <<1>>)
      /\ pat[3] = N("convert", <<2>>)
  BY <1>1
<1> HIDE DEF pat
<1>3. PositionOK(pat, metadata, 1) /\ RightPart(rule, pat, 1)
  <2>1. VarIs(pat, metadata, 1, "x")
    <3>1. "x" # ""
      BY Zenon
    <3> QED
      BY <1>2, <3>1, VarPosition, Zenon
  <2>2. "x" \in RuleVars(rule)
    BY DEF RuleVars
  <2>3. "x" # ""
    BY Zenon
  <2> QED
    BY <2>1, <2>2, <2>3, Zenon DEF RightPart, VarIs, OpIs
<1>4. PositionOK(pat, metadata, 2) /\ RightPart(rule, pat, 2)
  <2>1. UnaryAt(pat, 2, "slice", 1) /\ 2 \in Nat \ {0}
    <3>1. 1 \in 1 .. 2 - 1 /\ 2 \in Nat \ {0}
      OBVIOUS
    <3> QED
      BY <1>2, <3>1, Zenon DEF UnaryAt
  <2>2. "slice" \in TensorOps \ {"var"} /\ NumChildren("slice") = 1
    BY Arities
  <2>3. OpIs(pat, metadata, 2, "slice")
    BY <2>1, <2>2, UnaryPosition, Zenon
  <2>4. rule # 3
    OBVIOUS
  <2> QED
    BY <2>3, <2>4, Zenon DEF RightPart, VarIs, OpIs
<1>5. PositionOK(pat, metadata, 3) /\ RightPart(rule, pat, 3)
  <2>1. UnaryAt(pat, 3, "convert", 2) /\ 3 \in Nat \ {0}
    <3>1. 2 \in 1 .. 3 - 1 /\ 3 \in Nat \ {0}
      OBVIOUS
    <3> QED
      BY <1>2, <3>1, Zenon DEF UnaryAt
  <2>2. "convert" \in TensorOps \ {"var"} /\ NumChildren("convert") = 1
    BY Arities
  <2>3. OpIs(pat, metadata, 3, "convert")
    BY <2>1, <2>2, UnaryPosition, Zenon
  <2>4. rule # 3
    OBVIOUS
  <2> QED
    BY <2>3, <2>4, Zenon DEF RightPart, VarIs, OpIs
<1>6. \A j \in 1 .. 3 : j \in {1, 2, 3}
  OBVIOUS
<1>7. 3 \in Nat \ {0}
  OBVIOUS
<1>8. RhsFacts(rule, pat, metadata, 3)
  BY <1>2, <1>3, <1>4, <1>5, <1>6, <1>7, Zenon DEF RhsFacts
<1> QED
  BY <1>8 DEF pat

LEMMA Rhs2 ==
  ASSUME NEW rule, rule = 2, NEW metadata,
         MetaOK(metadata[2], "eye"),
         MetaOK(metadata[3], "dot")
  PROVE  RhsFacts(rule, Rhs(rule), metadata, 3)
<1> DEFINE pat == Rhs(rule)
<1>1. pat = <<V("x"), N("eye", <<>>), N("dot", <<1, 2>>)>>
  BY DEF Rhs
<1>2. /\ Len(pat) = 3
      /\ pat[1] = V("x")
      /\ pat[2] = N("eye", <<>>)
      /\ pat[3] = N("dot", <<1, 2>>)
  BY <1>1
<1> HIDE DEF pat
<1>3. PositionOK(pat, metadata, 1) /\ RightPart(rule, pat, 1)
  <2>1. VarIs(pat, metadata, 1, "x")
    <3>1. "x" # ""
      BY Zenon
    <3> QED
      BY <1>2, <3>1, VarPosition, Zenon
  <2>2. "x" \in RuleVars(rule)
    BY DEF RuleVars
  <2>3. "x" # ""
    BY Zenon
  <2> QED
    BY <2>1, <2>2, <2>3, Zenon DEF RightPart, VarIs, OpIs
<1>4. PositionOK(pat, metadata, 2) /\ RightPart(rule, pat, 2)
  <2>1. pat[2] = N("eye", <<>>) /\ 2 \in Nat \ {0}
    BY <1>2
  <2>2. "eye" \in TensorOps \ {"var"} /\ NumChildren("eye") = 0
    BY Arities
  <2>3. OpIs(pat, metadata, 2, "eye")
    BY <2>1, <2>2, NullaryPosition, Zenon
  <2>4. rule # 3
    OBVIOUS
  <2> QED
    BY <2>3, <2>4, Zenon DEF RightPart, VarIs, OpIs
<1>5. PositionOK(pat, metadata, 3) /\ RightPart(rule, pat, 3)
  <2>1. BinaryAt(pat, 3, "dot", 1, 2) /\ 3 \in Nat \ {0}
    <3>1. 1 \in 1 .. 3 - 1 /\ 2 \in 1 .. 3 - 1 /\ 3 \in Nat \ {0}
      OBVIOUS
    <3> QED
      BY <1>2, <3>1, Zenon DEF BinaryAt
  <2>2. "dot" \in TensorOps \ {"var"} /\ NumChildren("dot") = 2
    BY Arities
  <2>3. OpIs(pat, metadata, 3, "dot")
    BY <2>1, <2>2, BinaryPosition, Zenon
  <2>4. rule # 3
    OBVIOUS
  <2> QED
    BY <2>3, <2>4, Zenon DEF RightPart, VarIs, OpIs
<1>6. \A j \in 1 .. 3 : j \in {1, 2, 3}
  OBVIOUS
<1>7. 3 \in Nat \ {0}
  OBVIOUS
<1>8. RhsFacts(rule, pat, metadata, 3)
  BY <1>2, <1>3, <1>4, <1>5, <1>6, <1>7, Zenon DEF RhsFacts
<1> QED
  BY <1>8 DEF pat

LEMMA Rhs3 ==
  ASSUME NEW rule, rule = 3, NEW metadata,
         MetaOK(metadata[2], "reshape"),
         MetaOK(metadata[3], "reshape")
  PROVE  RhsFacts(rule, Rhs(rule), metadata, 3)
<1> DEFINE pat == Rhs(rule)
<1>1. pat = <<V("x"), N("reshape", <<1>>), N("reshape", <<2>>)>>
  BY DEF Rhs
<1>2. /\ Len(pat) = 3
      /\ pat[1] = V("x")
      /\ pat[2] = N("reshape", <<1>>)
      /\ pat[3] = N("reshape", <<2>>)
  BY <1>1
<1> HIDE DEF pat
<1>3. PositionOK(pat, metadata, 1) /\ RightPart(rule, pat, 1)
  <2>1. VarIs(pat, metadata, 1, "x")
    <3>1. "x" # ""
      BY Zenon
    <3> QED
      BY <1>2, <3>1, VarPosition, Zenon
  <2>2. "x" \in RuleVars(rule)
    BY DEF RuleVars
  <2>3. "x" # ""
    BY Zenon
  <2> QED
    BY <2>1, <2>2, <2>3, Zenon DEF RightPart, VarIs, OpIs
<1>4. PositionOK(pat, metadata, 2) /\ RightPart(rule, pat, 2)
  <2>1. UnaryAt(pat, 2, "reshape", 1) /\ 2 \in Nat \ {0}
    <3>1. 1 \in 1 .. 2 - 1 /\ 2 \in Nat \ {0}
      OBVIOUS
    <3> QED
      BY <1>2, <3>1, Zenon DEF UnaryAt
  <2>2. "reshape" \in TensorOps \ {"var"} /\ NumChildren("reshape") = 1
    BY Arities
  <2>3. OpIs(pat, metadata, 2, "reshape")
    BY <2>1, <2>2, UnaryPosition, Zenon
  <2> QED
    BY <2>3, Zenon DEF RightPart, VarIs, OpIs
<1>5. PositionOK(pat, metadata, 3) /\ RightPart(rule, pat, 3)
  <2>1. UnaryAt(pat, 3, "reshape", 2) /\ 3 \in Nat \ {0}
    <3>1. 2 \in 1 .. 3 - 1 /\ 3 \in Nat \ {0}
      OBVIOUS
    <3> QED
      BY <1>2, <3>1, Zenon DEF UnaryAt
  <2>2. "reshape" \in TensorOps \ {"var"} /\ NumChildren("reshape") = 1
    BY Arities
  <2>3. OpIs(pat, metadata, 3, "reshape")
    BY <2>1, <2>2, UnaryPosition, Zenon
  <2> QED
    BY <2>3, Zenon DEF RightPart, VarIs, OpIs
<1>6. \A j \in 1 .. 3 : j \in {1, 2, 3}
  OBVIOUS
<1>7. 3 \in Nat \ {0}
  OBVIOUS
<1>8. RhsFacts(rule, pat, metadata, 3)
  BY <1>2, <1>3, <1>4, <1>5, <1>6, <1>7, Zenon DEF RhsFacts
<1> QED
  BY <1>8 DEF pat

LEMMA Rhs4 ==
  ASSUME NEW rule, rule = 4, NEW metadata,
         MetaOK(metadata[2], "bitcvt"),
         MetaOK(metadata[3], "bitcvt")
  PROVE  RhsFacts(rule, Rhs(rule), metadata, 3)
<1> DEFINE pat == Rhs(rule)
<1>1. pat = <<V("x"), N("bitcvt", <<1>>), N("bitcvt", <<2>>)>>
  BY DEF Rhs
<1>2. /\ Len(pat) = 3
      /\ pat[1] = V("x")
      /\ pat[2] = N("bitcvt", <<1>>)
      /\ pat[3] = N("bitcvt", <<2>>)
  BY <1>1
<1> HIDE DEF pat
<1>3. PositionOK(pat, metadata, 1) /\ RightPart(rule, pat, 1)
  <2>1. VarIs(pat, metadata, 1, "x")
    <3>1. "x" # ""
      BY Zenon
    <3> QED
      BY <1>2, <3>1, VarPosition, Zenon
  <2>2. "x" \in RuleVars(rule)
    BY DEF RuleVars
  <2>3. "x" # ""
    BY Zenon
  <2> QED
    BY <2>1, <2>2, <2>3, Zenon DEF RightPart, VarIs, OpIs
<1>4. PositionOK(pat, metadata, 2) /\ RightPart(rule, pat, 2)
  <2>1. UnaryAt(pat, 2, "bitcvt", 1) /\ 2 \in Nat \ {0}
    <3>1. 1 \in 1 .. 2 - 1 /\ 2 \in Nat \ {0}
      OBVIOUS
    <3> QED
      BY <1>2, <3>1, Zenon DEF UnaryAt
  <2>2. "bitcvt" \in TensorOps \ {"var"} /\ NumChildren("bitcvt") = 1
    BY Arities
  <2>3. OpIs(pat, metadata, 2, "bitcvt")
    BY <2>1, <2>2, UnaryPosition, Zenon
  <2>4. rule # 3
    OBVIOUS
  <2> QED
    BY <2>3, <2>4, Zenon DEF RightPart, VarIs, OpIs
<1>5. PositionOK(pat, metadata, 3) /\ RightPart(rule, pat, 3)
  <2>1. UnaryAt(pat, 3, "bitcvt", 2) /\ 3 \in Nat \ {0}
    <3>1. 2 \in 1 .. 3 - 1 /\ 3 \in Nat \ {0}
      OBVIOUS
    <3> QED
      BY <1>2, <3>1, Zenon DEF UnaryAt
  <2>2. "bitcvt" \in TensorOps \ {"var"} /\ NumChildren("bitcvt") = 1
    BY Arities
  <2>3. OpIs(pat, metadata, 3, "bitcvt")
    BY <2>1, <2>2, UnaryPosition, Zenon
  <2>4. rule # 3
    OBVIOUS
  <2> QED
    BY <2>3, <2>4, Zenon DEF RightPart, VarIs, OpIs
<1>6. \A j \in 1 .. 3 : j \in {1, 2, 3}
  OBVIOUS
<1>7. 3 \in Nat \ {0}
  OBVIOUS
<1>8. RhsFacts(rule, pat, metadata, 3)
  BY <1>2, <1>3, <1>4, <1>5, <1>6, <1>7, Zenon DEF RhsFacts
<1> QED
  BY <1>8 DEF pat

LEMMA Rhs5 ==
  ASSUME NEW rule, rule = 5, NEW metadata,
         MetaOK(metadata[2], "convert"),
         MetaOK(metadata[4], "convert"),
         MetaOK(metadata[5], "add"),
         MetaOK(metadata[6], "convert")
  PROVE  RhsFacts(rule, Rhs(rule), metadata, 6)
<1> DEFINE pat == Rhs(rule)
<1>1. pat = <<V("x"), N("convert", <<1>>), V("y"), N("convert", <<3>>), N("add", <<2, 4>>), N("convert", <<5>>)>>
  BY DEF Rhs
<1>2. /\ Len(pat) = 6
      /\ pat[1] = V("x")
      /\ pat[2] = N("convert", <<1>>)
      /\ pat[3] = V("y")
      /\ pat[4] = N("convert", <<3>>)
      /\ pat[5] = N("add", <<2, 4>>)
      /\ pat[6] = N("convert", <<5>>)
  BY <1>1
<1> HIDE DEF pat
<1>3. PositionOK(pat, metadata, 1) /\ RightPart(rule, pat, 1)
  <2>1. VarIs(pat, metadata, 1, "x")
    <3>1. "x" # ""
      BY Zenon
    <3> QED
      BY <1>2, <3>1, VarPosition, Zenon
  <2>2. "x" \in RuleVars(rule)
    BY DEF RuleVars
  <2>3. "x" # ""
    BY Zenon
  <2> QED
    BY <2>1, <2>2, <2>3, Zenon DEF RightPart, VarIs, OpIs
<1>4. PositionOK(pat, metadata, 2) /\ RightPart(rule, pat, 2)
  <2>1. UnaryAt(pat, 2, "convert", 1) /\ 2 \in Nat \ {0}
    <3>1. 1 \in 1 .. 2 - 1 /\ 2 \in Nat \ {0}
      OBVIOUS
    <3> QED
      BY <1>2, <3>1, Zenon DEF UnaryAt
  <2>2. "convert" \in TensorOps \ {"var"} /\ NumChildren("convert") = 1
    BY Arities
  <2>3. OpIs(pat, metadata, 2, "convert")
    BY <2>1, <2>2, UnaryPosition, Zenon
  <2>4. rule # 3
    OBVIOUS
  <2> QED
    BY <2>3, <2>4, Zenon DEF RightPart, VarIs, OpIs
<1>5. PositionOK(pat, metadata, 3) /\ RightPart(rule, pat, 3)
  <2>1. VarIs(pat, metadata, 3, "y")
    <3>1. "y" # ""
      BY Zenon
    <3> QED
      BY <1>2, <3>1, VarPosition, Zenon
  <2>2. "y" \in RuleVars(rule)
    BY DEF RuleVars
  <2>3. "y" # ""
    BY Zenon
  <2> QED
    BY <2>1, <2>2, <2>3, Zenon DEF RightPart, VarIs, OpIs
<1>6. PositionOK(pat, metadata, 4) /\ RightPart(rule, pat, 4)
  <2>1. UnaryAt(pat, 4, "convert", 3) /\ 4 \in Nat \ {0}
    <3>1. 3 \in 1 .. 4 - 1 /\ 4 \in Nat \ {0}
      OBVIOUS
    <3> QED
      BY <1>2, <3>1, Zenon DEF UnaryAt
  <2>2. "convert" \in TensorOps \ {"var"} /\ NumChildren("convert") = 1
    BY Arities
  <2>3. OpIs(pat, metadata, 4, "convert")
    BY <2>1, <2>2, UnaryPosition, Zenon
  <2>4. rule # 3
    OBVIOUS
  <2> QED
    BY <2>3, <2>4, Zenon DEF RightPart, VarIs, OpIs
<1>7. PositionOK(pat, metadata, 5) /\ RightPart(rule, pat, 5)
  <2>1. BinaryAt(pat, 5, "add", 2, 4) /\ 5 \in Nat \ {0}
    <3>1. 2 \in 1 .. 5 - 1 /\ 4 \in 1 .. 5 - 1 /\ 5 \in Nat \ {0}
      OBVIOUS
    <3> QED
      BY <1>2, <3>1, Zenon DEF BinaryAt
  <2>2. "add" \in TensorOps \ {"var"} /\ NumChildren("add") = 2
    BY Arities
  <2>3. OpIs(pat, metadata, 5, "add")
    BY <2>1, <2>2, BinaryPosition, Zenon
  <2>4. rule # 3
    OBVIOUS
  <2> QED
    BY <2>3, <2>4, Zenon DEF RightPart, VarIs, OpIs
<1>8. PositionOK(pat, metadata, 6) /\ RightPart(rule, pat, 6)
  <2>1. UnaryAt(pat, 6, "convert", 5) /\ 6 \in Nat \ {0}
    <3>1. 5 \in 1 .. 6 - 1 /\ 6 \in Nat \ {0}
      OBVIOUS
    <3> QED
      BY <1>2, <3>1, Zenon DEF UnaryAt
  <2>2. "convert" \in TensorOps \ {"var"} /\ NumChildren("convert") = 1
    BY Arities
  <2>3. OpIs(pat, metadata, 6, "convert")
    BY <2>1, <2>2, UnaryPosition, Zenon
  <2>4. rule # 3
    OBVIOUS
  <2> QED
    BY <2>3, <2>4, Zenon DEF RightPart, VarIs, OpIs
<1>9. \A j \in 1 .. 6 : j \in {1, 2, 3, 4, 5, 6}
  OBVIOUS
<1>10. 6 \in Nat \ {0}
  OBVIOUS
<1>11. RhsFacts(rule, pat, metadata, 6)
  BY <1>2, <1>3, <1>4, <1>5, <1>6, <1>7, <1>8, <1>9, <1>10, Zenon DEF RhsFacts
<1> QED
  BY <1>11 DEF pat

LEMMA Rhs7 ==
  ASSUME NEW rule, rule = 7, NEW metadata,
         MetaOK(metadata[2], "copy")
  PROVE  RhsFacts(rule, Rhs(rule), metadata, 2)
<1> DEFINE pat == Rhs(rule)
<1>1. pat = <<V("x"), N("copy", <<1>>)>>
  BY DEF Rhs
<1>2. /\ Len(pat) = 2
      /\ pat[1] = V("x")
      /\ pat[2] = N("copy", <<1>>)
  BY <1>1
<1> HIDE DEF pat
<1>3. PositionOK(pat, metadata, 1) /\ RightPart(rule, pat, 1)
  <2>1. VarIs(pat, metadata, 1, "x")
    <3>1. "x" # ""
      BY Zenon
    <3> QED
      BY <1>2, <3>1, VarPosition, Zenon
  <2>2. "x" \in RuleVars(rule)
    BY DEF RuleVars
  <2>3. "x" # ""
    BY Zenon
  <2> QED
    BY <2>1, <2>2, <2>3, Zenon DEF RightPart, VarIs, OpIs
<1>4. PositionOK(pat, metadata, 2) /\ RightPart(rule, pat, 2)
  <2>1. UnaryAt(pat, 2, "copy", 1) /\ 2 \in Nat \ {0}
    <3>1. 1 \in 1 .. 2 - 1 /\ 2 \in Nat \ {0}
      OBVIOUS
    <3> QED
      BY <1>2, <3>1, Zenon DEF UnaryAt
  <2>2. "copy" \in TensorOps \ {"var"} /\ NumChildren("copy") = 1
    BY Arities
  <2>3. OpIs(pat, metadata, 2, "copy")
    BY <2>1, <2>2, UnaryPosition, Zenon
  <2>4. rule # 3
    OBVIOUS
  <2> QED
    BY <2>3, <2>4, Zenon DEF RightPart, VarIs, OpIs
<1>5. \A j \in 1 .. 2 : j \in {1, 2}
  OBVIOUS
<1>6. 2 \in Nat \ {0}
  OBVIOUS
<1>7. RhsFacts(rule, pat, metadata, 2)
  BY <1>2, <1>3, <1>4, <1>5, <1>6, Zenon DEF RhsFacts
<1> QED
  BY <1>7 DEF pat

\* The rules whose right-hand side needs no string.
LEMMA RhsX ==
  ASSUME NEW rule \in {6, 8, 9, 10}, NEW metadata
  PROVE  RhsFacts(rule, Rhs(rule), metadata, 1)
<1> DEFINE pat == Rhs(rule)
<1>1. pat = <<V("x")>>
  BY DEF Rhs
<1>2. /\ Len(pat) = 1
      /\ pat[1] = V("x")
  BY <1>1
<1> HIDE DEF pat
<1>3. PositionOK(pat, metadata, 1) /\ RightPart(rule, pat, 1)
  <2>1. VarIs(pat, metadata, 1, "x")
    <3>1. "x" # ""
      BY Zenon
    <3> QED
      BY <1>2, <3>1, VarPosition, Zenon
  <2>2. "x" \in RuleVars(rule)
    BY DEF RuleVars
  <2>3. "x" # ""
    BY Zenon
  <2> QED
    BY <2>1, <2>2, <2>3, Zenon DEF RightPart, VarIs, OpIs
<1>4. \A j \in 1 .. 1 : j \in {1}
  OBVIOUS
<1>5. 1 \in Nat \ {0}
  OBVIOUS
<1>6. RhsFacts(rule, pat, metadata, 1)
  BY <1>2, <1>3, <1>4, <1>5, Zenon DEF RhsFacts
<1> QED
  BY <1>6 DEF pat

-----------------------------------------------------------------------------
(* The strings a rule computes, where its condition holds.                 *)

LEMMA DtypeIsText ==
  ASSUME NEW dtype \in Dtypes
  PROVE  dtype \in Texts /\ dtype # ""
<1>1. "" \notin Dtypes
  BY Zenon DEF Dtypes
<1> QED
  BY <1>1, Zenon DEF Texts

LEMMA InfoFacts ==
  /\ \A t \in Infos : t.shape \in Seq(Nat) /\ t.dtype \in Dtypes
  /\ \A shape \in Seq(Nat), dtype \in Dtypes : Info(shape, dtype) \in Infos
  /\ \A shape, dtype : Info(shape, dtype).shape = shape /\ Info(shape, dtype).dtype = dtype
BY DEF Infos, Info

\* What the rule's condition says where its strings and shapes depend on it.
Allowed(rule, t, ens) ==
  /\ t[1] \in Infos
  /\ rule = 0 => Precond_0(t)
  /\ rule = 1 => t[2] \in Infos /\ t[3] \in Infos /\ ens[3].data \in Seq(Nat) /\ ens[3].data # <<>>
  /\ rule = 3 => Precond_3(t)

\* Rule 0 halves the rows.
LEMMA HalvesFacts ==
  ASSUME NEW t, t[1] \in Infos, Precond_0(t)
  PROVE  /\ Halves(t) * Side \in Nat /\ (Halves(t) \div 2) * Side \in Nat /\ Side \in Nat
<1> DEFINE i == Halves(t)
           a == t[1].shape[1]
<1>1. t[1] = Info(<<i * Side, Side>>, "I32") /\ i >= 2
  <2>1. 1 \in {1, 3, 4, 5}
    OBVIOUS
  <2> QED
    BY <2>1, Zenon DEF Precond_0
<1>2. t[1].shape = <<i * Side, Side>> /\ t[1].shape \in Seq(Nat)
  BY <1>1, InfoFacts, Zenon
<1>3. a \in Nat
  <2> DEFINE s == t[1].shape
  <2>1. s \in Seq(Nat) /\ Len(s) = 2
    BY <1>2
  <2> HIDE DEF s
  <2>2. s[1] \in Nat
    BY <2>1
  <2> QED
    BY <2>2 DEF s
<1>4. Side \in Nat \ {0}
  BY SideAssumption
<1>5. i = a \div Side
  BY DEF Halves
<1> HIDE DEF a, i
<1>6. i \in Nat
  BY <1>3, <1>4, <1>5
<1>7. i \div 2 \in Nat
  BY <1>6
<1>8. Side \in Nat
  BY <1>4
<1> QED
  BY <1>6, <1>7, <1>8, TimesIsNat DEF i

LEMMA ListIsSeq ==
  /\ \A a \in Nat : <<a>> \in Seq(Nat) /\ <<a>> # <<>>
  /\ \A a, b \in Nat : <<a, b>> \in Seq(Nat) /\ <<a, b>> # <<>>
OBVIOUS

LEMMA MetadataOps ==
  /\ {"slice", "concat", "convert", "reshape", "eye"} \subseteq HasMetadata
  /\ {"convert", "reshape", "eye", "concat"} \subseteq HasMetadata \ {"slice"}
  /\ \A op \in {"dot", "add", "bitcvt", "copy"} : op \notin HasMetadata \cup {"var"}
BY DEF HasMetadata, Reductions

\* Rule by rule: the strings are what the operations take.
LEMMA Metadata0 ==
  ASSUME NEW t, t[1] \in Infos, Precond_0(t), NEW M, M = Metadata_0(t)
  PROVE  /\ \A k \in {2, 6, 8, 10} : MetaOK(M[k], "slice")
         /\ \A k \in {4, 9} : MetaOK(M[k], "dot")
         /\ \A k \in {7, 11} : MetaOK(M[k], "add")
         /\ MetaOK(M[12], "concat")
<1> DEFINE a == (Halves(t) \div 2) * Side
           b == Halves(t) * Side
<1>1. a \in Nat /\ b \in Nat
  BY HalvesFacts
<1>2. M = [k \in 1 .. 12 |-> CASE k \in {2, 6} -> List(<<0, a>>) [] k \in {8, 10} -> List(<<a, b>>)
                           [] k = 12 -> List(<<1>>) [] OTHER -> None]
  BY DEF Metadata_0
<1> HIDE DEF a, b
<1>3. /\ \A k \in {2, 6} : M[k] = List(<<0, a>>)
      /\ \A k \in {8, 10} : M[k] = List(<<a, b>>)
      /\ M[12] = List(<<1>>)
      /\ \A k \in {4, 9, 7, 11} : M[k] = None
  BY <1>2
<1>4. /\ <<0, a>> \in Seq(Nat) /\ <<0, a>> # <<>> /\ <<a, b>> \in Seq(Nat) /\ <<a, b>> # <<>>
      /\ <<1>> \in Seq(Nat) /\ <<1>> # <<>>
  BY <1>1, ListIsSeq
<1>5. ASSUME NEW k \in {2, 6} PROVE MetaOK(M[k], "slice")
  <2>1. M[k] = List(<<0, a>>)
    BY <1>3
  <2> QED
    BY <1>4, <2>1, ListString, MetadataOps, Zenon
<1>6. ASSUME NEW k \in {8, 10} PROVE MetaOK(M[k], "slice")
  <2>1. M[k] = List(<<a, b>>)
    BY <1>3
  <2> QED
    BY <1>4, <2>1, ListString, MetadataOps, Zenon
<1>7. MetaOK(M[12], "concat")
  BY <1>3, <1>4, ListString, MetadataOps, Zenon
<1>8. ASSUME NEW k \in {4, 9} PROVE MetaOK(M[k], "dot")
  <2>1. M[k] = None
    BY <1>3
  <2>2. "dot" \notin HasMetadata \cup {"var"}
    BY MetadataOps
  <2> QED
    BY <2>1, <2>2, NoString, Zenon
<1>9. ASSUME NEW k \in {7, 11} PROVE MetaOK(M[k], "add")
  <2>1. M[k] = None
    BY <1>3
  <2>2. "add" \notin HasMetadata \cup {"var"}
    BY MetadataOps
  <2> QED
    BY <2>1, <2>2, NoString, Zenon
<1>10. \A k \in {2, 6, 8, 10} : k \in {2, 6} \/ k \in {8, 10}
  OBVIOUS
<1> QED
  BY <1>5, <1>6, <1>7, <1>8, <1>9, <1>10, Zenon

LEMMA Metadata1 ==
  ASSUME NEW t, t[2] \in Infos, NEW ens, ens[3].data \in Seq(Nat), ens[3].data # <<>>,
         NEW M, M = Metadata_1(t, ens)
  PROVE  MetaOK(M[2], "slice") /\ MetaOK(M[3], "convert")
<1>1. M[2] = List(ens[3].data) /\ M[3] = Str(t[2].dtype)
  BY DEF Metadata_1
<1>2. t[2].dtype \in Texts /\ t[2].dtype # ""
  BY InfoFacts, DtypeIsText, Zenon
<1>3. MetaOK(M[2], "slice")
  <2>1. "slice" \in HasMetadata
    BY MetadataOps
  <2> QED
    BY <1>1, <2>1, ListString, Zenon
<1>4. MetaOK(M[3], "convert")
  <2>1. "convert" \in HasMetadata \ {"slice"}
    BY MetadataOps
  <2> QED
    BY <1>1, <1>2, <2>1, TextString, Zenon
<1> QED
  BY <1>3, <1>4

LEMMA Metadata2 ==
  ASSUME NEW t, t[1] \in Infos, NEW M, M = Metadata_2(t)
  PROVE  MetaOK(M[2], "eye") /\ MetaOK(M[3], "dot")
<1>1. M[2] = [text |-> t[1].dtype, data |-> t[1].shape] /\ M[3] = None
  BY DEF Metadata_2
<1>2. M[2].text = t[1].dtype /\ M[2].data = t[1].shape
  BY <1>1
<1>3. t[1].dtype \in Texts /\ t[1].dtype # "" /\ t[1].shape \in Seq(Nat)
  BY InfoFacts, DtypeIsText, Zenon
<1>4. "eye" \in HasMetadata /\ "eye" # "slice"
  BY MetadataOps
<1>5. MetaOK(M[2], "eye")
  BY <1>2, <1>3, <1>4, Zenon DEF MetaOK
<1>6. "dot" \notin HasMetadata \cup {"var"}
  BY MetadataOps
<1>7. MetaOK(M[3], "dot")
  BY <1>1, <1>6, NoString, Zenon
<1> QED
  BY <1>5, <1>7

LEMMA Metadata3 ==
  ASSUME NEW t, t[1] \in Infos, Precond_3(t), NEW M, M = Metadata_3(t)
  PROVE  MetaOK(M[2], "reshape") /\ MetaOK(M[3], "reshape")
<1> DEFINE shape == t[1].shape
           size == Product(shape)
<1>1. M[2] = List(<<size>>) /\ M[3] = List(shape)
  BY DEF Metadata_3
<1>2. shape \in Seq(Nat) /\ Len(shape) > 1
  BY InfoFacts DEF Precond_3
<1>3. size \in Nat
  BY <1>2, ProductIsNat
<1>4. <<size>> \in Seq(Nat) /\ <<size>> # <<>>
  BY <1>3, ListIsSeq
<1> HIDE DEF shape, size
<1>5. shape # <<>>
  BY <1>2
<1>6. "reshape" \in HasMetadata
  BY MetadataOps
<1> QED
  BY <1>1, <1>2, <1>4, <1>5, <1>6, ListString, Zenon

LEMMA Metadata5 ==
  ASSUME NEW t, NEW M, M = Metadata_5(t)
  PROVE  MetaOK(M[2], "convert") /\ MetaOK(M[4], "convert") /\ MetaOK(M[5], "add") /\ MetaOK(M[6], "convert")
<1>1. M[2] = Str("I32") /\ M[4] = Str("I32") /\ M[5] = None /\ M[6] = Str("I8")
  BY DEF Metadata_5
<1>2. "I32" \in Texts /\ "I32" # "" /\ "I8" \in Texts /\ "I8" # ""
  <2>1. "I32" \in Dtypes /\ "I8" \in Dtypes
    BY Zenon DEF Dtypes
  <2> QED
    BY <2>1, DtypeIsText, Zenon
<1>3. "convert" \in HasMetadata \ {"slice"} /\ "add" \notin HasMetadata \cup {"var"}
  BY MetadataOps
<1>4. MetaOK(M[2], "convert")
  BY <1>1, <1>2, <1>3, TextString, Zenon
<1>5. MetaOK(M[4], "convert")
  BY <1>1, <1>2, <1>3, TextString, Zenon
<1>6. MetaOK(M[6], "convert")
  BY <1>1, <1>2, <1>3, TextString, Zenon
<1>7. MetaOK(M[5], "add")
  BY <1>1, <1>3, NoString, Zenon
<1> QED
  BY <1>4, <1>5, <1>6, <1>7

\* The right-hand side of every rule, with the strings of a match that it allows.
LEMMA RhsIsOK ==
  ASSUME NEW rule \in Rules, NEW t, NEW ens, Allowed(rule, t, ens)
  PROVE  \E n : RhsFacts(rule, Rhs(rule), Metadata(rule, t, ens), n)
<1> DEFINE M == Metadata(rule, t, ens)
<1>1. t[1] \in Infos
  BY DEF Allowed
<1>2. CASE rule = 0
  <2>1. M = Metadata_0(t) /\ Precond_0(t)
    BY <1>2 DEF Metadata, Allowed
  <2> HIDE DEF M
  <2>2. /\ \A k \in {2, 6, 8, 10} : MetaOK(M[k], "slice")
        /\ \A k \in {4, 9} : MetaOK(M[k], "dot")
        /\ \A k \in {7, 11} : MetaOK(M[k], "add")
        /\ MetaOK(M[12], "concat")
    BY <1>1, <2>1, Metadata0, Zenon
  <2>3. /\ MetaOK(M[2], "slice") /\ MetaOK(M[4], "dot") /\ MetaOK(M[6], "slice") /\ MetaOK(M[7], "add")
        /\ MetaOK(M[8], "slice") /\ MetaOK(M[9], "dot") /\ MetaOK(M[10], "slice") /\ MetaOK(M[11], "add")
        /\ MetaOK(M[12], "concat")
    BY <2>2, Zenon
  <2>4. RhsFacts(rule, Rhs(rule), M, 12)
    BY <1>2, <2>3, Rhs0, Zenon
  <2> QED
    BY <2>4 DEF M
<1>3. CASE rule = 1
  <2>1. M = Metadata_1(t, ens) /\ ens[3].data \in Seq(Nat) /\ ens[3].data # <<>>
    BY <1>3 DEF Metadata, Allowed
  <2>2. t[2] \in Infos
    BY <1>3 DEF Allowed
  <2> HIDE DEF M
  <2>3. MetaOK(M[2], "slice") /\ MetaOK(M[3], "convert")
    BY <2>1, <2>2, Metadata1, Zenon
  <2>4. RhsFacts(rule, Rhs(rule), M, 3)
    BY <1>3, <2>3, Rhs1, Zenon
  <2> QED
    BY <2>4 DEF M
<1>4. CASE rule = 2
  <2>1. M = Metadata_2(t)
    BY <1>4 DEF Metadata
  <2> HIDE DEF M
  <2>2. MetaOK(M[2], "eye") /\ MetaOK(M[3], "dot")
    BY <1>1, <2>1, Metadata2, Zenon
  <2>3. RhsFacts(rule, Rhs(rule), M, 3)
    BY <1>4, <2>2, Rhs2, Zenon
  <2> QED
    BY <2>3 DEF M
<1>5. CASE rule = 3
  <2>1. M = Metadata_3(t) /\ Precond_3(t)
    BY <1>5 DEF Metadata, Allowed
  <2> HIDE DEF M
  <2>2. MetaOK(M[2], "reshape") /\ MetaOK(M[3], "reshape")
    BY <1>1, <2>1, Metadata3, Zenon
  <2>3. RhsFacts(rule, Rhs(rule), M, 3)
    BY <1>5, <2>2, Rhs3, Zenon
  <2> QED
    BY <2>3 DEF M
<1>6. CASE rule = 5
  <2>1. M = Metadata_5(t)
    BY <1>6 DEF Metadata
  <2> HIDE DEF M
  <2>2. MetaOK(M[2], "convert") /\ MetaOK(M[4], "convert") /\ MetaOK(M[5], "add") /\ MetaOK(M[6], "convert")
    BY <2>1, Metadata5, Zenon
  <2>3. RhsFacts(rule, Rhs(rule), M, 6)
    BY <1>6, <2>2, Rhs5, Zenon
  <2> QED
    BY <2>3 DEF M
<1>7. CASE rule = 4
  <2>1. M = [k \in DOMAIN Rhs(rule) |-> None]
    BY <1>7 DEF Metadata
  <2>2. DOMAIN Rhs(rule) = 1 .. 3
    BY <1>7 DEF Rhs
  <2>3. M[2] = None /\ M[3] = None
    BY <2>1, <2>2
  <2> HIDE DEF M
  <2>4. "bitcvt" \notin HasMetadata \cup {"var"}
    BY MetadataOps
  <2>5. MetaOK(M[2], "bitcvt") /\ MetaOK(M[3], "bitcvt")
    BY <2>3, <2>4, NoString, Zenon
  <2>6. RhsFacts(rule, Rhs(rule), M, 3)
    BY <1>7, <2>5, Rhs4, Zenon
  <2> QED
    BY <2>6 DEF M
<1>8. CASE rule = 7
  <2>1. M = [k \in DOMAIN Rhs(rule) |-> None]
    BY <1>8 DEF Metadata
  <2>2. DOMAIN Rhs(rule) = 1 .. 2
    BY <1>8 DEF Rhs
  <2>3. M[2] = None
    BY <2>1, <2>2
  <2> HIDE DEF M
  <2>4. "copy" \notin HasMetadata \cup {"var"}
    BY MetadataOps
  <2>5. MetaOK(M[2], "copy")
    BY <2>3, <2>4, NoString, Zenon
  <2>6. RhsFacts(rule, Rhs(rule), M, 2)
    BY <1>8, <2>5, Rhs7, Zenon
  <2> QED
    BY <2>6 DEF M
<1>9. CASE rule \in {6, 8, 9, 10}
  <2> HIDE DEF M
  <2>1. RhsFacts(rule, Rhs(rule), M, 1)
    BY <1>9, RhsX, Zenon
  <2> QED
    BY <2>1 DEF M
<1>10. rule \in 0 .. 10
  BY DEF Rules
<1> HIDE DEF M
<1> QED
  BY <1>2, <1>3, <1>4, <1>5, <1>6, <1>7, <1>8, <1>9, <1>10 DEF M

-----------------------------------------------------------------------------
(* The TensorInfos a rule computes, where its condition holds.             *)

InfosOn(S, D) == DOMAIN S = D /\ \A k \in D : S[k] \in Infos

LEMMA TypedShapes ==
  ASSUME NEW S, NEW D, NEW b, b # "raw", InfosOn(S, D)
  PROVE  Shapes(S, b)
BY Zenon DEF Shapes, InfosOn

LEMMA PairIsShape ==
  ASSUME NEW a \in Nat, NEW b \in Nat, NEW dtype \in Dtypes
  PROVE  Info(<<a, b>>, dtype) \in Infos
<1>1. <<a, b>> \in Seq(Nat)
  OBVIOUS
<1> QED
  BY <1>1, InfoFacts, Zenon

\* Rule by rule: the TensorInfos are shapes of naturals and a type.
LEMMA Shapes0 ==
  ASSUME NEW t, t[1] \in Infos, Precond_0(t)
  PROVE  InfosOn(SetShapes_0(t), {2, 4} \cup 6 .. 12)
<1> DEFINE a == (Halves(t) \div 2) * Side
           b == Halves(t) * Side
<1>1. a \in Nat /\ b \in Nat /\ Side \in Nat
  BY HalvesFacts
<1>2. SetShapes_0(t) = [k \in {2, 4} \cup 6 .. 12 |-> Info(<<IF k = 12 THEN b ELSE a, Side>>, "I32")]
  BY DEF SetShapes_0
<1> HIDE DEF a, b
<1>3. "I32" \in Dtypes
  BY Zenon DEF Dtypes
<1>4. \A k : Info(<<IF k = 12 THEN b ELSE a, Side>>, "I32") \in Infos
  <2> SUFFICES ASSUME NEW k PROVE Info(<<IF k = 12 THEN b ELSE a, Side>>, "I32") \in Infos
    OBVIOUS
  <2>1. (IF k = 12 THEN b ELSE a) \in Nat
    BY <1>1
  <2> QED
    BY <1>1, <1>3, <2>1, PairIsShape, Zenon
<1> QED
  BY <1>2, <1>4, Zenon DEF InfosOn

LEMMA Shapes1 ==
  ASSUME NEW t, t[1] \in Infos, t[2] \in Infos, t[3] \in Infos
  PROVE  InfosOn(SetShapes_1(t), {2, 3})
<1>1. \A k \in {2, 3} : Info(t[3].shape, t[k - 1].dtype) \in Infos
  <2>1. Info(t[3].shape, t[1].dtype) \in Infos /\ Info(t[3].shape, t[2].dtype) \in Infos
    BY InfoFacts, Zenon
  <2>2. 2 - 1 = 1 /\ 3 - 1 = 2
    OBVIOUS
  <2> QED
    BY <2>1, <2>2, Zenon
<1> QED
  BY <1>1, Zenon DEF InfosOn, SetShapes_1

LEMMA Shapes2 ==
  ASSUME NEW t, t[1] \in Infos
  PROVE  InfosOn(SetShapes_2(t), {2, 3})
BY Zenon DEF InfosOn, SetShapes_2

LEMMA Shapes3 ==
  ASSUME NEW t, t[1] \in Infos, t[1].dtype = "U8", NEW b
  PROVE  Shapes(SetShapes_3(t), b) /\ DOMAIN SetShapes_3(t) = {2, 3}
<1> DEFINE S == SetShapes_3(t)
           size == Product(t[1].shape)
<1>1. DOMAIN S = {2, 3} /\ S[2] = Info(<<size>>, t[1].dtype) /\ S[3] = t[1]
  BY DEF SetShapes_3
<1>2. size \in Nat
  BY InfoFacts, ProductIsNat
<1>3. <<size>> \in Seq(Nat)
  BY <1>2, ListIsSeq
<1>4. Info(<<size>>, t[1].dtype) \in Infos /\ Info(<<size>>, t[1].dtype).dtype = t[1].dtype
  BY <1>3, InfoFacts, Zenon
<1> HIDE DEF S, size
<1>5. \A k \in DOMAIN S : S[k] \in Infos /\ S[k].dtype = "U8"
  BY <1>1, <1>4, Zenon
<1> QED
  BY <1>1, <1>5, Zenon DEF Shapes, S

LEMMA SizeIsNat == \A dtype : SizeInBytes(dtype) \in Nat \ {0}
BY DEF SizeInBytes

LEMMA Shapes4 ==
  ASSUME NEW t, t[1] \in Infos
  PROVE  InfosOn(SetShapes_4(t), {2, 3})
<1> DEFINE S == SetShapes_4(t)
           size == SizeInBytes(t[1].dtype)
           shape == IF size = 1 THEN t[1].shape ELSE Append(t[1].shape, size)
<1>1. DOMAIN S = {2, 3} /\ S[2] = Info(shape, "U8") /\ S[3] = t[1]
  BY DEF SetShapes_4
<1>2. shape \in Seq(Nat)
  <2>1. size \in Nat
    BY SizeIsNat
  <2>2. t[1].shape \in Seq(Nat)
    BY InfoFacts
  <2>3. Append(t[1].shape, size) \in Seq(Nat)
    BY <2>1, <2>2, AppendFacts
  <2> QED
    BY <2>2, <2>3, Zenon
<1>3. "U8" \in Dtypes
  BY Zenon DEF Dtypes
<1>4. Info(shape, "U8") \in Infos
  BY <1>2, <1>3, InfoFacts, Zenon
<1> HIDE DEF S, shape
<1>5. \A k \in DOMAIN S : S[k] \in Infos
  BY <1>1, <1>4, Zenon
<1> QED
  BY <1>1, <1>5, Zenon DEF InfosOn, S

LEMMA Shapes5 ==
  ASSUME NEW t, t[1] \in Infos
  PROVE  InfosOn(SetShapes_5(t), {2, 4, 5, 6})
<1>1. "I8" \in Dtypes /\ "I32" \in Dtypes
  BY Zenon DEF Dtypes
<1>2. \A k : Info(t[1].shape, IF k = 6 THEN "I8" ELSE "I32") \in Infos
  BY <1>1, InfoFacts, Zenon
<1> QED
  BY <1>2, Zenon DEF InfosOn, SetShapes_5

LEMMA Shapes7 ==
  ASSUME NEW t, t[1] \in Infos
  PROVE  InfosOn(SetShapes_7(t), {2})
BY Zenon DEF InfosOn, SetShapes_7

LEMMA NoShapes == \A b : Shapes(<<>>, b) /\ DOMAIN <<>> = {}
BY DEF Shapes

\* The TensorInfos for the right-hand side, of bytes those of bytes.
LEMMA SetShapesFit ==
  ASSUME NEW rule \in Rules, NEW t, NEW ens, Allowed(rule, t, ens),
         NEW b \in {"raw", "typed"}, b = "raw" => rule = 3
  PROVE  Shapes(SetShapes(rule, t), b) /\ DOMAIN SetShapes(rule, t) \subseteq 1 .. Len(Rhs(rule))
<1> DEFINE S == SetShapes(rule, t)
<1>1. t[1] \in Infos
  BY DEF Allowed
<1>2. CASE rule = 0
  <2>1. S = SetShapes_0(t) /\ Precond_0(t)
    BY <1>2 DEF SetShapes, Allowed
  <2>2. Len(Rhs(rule)) = 12
    BY <1>2 DEF Rhs
  <2> HIDE DEF S
  <2>3. InfosOn(S, {2, 4} \cup 6 .. 12)
    BY <1>1, <2>1, Shapes0, Zenon
  <2>4. {2, 4} \cup 6 .. 12 \subseteq 1 .. 12 /\ b # "raw"
    BY <1>2
  <2>5. Shapes(S, b) /\ DOMAIN S = {2, 4} \cup 6 .. 12
    BY <2>3, <2>4, TypedShapes, Zenon DEF InfosOn
  <2> QED
    BY <2>2, <2>4, <2>5, Zenon DEF S
<1>3. CASE rule = 1
  <2>1. S = SetShapes_1(t)
    BY <1>3 DEF SetShapes
  <2>2. Len(Rhs(rule)) = 3
    BY <1>3 DEF Rhs
  <2> HIDE DEF S
  <2>3. InfosOn(S, {2, 3})
    BY <1>1, <1>3, <2>1, Shapes1, Zenon DEF Allowed
  <2>4. {2, 3} \subseteq 1 .. 3 /\ b # "raw"
    BY <1>3
  <2>5. Shapes(S, b) /\ DOMAIN S = {2, 3}
    BY <2>3, <2>4, TypedShapes, Zenon DEF InfosOn
  <2> QED
    BY <2>2, <2>4, <2>5, Zenon DEF S
<1>4. CASE rule = 2
  <2>1. S = SetShapes_2(t)
    BY <1>4 DEF SetShapes
  <2>2. Len(Rhs(rule)) = 3
    BY <1>4 DEF Rhs
  <2> HIDE DEF S
  <2>3. InfosOn(S, {2, 3})
    BY <1>1, <2>1, Shapes2, Zenon
  <2>4. {2, 3} \subseteq 1 .. 3 /\ b # "raw"
    BY <1>4
  <2>5. Shapes(S, b) /\ DOMAIN S = {2, 3}
    BY <2>3, <2>4, TypedShapes, Zenon DEF InfosOn
  <2> QED
    BY <2>2, <2>4, <2>5, Zenon DEF S
<1>5. CASE rule = 3
  <2>1. S = SetShapes_3(t) /\ Precond_3(t)
    BY <1>5 DEF SetShapes, Allowed
  <2>2. Len(Rhs(rule)) = 3
    BY <1>5 DEF Rhs
  <2>3. t[1].dtype = "U8"
    BY <2>1, Zenon DEF Precond_3
  <2> HIDE DEF S
  <2>4. Shapes(S, b) /\ DOMAIN S = {2, 3}
    BY <1>1, <2>1, <2>3, Shapes3, Zenon
  <2>5. {2, 3} \subseteq 1 .. 3
    OBVIOUS
  <2> QED
    BY <2>2, <2>4, <2>5, Zenon DEF S
<1>6. CASE rule = 4
  <2>1. S = SetShapes_4(t)
    BY <1>6 DEF SetShapes
  <2>2. Len(Rhs(rule)) = 3
    BY <1>6 DEF Rhs
  <2> HIDE DEF S
  <2>3. InfosOn(S, {2, 3})
    BY <1>1, <2>1, Shapes4, Zenon
  <2>4. {2, 3} \subseteq 1 .. 3 /\ b # "raw"
    BY <1>6
  <2>5. Shapes(S, b) /\ DOMAIN S = {2, 3}
    BY <2>3, <2>4, TypedShapes, Zenon DEF InfosOn
  <2> QED
    BY <2>2, <2>4, <2>5, Zenon DEF S
<1>7. CASE rule = 5
  <2>1. S = SetShapes_5(t)
    BY <1>7 DEF SetShapes
  <2>2. Len(Rhs(rule)) = 6
    BY <1>7 DEF Rhs
  <2> HIDE DEF S
  <2>3. InfosOn(S, {2, 4, 5, 6})
    BY <1>1, <2>1, Shapes5, Zenon
  <2>4. {2, 4, 5, 6} \subseteq 1 .. 6 /\ b # "raw"
    BY <1>7
  <2>5. Shapes(S, b) /\ DOMAIN S = {2, 4, 5, 6}
    BY <2>3, <2>4, TypedShapes, Zenon DEF InfosOn
  <2> QED
    BY <2>2, <2>4, <2>5, Zenon DEF S
<1>8. CASE rule = 7
  <2>1. S = SetShapes_7(t)
    BY <1>8 DEF SetShapes
  <2>2. Len(Rhs(rule)) = 2
    BY <1>8 DEF Rhs
  <2> HIDE DEF S
  <2>3. InfosOn(S, {2})
    BY <1>1, <2>1, Shapes7, Zenon
  <2>4. {2} \subseteq 1 .. 2 /\ b # "raw"
    BY <1>8
  <2>5. Shapes(S, b) /\ DOMAIN S = {2}
    BY <2>3, <2>4, TypedShapes, Zenon DEF InfosOn
  <2> QED
    BY <2>2, <2>4, <2>5, Zenon DEF S
<1>9. CASE rule \in {6, 8, 9, 10}
  <2>1. S = <<>>
    BY <1>9 DEF SetShapes
  <2> QED
    BY <2>1, NoShapes
<1>10. rule \in 0 .. 10
  BY DEF Rules
<1> HIDE DEF S
<1> QED
  BY <1>2, <1>3, <1>4, <1>5, <1>6, <1>7, <1>8, <1>9, <1>10 DEF S

-----------------------------------------------------------------------------
(* A match and its substitution, while the e-graph grows.                  *)

\* The substitution that a match of the rule came with.
SubstOK(g, kind, rule, cls, subst) ==
  /\ rule \in Rules /\ cls \in Ids(g)
  /\ \A v \in RuleVars(rule) :
       subst[v] \in Ids(g) /\ (kind[subst[v]] = "typed" <=> kind[cls] = "typed")
  /\ rule \in {2, 3, 4, 7} => subst["x"] = cls
  /\ rule \in {0, 1, 5, 6, 8, 10} => kind[cls] = "typed"

\* A substitution that was collected stays one while the rules are applied.
LEMMA SubstStaysOK ==
  ASSUME NEW g, NEW kind, Sound(g, kind), NEW h, NEW more, Sound(h, more), Grows(g, kind, h, more),
         NEW rule, NEW cls, NEW subst, SubstOK(g, kind, rule, cls, subst)
  PROVE  SubstOK(h, more, rule, cls, subst)
<1>1. g \in EGraphs /\ h \in EGraphs
  BY DEF Sound, IsEGraph
<1>2. \A id \in Ids(g) : id \in Ids(h) /\ more[id] = kind[id]
  BY <1>1, EGraphFacts DEF Grows
<1> QED
  BY <1>2, Zenon DEF SubstOK

Improved(g, kind, h) == \E more : Sound(h, more) /\ Grows(g, kind, h, more)

\* A match of the whole left-hand side, found in this e-graph or before it grew.
MatchOf(g, kind, rule, n, m, cls) ==
  /\ LhsFacts(rule, Lhs(rule), Sizes(rule), n)
  /\ DOMAIN m.ids = 1 .. n
  /\ \A i \in 1 .. n :
       m.ids[i] \in Ids(g) /\ (kind[m.ids[i]] = "typed" <=> kind[cls] = "typed")
  /\ kind[m.ids[n]] = kind[cls]
  /\ rule = 1 => m.ens[3] \in ENodes /\ HasParts(m.ens[3]) /\ m.ens[3].op = "slice"

\* What find_matches returns can be given to the rule.
LEMMA FoundIsMatch ==
  ASSUME NEW g, NEW kind, Sound(g, kind), NEW rule, NEW n, NEW m, NEW cls \in Ids(g),
         LhsFacts(rule, Lhs(rule), Sizes(rule), n),
         MatchOK(g, kind, Lhs(rule)[n], n, m, Find(g, cls))
  PROVE  MatchOf(g, kind, rule, n, m, cls)
<1> DEFINE c == Find(g, cls)
<1>1. Uniform(g, kind, m, n, c) /\ m.ids[n] = c
  BY Zenon DEF MatchOK
<1>2. kind[c] = kind[cls]
  BY Zenon DEF Sound, IsKinded
<1> HIDE DEF c
<1>3. DOMAIN m.ids = 1 .. n
  BY <1>1 DEF Uniform, Matches
<1>4. \A i \in 1 .. n :
        m.ids[i] \in Ids(g) /\ (kind[m.ids[i]] = "typed" <=> kind[cls] = "typed")
  <2> SUFFICES ASSUME NEW i \in 1 .. n
               PROVE  m.ids[i] \in Ids(g) /\ (kind[m.ids[i]] = "typed" <=> kind[cls] = "typed")
    OBVIOUS
  <2>1. m.ids[i] \in Classes(g) /\ (kind[m.ids[i]] = "typed" <=> kind[c] = "typed")
    BY <1>1, Zenon DEF Uniform
  <2>2. m.ids[i] \in Ids(g)
    BY <2>1, ClassesAreNumbers, Zenon
  <2> QED
    BY <1>2, <2>1, <2>2, Zenon
<1>5. ASSUME rule = 1
      PROVE  m.ens[3] \in ENodes /\ HasParts(m.ens[3]) /\ m.ens[3].op = "slice"
  <2>1. rule \in {1, 9} /\ rule \in {0, 1, 5, 6, 8, 10}
    BY <1>5
  <2>2. n = 3 /\ Lhs(rule)[3].var = "" /\ Lhs(rule)[3].op = "slice"
    BY <1>5, <2>1, Zenon DEF LhsFacts
  <2> QED
    BY <2>2, Zenon DEF MatchOK
<1> QED
  BY <1>1, <1>2, <1>3, <1>4, <1>5, Zenon DEF MatchOf

\* A match found earlier is one of the e-graph that has grown.
LEMMA MatchStays ==
  ASSUME NEW g, NEW kind, Sound(g, kind), NEW h, NEW more, Sound(h, more), Grows(g, kind, h, more),
         NEW rule, NEW n, NEW m, NEW cls \in Ids(g), MatchOf(g, kind, rule, n, m, cls)
  PROVE  MatchOf(h, more, rule, n, m, cls)
<1>1. g \in EGraphs /\ h \in EGraphs
  BY DEF Sound, IsEGraph
<1>2. \A id \in Ids(g) : id \in Ids(h) /\ more[id] = kind[id]
  BY <1>1, EGraphFacts DEF Grows
<1>3. n \in Nat \ {0}
  BY Zenon DEF MatchOf, LhsFacts
<1>4. n \in 1 .. n
  BY <1>3
<1> QED
  BY <1>2, <1>4, Zenon DEF MatchOf

InfoAt(g, kind, m, cls, t, k) ==
  /\ t[k] \in Infos /\ t[k] = g.info[Find(g, m.ids[k])]
  /\ kind[cls] # "typed" => t[k].dtype = "U8"

LEMMA InfosOfMatch ==
  ASSUME NEW g, NEW kind, Sound(g, kind), NEW rule, NEW n, NEW m, NEW cls,
         MatchOf(g, kind, rule, n, m, cls), NEW t, t = InfosOf(g, m.ids)
  PROVE  \A k \in 1 .. n : InfoAt(g, kind, m, cls, t, k)
<1>1. g.info \in Seq(Infos) /\ Len(g.info) = Len(g.uf) /\ Ids(g) = 1 .. Len(g.uf)
  BY EGraphFacts DEF Sound, IsEGraph
<1>2. \A id \in Ids(g) : g.info[id] \in Infos
  BY <1>1
<1> SUFFICES ASSUME NEW k \in 1 .. n
             PROVE  InfoAt(g, kind, m, cls, t, k)
  OBVIOUS
<1>3. m.ids[k] \in Ids(g) /\ (kind[m.ids[k]] = "typed" <=> kind[cls] = "typed") /\ k \in DOMAIN m.ids
  BY Zenon DEF MatchOf
<1> DEFINE c == Find(g, m.ids[k])
<1>4. c \in Ids(g) /\ kind[c] = kind[m.ids[k]]
  <2>1. c \in Classes(g)
    BY <1>3, Zenon DEF Sound, IsEGraph
  <2> QED
    BY <1>3, <2>1, ClassesAreNumbers, Zenon DEF Sound, IsKinded
<1>5. t[k] = g.info[c]
  BY <1>3, Zenon DEF InfosOf, InfoOf
<1> HIDE DEF c
<1>6. kind[c] # "typed" => g.info[c].dtype = "U8"
  BY <1>4, Zenon DEF Sound, IsKinded
<1> QED
  BY <1>2, <1>3, <1>4, <1>5, <1>6, Zenon DEF InfoAt, c

\* A match that passes the condition has the shapes its rule relies on.
LEMMA MatchIsAllowed ==
  ASSUME NEW g, NEW kind, Sound(g, kind), NEW rule \in Rules, NEW n, NEW m, NEW cls,
         MatchOf(g, kind, rule, n, m, cls), NEW t, t = InfosOf(g, m.ids),
         Precond(rule, g, m.ids, t)
  PROVE  Allowed(rule, t, m.ens)
<1>1. n \in Nat \ {0} /\ (rule \in {1, 9} => n = 3)
  BY Zenon DEF MatchOf, LhsFacts
<1>2. \A k \in 1 .. n : t[k] \in Infos
  BY InfosOfMatch, Zenon DEF InfoAt
<1>3. t[1] \in Infos
  <2>1. 1 \in 1 .. n
    BY <1>1
  <2> QED
    BY <1>2, <2>1, Zenon
<1>4. ASSUME rule = 0 PROVE Precond_0(t)
  BY <1>4 DEF Precond
<1>5. ASSUME rule = 3 PROVE Precond_3(t)
  BY <1>5 DEF Precond
<1>6. ASSUME rule = 1
      PROVE  t[2] \in Infos /\ t[3] \in Infos /\ m.ens[3].data \in Seq(Nat) /\ m.ens[3].data # <<>>
  <2>1. 2 \in 1 .. 3 /\ 3 \in 1 .. 3 /\ rule \in {1, 9}
    BY <1>6
  <2>2. 2 \in 1 .. n /\ 3 \in 1 .. n
    BY <1>1, <2>1, Zenon
  <2>3. m.ens[3] \in ENodes /\ HasParts(m.ens[3]) /\ m.ens[3].op = "slice"
    BY <1>6, Zenon DEF MatchOf
  <2>4. m.ens[3].data \in Seq(Nat)
    BY <2>3 DEF ENodes
  <2>5. m.ens[3].data # <<>>
    BY <2>3, Zenon DEF HasParts
  <2> QED
    BY <1>2, <2>2, <2>4, <2>5, Zenon
<1> QED
  BY <1>3, <1>4, <1>5, <1>6, Zenon DEF Allowed

\* Of what is made for a match: bytes for bytes, a type for a type.
MatchKind(kind, rule, cls) == kind[cls] = "typed" \/ (kind[cls] = "raw" /\ rule = 3)

\* All of a match's classes have the kind of its root.
LEMMA KindOfMatch ==
  ASSUME NEW g, NEW kind, Sound(g, kind), NEW rule, NEW n, NEW m, NEW cls, NEW subst,
         SubstOK(g, kind, rule, cls, subst),
         MatchOf(g, kind, rule, n, m, cls), NEW t, t = InfosOf(g, m.ids),
         Precond(rule, g, m.ids, t)
  PROVE  MatchKind(kind, rule, cls)
<1> SUFFICES ASSUME kind[cls] # "typed" PROVE kind[cls] = "raw" /\ rule = 3
  BY Zenon DEF MatchKind
<1>1. rule \in Rules /\ cls \in Ids(g) /\ rule \notin {0, 1, 5, 6, 8, 10}
  BY Zenon DEF SubstOK
<1>2. n \in Nat \ {0} /\ (rule \in {2, 3, 4, 7} => n = 1)
  BY Zenon DEF MatchOf, LhsFacts
<1>3. m.ids[n] \in Ids(g) /\ kind[m.ids[n]] = kind[cls]
  <2>1. n \in 1 .. n
    BY <1>2
  <2> QED
    BY <2>1, Zenon DEF MatchOf
<1>5. t[1].dtype = "U8" /\ t[1] = g.info[Find(g, m.ids[1])] /\ t[1] \in Infos
  <2>1. 1 \in 1 .. n
    BY <1>2
  <2>2. \A k \in 1 .. n : InfoAt(g, kind, m, cls, t, k)
    BY InfosOfMatch
  <2>3. InfoAt(g, kind, m, cls, t, 1)
    BY <2>1, <2>2, Zenon
  <2> QED
    BY <2>3, Zenon DEF InfoAt
<1>6. rule # 2
  <2>1. ASSUME rule = 2 PROVE FALSE
    <3>1. t[1] = Info(<<Side, Side>>, "I8")
      BY <2>1 DEF Precond, Precond_2
    <3>2. t[1].dtype = "I8"
      <4>1. Info(<<Side, Side>>, "I8").dtype = "I8"
        BY InfoFacts, Zenon
      <4> QED
        BY <3>1, <4>1, Zenon
    <3> QED
      BY <1>5, <3>2, Zenon
  <2> QED
    BY <2>1
<1>7. rule # 4 /\ rule # 7
  <2>1. ASSUME rule = 4 PROVE FALSE
    <3>1. Precond_4(t)
      BY <2>1 DEF Precond
    <3> QED
      BY <1>5, <3>1, Zenon DEF Precond_4
  <2>2. ASSUME rule = 7 PROVE FALSE
    <3>1. Precond_7(t)
      BY <2>2 DEF Precond
    <3> QED
      BY <1>5, <3>1, Zenon DEF Precond_7
  <2> QED
    BY <2>1, <2>2, Zenon
<1>8. rule # 9
  <2>1. ASSUME rule = 9 PROVE FALSE
    <3>1. Precond_9(t)
      BY <2>1 DEF Precond
    <3>2. t[1].dtype = "BF16"
      BY <3>1, Zenon DEF Precond_9
    <3> QED
      BY <1>5, <3>2, Zenon
  <2> QED
    BY <2>1
<1>9. rule = 3
  <2>1. rule \in 0 .. 10
    BY <1>1 DEF Rules
  <2> QED
    BY <1>1, <1>6, <1>7, <1>8, <2>1
<1>10. kind[cls] # "input"
  <2>1. ASSUME kind[cls] = "input" PROVE FALSE
    <3>1. n = 1
      BY <1>2, <1>9
    <3>2. m.ids[1] \in Ids(g) /\ kind[m.ids[1]] = "input"
      BY <1>3, <2>1, <3>1, Zenon
    <3>3. Find(g, m.ids[1]) = m.ids[1] /\ Len(g.info[m.ids[1]].shape) <= 1
      BY <3>2, Zenon DEF Sound, IsKinded
    <3>4. Precond_3(t)
      BY <1>9 DEF Precond
    <3>5. Len(t[1].shape) > 1 /\ Len(t[1].shape) <= 1
      BY <1>5, <3>3, <3>4, Zenon DEF Precond_3
    <3>6. t[1].shape \in Seq(Nat)
      BY <1>5, InfoFacts, Zenon
    <3>7. Len(t[1].shape) \in Nat
      BY <3>6
    <3> DEFINE l == Len(t[1].shape)
    <3>8. l \in Nat /\ l > 1 /\ l <= 1
      BY <3>5, <3>7
    <3> HIDE DEF l
    <3> QED
      BY <3>8
  <2> QED
    BY <2>1
<1>11. kind[cls] \in Kinds
  <2>1. kind \in Seq(Kinds) /\ Len(kind) = Len(g.uf) /\ Ids(g) = 1 .. Len(g.uf)
    BY EGraphFacts DEF Sound, IsKinded, IsEGraph
  <2> QED
    BY <1>1, <2>1
<1> QED
  BY <1>9, <1>10, <1>11, Zenon DEF Kinds

-----------------------------------------------------------------------------
(* One match is applied, and the matches of one substitution.              *)

LEMMA PartStays ==
  ASSUME NEW g, NEW kind, NEW rule, NEW cls, NEW subst, SubstOK(g, kind, rule, cls, subst),
         NEW b, kind[cls] = b, b = "raw" => rule = 3, b \in {"raw", "typed"},
         NEW pat, NEW i, RightPart(rule, pat, i)
  PROVE  StaysOf(g, kind, b, pat, subst, i)
<1>1. ASSUME pat[i].var # ""
      PROVE  subst[pat[i].var] \in Ids(g) /\ kind[subst[pat[i].var]] = b
  <2>1. pat[i].var \in RuleVars(rule)
    BY <1>1, Zenon DEF RightPart
  <2>2. subst[pat[i].var] \in Ids(g) /\ (kind[subst[pat[i].var]] = "typed" <=> kind[cls] = "typed")
    BY <2>1, Zenon DEF SubstOK
  <2>3. ASSUME b = "raw" PROVE kind[subst[pat[i].var]] = b
    <3>1. rule = 3
      BY <2>3, Zenon
    <3>2. RuleVars(rule) = {"x"}
      BY <3>1 DEF RuleVars
    <3>3. rule \in {2, 3, 4, 7}
      BY <3>1
    <3>4. subst["x"] = cls
      BY <3>3, Zenon DEF SubstOK
    <3>5. pat[i].var = "x"
      BY <2>1, <3>2, Zenon
    <3> QED
      BY <3>4, <3>5, Zenon
  <2>4. b = "raw" \/ b = "typed"
    BY Zenon
  <2>5. ASSUME b = "typed" PROVE kind[subst[pat[i].var]] = b
    BY <2>2, <2>5, Zenon
  <2> QED
    BY <2>2, <2>3, <2>4, <2>5, Zenon
<1>2. ASSUME pat[i].var = "", b = "raw"
      PROVE  pat[i].op = "reshape"
  BY <1>2, Zenon DEF RightPart
<1> QED
  BY <1>1, <1>2, Zenon DEF StaysOf

Retyped(g, kind, h) == Sound(h, kind) /\ h.uf = g.uf /\ Grows(g, kind, h, kind)

LEMMA WithShapesRetypes ==
  ASSUME NEW g, NEW kind, Sound(g, kind), NEW n \in Nat, NEW ids, NEW shapes,
         DOMAIN shapes \subseteq 1 .. n, NEW b \in {"raw", "typed"}, Shapes(shapes, b),
         \A k \in 1 .. n : ids[k] \in Ids(g) /\ kind[ids[k]] = b
  PROVE  Retyped(g, kind, WithShapes(g, ids, shapes))
BY WithShapesIsSound, Zenon DEF Retyped

\* One match: the right-hand side, its shapes and the union with the root.
LEMMA ApplyMatchIsSound ==
  ASSUME NEW g, NEW kind, Sound(g, kind), NEW rule, NEW n, NEW m, NEW cls, NEW subst,
         SubstOK(g, kind, rule, cls, subst), MatchOf(g, kind, rule, n, m, cls)
  PROVE  Improved(g, kind, ApplyMatch(g, rule, cls, subst, m))
<1> DEFINE t == InfosOf(g, m.ids)
           pat == Rhs(rule)
           M == Metadata(rule, t, m.ens)
           made == ApplyPat(g, pat, M, subst)
           h == WithShapes(made.eg, made.ids, SetShapes(rule, t))
           last == made.ids[Len(made.ids)]
<1>1. CASE ~Precond(rule, g, m.ids, t)
  <2>1. ApplyMatch(g, rule, cls, subst, m) = g
    BY <1>1, Zenon DEF ApplyMatch
  <2> QED
    BY <2>1, GrowsReflexive, Zenon DEF Improved
<1>2. CASE Precond(rule, g, m.ids, t)
  <2>1. ApplyMatch(g, rule, cls, subst, m) = Union(h, cls, last)
    BY <1>2, Zenon DEF ApplyMatch
  <2>2. rule \in Rules /\ cls \in Ids(g)
    BY Zenon DEF SubstOK
  <2>3. Allowed(rule, t, m.ens)
    BY <1>2, <2>2, MatchIsAllowed, Zenon
  <2>4. kind[cls] = "typed" \/ (kind[cls] = "raw" /\ rule = 3)
    <3> HIDE DEF t
    <3>1. Precond(rule, g, m.ids, t) /\ t = InfosOf(g, m.ids)
      BY <1>2 DEF t
    <3> QED
      <4>1. MatchKind(kind, rule, cls)
        BY <3>1, KindOfMatch, Zenon
      <4> QED
        BY <4>1, Zenon DEF MatchKind
  <2>5. PICK b : b = kind[cls]
    OBVIOUS
  <2>6. b \in {"raw", "typed"} /\ (b = "raw" => rule = 3) /\ kind[cls] = b
    BY <2>4, <2>5, Zenon
  <2>7. PICK l : RhsFacts(rule, pat, M, l)
    BY <2>2, <2>3, RhsIsOK, Zenon
  <2>8. l \in Nat /\ Len(pat) = l
    BY <2>7 DEF RhsFacts
  <2> HIDE DEF M, pat
  <2>9. \A i \in 1 .. l : PositionOK(pat, M, i) /\ StaysOf(g, kind, b, pat, subst, i)
    BY <2>6, <2>7, PartStays, Zenon DEF RhsFacts
  <2>10. Applied(g, kind, b, made, l)
    <3>1. Len(pat) \in Nat
      BY <2>8, Zenon
    <3>2. \A i \in 1 .. Len(pat) : PositionOK(pat, M, i) /\ StaysOf(g, kind, b, pat, subst, i)
      BY <2>8, <2>9, Zenon
    <3>3. Applied(g, kind, b, made, Len(pat))
      BY <2>6, <3>1, <3>2, ApplyPatIsApplied, Zenon
    <3> QED
      BY <2>8, <3>3, Zenon
  <2> HIDE DEF made
  <2>11. PICK more : /\ Sound(made.eg, more) /\ Grows(g, kind, made.eg, more)
                     /\ \A k \in 1 .. l : made.ids[k] \in Ids(made.eg) /\ more[made.ids[k]] = b
    BY <2>10, Zenon DEF Applied
  <2>12. Len(made.ids) = l
    BY <2>10, Zenon DEF Applied
  <2>13. Shapes(SetShapes(rule, t), b) /\ DOMAIN SetShapes(rule, t) \subseteq 1 .. l
    <3>1. Shapes(SetShapes(rule, t), b) /\ DOMAIN SetShapes(rule, t) \subseteq 1 .. Len(pat)
      BY <2>2, <2>3, <2>6, SetShapesFit, Zenon DEF pat
    <3> QED
      BY <2>8, <3>1, Zenon
  <2>14. Sound(h, more) /\ h.uf = made.eg.uf /\ Grows(made.eg, more, h, more)
    <3> DEFINE S == SetShapes(rule, t)
    <3>1. Shapes(S, b) /\ DOMAIN S \subseteq 1 .. l /\ h = WithShapes(made.eg, made.ids, S)
      BY <2>13
    <3> HIDE DEF S, h
    <3>2. Sound(made.eg, more) /\ \A k \in 1 .. l : made.ids[k] \in Ids(made.eg) /\ more[made.ids[k]] = b
      BY <2>11, Zenon
    <3>3. Retyped(made.eg, more, WithShapes(made.eg, made.ids, S))
      BY <2>6, <2>8, <3>1, <3>2, WithShapesRetypes, Zenon
    <3> QED
      BY <3>1, <3>3, Zenon DEF Retyped
  <2> HIDE DEF h
  <2>15. last \in Ids(h) /\ more[last] = b
    <3>1. l \in 1 .. l
      BY <2>7 DEF RhsFacts
    <3>2. Ids(h) = Ids(made.eg)
      BY <2>14, Zenon DEF Ids
    <3> QED
      BY <2>11, <2>12, <3>1, <3>2, Zenon
  <2>16. cls \in Ids(h) /\ more[cls] = b
    <3>1. g \in EGraphs /\ h \in EGraphs
      BY <2>14, Zenon DEF Sound, IsEGraph
    <3>2. Grows(g, kind, h, more)
      BY <2>11, <2>14, GrowsTransitive, Zenon
    <3>3. \A id \in Ids(g) : id \in Ids(h) /\ more[id] = kind[id]
      BY <3>1, <3>2, EGraphFacts DEF Grows
    <3> QED
      BY <2>2, <2>6, <3>3, Zenon
  <2> HIDE DEF last
  <2>17. /\ Sound(Union(h, cls, last), more)
         /\ Grows(h, more, Union(h, cls, last), more)
    <3>1. more[cls] = more[last]
      BY <2>15, <2>16, Zenon
    <3>2. more[cls] # "input"
      BY <2>6, <2>16, Zenon
    <3> QED
      BY <2>14, <2>15, <2>16, <3>1, <3>2, UnionIsSound, Zenon
  <2>18. Grows(g, kind, Union(h, cls, last), more)
    <3>1. Grows(g, kind, h, more)
      BY <2>11, <2>14, GrowsTransitive, Zenon
    <3> QED
      BY <2>14, <2>17, <3>1, GrowsTransitive, Zenon
  <2> QED
    BY <2>1, <2>17, <2>18, Zenon DEF Improved
<1> QED
  BY <1>1, <1>2, Zenon

LEMMA SetToSeqFacts ==
  ASSUME NEW S, IsFiniteSet(S)
  PROVE  /\ Len(SetToSeq(S)) \in Nat
         /\ \A k \in 1 .. Len(SetToSeq(S)) : SetToSeq(S)[k] \in S
<1>1. PICK n \in Nat : ExistsBijection(1 .. n, S)
  BY FS_NatBijection
<1>2. Cardinality(S) = n
  BY <1>1, FS_CountingElements
<1>3. PICK f : f \in [1 .. n -> S] /\ IsInjective(f)
  <2>1. PICK f : f \in Bijection(1 .. n, S)
    BY <1>1 DEF ExistsBijection
  <2>2. f \in [1 .. n -> S] /\ IsInjective(f)
    BY <2>1, Zenon DEF Bijection, Injection
  <2> QED
    BY <2>2
<1> DEFINE s == SetToSeq(S)
<1>4. s \in [1 .. n -> S]
  BY <1>2, <1>3, Zenon DEF SetToSeq
<1> HIDE DEF s
<1>5. s = [k \in 1 .. n |-> s[k]] /\ \A k \in 1 .. n : s[k] \in S
  BY <1>4
<1>6. Len(s) = n
  BY <1>5, MapIsSeq
<1> QED
  BY <1>5, <1>6 DEF s

\* apply_one: every match of the root, in some order, on the growing e-graph.
LEMMA ApplyOneIsSound ==
  ASSUME NEW g, NEW kind, Sound(g, kind), NEW rule, NEW cls, NEW subst,
         SubstOK(g, kind, rule, cls, subst)
  PROVE  Improved(g, kind, ApplyOne(g, rule, cls, subst))
<1> DEFINE pat == Lhs(rule)
           found == FindMatches(g, cls, pat)
           matches == SetToSeq(found)
           top == Len(matches)
           Body(f) == [k \in 0 .. top |-> IF k = 0 THEN g
                                        ELSE ApplyMatch(f[k - 1], rule, cls, subst, matches[k])]
           upto == CHOOSE f : f = Body(f)
           X == {w \in (0 .. top) \X EGraphs : Improved(g, kind, w[2])}
           F == [w \in X |-> ApplyMatch(w[2], rule, cls, subst, matches[w[1] + 1])]
<1>1. ApplyOne(g, rule, cls, subst) = upto[top]
  BY DEF ApplyOne
<1>2. rule \in Rules /\ cls \in Ids(g)
  BY Zenon DEF SubstOK
<1>3. PICK n : LhsFacts(rule, pat, Sizes(rule), n)
  BY <1>2, LhsIsOK, Zenon
<1>4. n \in Nat \ {0} /\ Len(pat) = n /\ Sizes(rule)[n] = n /\ LhsOK(pat, Sizes(rule))
  BY <1>3, Zenon DEF LhsFacts
<1>5. IsFiniteSet(found) /\ \A m \in found : MatchOf(g, kind, rule, n, m, cls)
  <2>1. Len(pat) \in Nat \ {0}
    BY <1>4, Zenon
  <2> HIDE DEF pat
  <2>2. /\ IsFiniteSet(found)
        /\ \A m \in found : MatchOK(g, kind, pat[Len(pat)], Sizes(rule)[Len(pat)], m, Find(g, cls))
    BY <1>2, <1>4, <2>1, FindMatchesIsFound
  <2>3. \A m \in found : MatchOK(g, kind, pat[n], n, m, Find(g, cls))
    BY <1>4, <2>2, Zenon
  <2> QED
    BY <1>2, <1>3, <2>2, <2>3, FoundIsMatch, Zenon DEF pat
<1> HIDE DEF found
<1>6. top \in Nat /\ \A k \in 1 .. top : MatchOf(g, kind, rule, n, matches[k], cls)
  BY <1>5, SetToSeqFacts
<1> HIDE DEF matches, top
<1>7. \A k \in 0 .. top : \A x : <<k, x>> \in X <=> Improved(g, kind, x)
  <2>1. \A x : Improved(g, kind, x) => x \in EGraphs
    BY Zenon DEF Improved, Sound, IsEGraph
  <2> QED
    BY <2>1
<1>8. <<0, g>> \in X
  <2>1. 0 \in 0 .. top
    BY <1>6
  <2>2. Improved(g, kind, g)
    BY GrowsReflexive, Zenon DEF Improved
  <2> QED
    BY <1>7, <2>1, <2>2
<1>9. ASSUME NEW k \in 1 .. top, NEW x, <<k - 1, x>> \in X
      PROVE  /\ F[<<k - 1, x>>] = ApplyMatch(x, rule, cls, subst, matches[k])
             /\ <<k, F[<<k - 1, x>>]>> \in X
  <2>1. k - 1 \in 0 .. top /\ k \in 0 .. top /\ (k - 1) + 1 = k
    BY <1>6
  <2>2. F[<<k - 1, x>>] = ApplyMatch(x, rule, cls, subst, matches[k])
    BY <1>9, <2>1
  <2>3. Improved(g, kind, x)
    BY <1>7, <1>9, <2>1, Zenon
  <2> HIDE DEF F, X
  <2>4. PICK more : Sound(x, more) /\ Grows(g, kind, x, more)
    BY <2>3, Zenon DEF Improved
  <2> DEFINE m == matches[k]
             h == ApplyMatch(x, rule, cls, subst, m)
  <2>5. MatchOf(x, more, rule, n, m, cls)
    <3>1. MatchOf(g, kind, rule, n, m, cls)
      BY <1>6, Zenon
    <3> QED
      BY <1>2, <2>4, <3>1, MatchStays, Zenon
  <2>6. SubstOK(x, more, rule, cls, subst)
    BY <2>4, SubstStaysOK, Zenon
  <2>7. Improved(x, more, h)
    BY <2>4, <2>5, <2>6, ApplyMatchIsSound, Zenon
  <2>8. PICK most : Sound(h, most) /\ Grows(x, more, h, most)
    BY <2>7, Zenon DEF Improved
  <2> HIDE DEF h
  <2>9. Grows(g, kind, h, most)
    BY <2>4, <2>8, GrowsTransitive, Zenon
  <2>10. Improved(g, kind, h)
    BY <2>8, <2>9, Zenon DEF Improved
  <2> QED
    BY <1>7, <2>1, <2>2, <2>10, Zenon DEF h
<1> HIDE DEF F, X
<1>10. StaysIn(top, F, X)
  BY <1>9 DEF StaysIn
<1>11. PICK f : Follows(f, top, g, F, X) /\ AllIn(f, top, X)
  BY <1>6, <1>8, <1>10, FollowersExist
<1>12. \A k \in 1 .. top : k \in 0 .. top /\ k - 1 \in 0 .. top /\ k # 0
  BY <1>6
<1>13. f = Body(f)
  <2>1. ASSUME NEW k \in 0 .. top
        PROVE  f[k] = IF k = 0 THEN g ELSE ApplyMatch(f[k - 1], rule, cls, subst, matches[k])
    <3>1. k = 0 \/ k \in 1 .. top
      BY <1>6
    <3>2. ASSUME k \in 1 .. top PROVE f[k] = ApplyMatch(f[k - 1], rule, cls, subst, matches[k])
      BY <1>9, <1>11, <1>12, <3>2 DEF Follows, AllIn
    <3> QED
      BY <1>11, <1>12, <3>1, <3>2, Zenon DEF Follows
  <2> QED
    BY <1>11, <2>1 DEF Follows
<1>14. upto = Body(upto)
  <2> HIDE DEF Body
  <2> QED
    BY <1>13
<1> HIDE DEF upto
<1>15. Follows(upto, top, g, F, X)
  <2>1. upto = [k \in 0 .. top |-> upto[k]] /\ upto[0] = g
    BY <1>6, <1>14
  <2>2. \A k \in 1 .. top : upto[k] = ApplyMatch(upto[k - 1], rule, cls, subst, matches[k])
    BY <1>12, <1>14, Zenon
  <2> QED
    BY <1>9, <2>1, <2>2 DEF Follows
<1>16. AllIn(upto, top, X)
  BY <1>6, <1>8, <1>10, <1>15, FollowersStay
<1>17. <<top, upto[top]>> \in X /\ top \in 0 .. top
  BY <1>6, <1>16 DEF AllIn
<1> QED
  BY <1>1, <1>7, <1>17, Zenon

-----------------------------------------------------------------------------
(* The matches that the search finds are ones that can be applied.         *)

HasVar(pat, i, name) == i \in DOMAIN pat /\ pat[i] = V(name) /\ name # ""

LEMMA VarIsBound ==
  ASSUME NEW pat, NEW i, NEW name, HasVar(pat, i, name)
  PROVE  name \in Vars(pat)
<1>1. pat[i].var = name /\ i \in DOMAIN pat /\ name # ""
  BY Parts, Zenon DEF HasVar
<1> QED
  BY <1>1, Zenon DEF Vars

\* The left-hand side binds every variable of the right-hand side.
LEMMA RuleVarsAreVars ==
  ASSUME NEW rule \in Rules
  PROVE  RuleVars(rule) \subseteq Vars(Lhs(rule))
<1> DEFINE pat == Lhs(rule)
<1>1. "a" # "" /\ "b" # "" /\ "d" # "" /\ "x" # "" /\ "y" # ""
  BY Zenon
<1>2. CASE rule = 0
  <2>1. pat = <<V("a"), V("b"), N("dot", <<1, 2>>), V("d"), N("add", <<3, 4>>)>>
    BY <1>2 DEF Lhs
  <2>2. /\ 1 \in DOMAIN pat /\ 2 \in DOMAIN pat /\ 4 \in DOMAIN pat
        /\ pat[1] = V("a") /\ pat[2] = V("b") /\ pat[4] = V("d")
    BY <2>1
  <2> HIDE DEF pat
  <2>3. HasVar(pat, 1, "a") /\ HasVar(pat, 2, "b") /\ HasVar(pat, 4, "d")
    BY <1>1, <2>2, Zenon DEF HasVar
  <2>4. "a" \in Vars(pat) /\ "b" \in Vars(pat) /\ "d" \in Vars(pat)
    BY <2>3, VarIsBound, Zenon
  <2>5. RuleVars(rule) = {"a", "b", "d"}
    BY <1>2 DEF RuleVars
  <2> QED
    BY <2>4, <2>5, Zenon DEF pat
<1>3. CASE rule = 5
  <2>1. pat = <<V("x"), V("y"), N("add", <<1, 2>>)>>
    BY <1>3 DEF Lhs
  <2>2. 1 \in DOMAIN pat /\ 2 \in DOMAIN pat /\ pat[1] = V("x") /\ pat[2] = V("y")
    BY <2>1
  <2> HIDE DEF pat
  <2>3. HasVar(pat, 1, "x") /\ HasVar(pat, 2, "y")
    BY <1>1, <2>2, Zenon DEF HasVar
  <2>4. "x" \in Vars(pat) /\ "y" \in Vars(pat)
    BY <2>3, VarIsBound, Zenon
  <2>5. RuleVars(rule) = {"x", "y"}
    BY <1>3 DEF RuleVars
  <2> QED
    BY <2>4, <2>5, Zenon DEF pat
<1>4. CASE rule \notin {0, 5}
  <2>1. 1 \in DOMAIN pat /\ pat[1] = V("x")
    <3>1. rule \in 0 .. 10
      BY DEF Rules
    <3>2. rule \in {1} \/ rule \in {2, 3, 4, 7} \/ rule = 6 \/ rule = 8 \/ rule = 9 \/ rule = 10
      BY <1>4, <3>1
    <3>3. ASSUME rule = 1 PROVE 1 \in DOMAIN pat /\ pat[1] = V("x")
      BY <3>3 DEF Lhs
    <3>4. ASSUME rule \in {2, 3, 4, 7} PROVE 1 \in DOMAIN pat /\ pat[1] = V("x")
      BY <3>4 DEF Lhs
    <3>5. ASSUME rule = 6 PROVE 1 \in DOMAIN pat /\ pat[1] = V("x")
      BY <3>5 DEF Lhs
    <3>6. ASSUME rule = 8 PROVE 1 \in DOMAIN pat /\ pat[1] = V("x")
      BY <3>6 DEF Lhs
    <3>7. ASSUME rule = 9 PROVE 1 \in DOMAIN pat /\ pat[1] = V("x")
      BY <3>7 DEF Lhs
    <3>8. ASSUME rule = 10 PROVE 1 \in DOMAIN pat /\ pat[1] = V("x")
      BY <3>8 DEF Lhs
    <3> QED
      BY <3>2, <3>3, <3>4, <3>5, <3>6, <3>7, <3>8, Zenon
  <2> HIDE DEF pat
  <2>2. HasVar(pat, 1, "x")
    BY <1>1, <2>1, Zenon DEF HasVar
  <2>3. "x" \in Vars(pat)
    BY <2>2, VarIsBound, Zenon
  <2>4. RuleVars(rule) = {"x"}
    BY <1>4 DEF RuleVars
  <2> QED
    BY <2>3, <2>4, Zenon DEF pat
<1> QED
  BY <1>2, <1>3, <1>4, Zenon

PendingOK(g, kind, p) == SubstOK(g, kind, p.rule, p.cls, p.subst)

LEMMA SubstOfMatch ==
  ASSUME NEW g, NEW kind, Sound(g, kind), NEW rule \in Rules, NEW n, NEW cls \in Classes(g), NEW m,
         LhsFacts(rule, Lhs(rule), Sizes(rule), n),
         MatchOK(g, kind, Lhs(rule)[n], n, m, cls)
  PROVE  SubstOK(g, kind, rule, cls, Subst(Lhs(rule), m.ids))
<1> DEFINE pat == Lhs(rule)
           subst == Subst(pat, m.ids)
           at(v) == CHOOSE i \in DOMAIN pat : pat[i].var = v
<1>1. cls \in Ids(g) /\ Find(g, cls) = cls
  BY ClassesAreNumbers, Zenon
<1>2. MatchOf(g, kind, rule, n, m, cls)
  BY <1>1, FoundIsMatch, Zenon
<1>3. n \in Nat \ {0} /\ DOMAIN pat = 1 .. n
  BY Zenon DEF LhsFacts
<1> HIDE DEF pat
<1>4. ASSUME NEW v \in Vars(pat)
      PROVE  subst[v] = m.ids[at(v)] /\ at(v) \in 1 .. n /\ pat[at(v)].var = v
  <2>1. \E i \in DOMAIN pat : pat[i].var = v
    BY <1>4, Zenon DEF Vars
  <2>2. at(v) \in DOMAIN pat /\ pat[at(v)].var = v
    BY <2>1, Zenon
  <2>3. subst[v] = m.ids[at(v)]
    BY <1>4, Zenon DEF Subst
  <2> QED
    BY <1>3, <2>2, <2>3, Zenon
<1> HIDE DEF at, subst
<1>5. RuleVars(rule) \subseteq Vars(pat)
  BY RuleVarsAreVars, Zenon DEF pat
<1>6. ASSUME NEW v \in RuleVars(rule)
      PROVE  subst[v] \in Ids(g) /\ (kind[subst[v]] = "typed" <=> kind[cls] = "typed")
  <2>1. v \in Vars(pat)
    BY <1>5, <1>6, Zenon
  <2>2. subst[v] = m.ids[at(v)] /\ at(v) \in 1 .. n
    BY <1>4, <2>1, Zenon
  <2> QED
    BY <1>2, <2>2, Zenon DEF MatchOf
<1>7. ASSUME rule \in {2, 3, 4, 7}
      PROVE  subst["x"] = cls
  <2>1. "x" \in RuleVars(rule)
    BY <1>7 DEF RuleVars
  <2>2. subst["x"] = m.ids[at("x")] /\ at("x") \in 1 .. n
    BY <1>4, <1>5, <2>1, Zenon
  <2>3. n = 1
    BY <1>7, Zenon DEF LhsFacts
  <2>4. at("x") = n
    BY <2>2, <2>3
  <2>5. m.ids[n] = cls
    BY Zenon DEF MatchOK
  <2> QED
    BY <2>2, <2>4, <2>5, Zenon
<1>8. ASSUME rule \in {0, 1, 5, 6, 8, 10}
      PROVE  kind[cls] = "typed"
  <2>1. Lhs(rule)[n].var = "" /\ Lhs(rule)[n].op # "reshape"
    BY <1>8, Zenon DEF LhsFacts
  <2> QED
    BY <2>1, Zenon DEF MatchOK
<1>9. SubstOK(g, kind, rule, cls, subst)
  BY <1>1, <1>6, <1>7, <1>8, Zenon DEF SubstOK
<1> QED
  BY <1>9 DEF subst, pat

\* What search returns is a substitution over classes of one kind.
LEMMA SearchIsOK ==
  ASSUME NEW g, NEW kind, Sound(g, kind), NEW rule \in Rules, NEW p \in Search(g, rule)
  PROVE  PendingOK(g, kind, p)
<1>1. PICK cls \in Classes(g) :
        p \in {[rule |-> rule, cls |-> cls, subst |-> Subst(Lhs(rule), m.ids)] :
                 m \in FindMatches(g, cls, Lhs(rule))}
  BY DEF Search
<1>2. PICK m \in FindMatches(g, cls, Lhs(rule)) :
        p = [rule |-> rule, cls |-> cls, subst |-> Subst(Lhs(rule), m.ids)]
  BY <1>1
<1>3. p.rule = rule /\ p.cls = cls /\ p.subst = Subst(Lhs(rule), m.ids)
  BY <1>2
<1> DEFINE pat == Lhs(rule)
<1>4. PICK n : LhsFacts(rule, pat, Sizes(rule), n)
  BY LhsIsOK, Zenon
<1>5. n \in Nat \ {0} /\ Len(pat) = n /\ Sizes(rule)[n] = n /\ LhsOK(pat, Sizes(rule))
  BY <1>4, Zenon DEF LhsFacts
<1>6. cls \in Ids(g) /\ Find(g, cls) = cls
  BY ClassesAreNumbers, Zenon
<1>7. m \in FindMatches(g, cls, pat)
  BY <1>2
<1> HIDE DEF pat
<1>8. MatchOK(g, kind, pat[n], n, m, cls)
  <2>1. Len(pat) \in Nat \ {0}
    BY <1>5, Zenon
  <2>2. \A q \in FindMatches(g, cls, pat) :
          MatchOK(g, kind, pat[Len(pat)], Sizes(rule)[Len(pat)], q, Find(g, cls))
    BY <1>5, <1>6, <2>1, FindMatchesIsFound
  <2> QED
    BY <1>5, <1>6, <1>7, <2>2, Zenon
<1>9. SubstOK(g, kind, rule, cls, Subst(Lhs(rule), m.ids))
  BY <1>4, <1>8, SubstOfMatch, Zenon DEF pat
<1> QED
  BY <1>3, <1>9, Zenon DEF PendingOK

-----------------------------------------------------------------------------
(* The initializer: Vars, nodes with a type, and chains of them.           *)

IsName(text) == text \in Texts /\ text # ""

NewVar(g, kind, h, more, id, info, text) ==
  /\ Sound(h, more) /\ id \in Classes(h) /\ more[id] = "input" /\ h.info[id] = info
  /\ Len(g.uf) <= Len(h.uf)
  /\ \A c \in Ids(g) : more[c] = kind[c] /\ h.info[c] = g.info[c]
  /\ \A n \in h.nodes : n.en.op = "var" =>
       n.en.text = text \/ \E m \in g.nodes : m.en.op = "var" /\ m.en.text = n.en.text

\* A new Var is an input, alone in a class of its own.
LEMMA AddVarIsSound ==
  ASSUME NEW g, NEW kind, Sound(g, kind), NEW text, IsName(text),
         \A n \in g.nodes : n.en.op = "var" => n.en.text # text,
         NEW info \in Infos, info.dtype = "U8", Len(info.shape) <= 1,
         NEW added, added = AddTyped(g, Texted("var", text, <<>>), info)
  PROVE  \E more : NewVar(g, kind, added.eg, more, added.id, info, text)
<1> DEFINE en == Texted("var", text, <<>>)
           c == Canonical(g, en)
           found == {n \in g.nodes : n.en = c}
           h == NewClass(g, c)
           more == Append(kind, KindOf(kind, c))
           id == Len(g.uf) + 1
<1>1. /\ en.op = "var" /\ en.text = text /\ en.data = <<>> /\ en.kids = <<>>
      /\ en \in ENodes
  <2>1. "var" \in TensorOps /\ <<>> \in Seq(Nat)
    BY DEF TensorOps
  <2>2. en = ENode("var", text, <<>>, <<>>) /\ text \in Texts
    BY Zenon DEF Texted, IsName
  <2> HIDE DEF en
  <2>3. en.op = "var" /\ en.text = text /\ en.data = <<>> /\ en.kids = <<>>
    BY <2>2, ENodeIs
  <2>4. en \in ENodes
    BY <2>1, <2>2, ENodeIs
  <2> QED
    BY <2>3, <2>4
<1>2. HasParts(en) /\ DOMAIN en.kids = {}
  <2>1. NumChildren("var") = 0 /\ Len(<<>>) = 0 /\ DOMAIN <<>> = {} /\ "var" # "slice" /\ "var" \in {"var"}
    BY DEF NumChildren, BinaryOps
  <2> HIDE DEF en
  <2>2. Len(en.kids) = NumChildren(en.op) /\ DOMAIN en.kids = {}
    BY <1>1, <2>1, Zenon
  <2> QED
    BY <1>1, <2>1, <2>2, Zenon DEF HasParts, IsName
<1> HIDE DEF en
<1>3. /\ c \in ENodes /\ HasParts(c) /\ c.op = en.op /\ c.text = en.text
      /\ DOMAIN c.kids = DOMAIN en.kids
      /\ \A k \in DOMAIN c.kids : c.kids[k] \in Classes(g)
  BY <1>1, <1>2, CanonicalFacts
<1>4. Add(g, en) = IF found # {} THEN [eg |-> g, id |-> (CHOOSE n \in found : TRUE).cls]
                   ELSE [eg |-> h, id |-> id]
  BY DEF Add, Canonical, NewClass
<1> HIDE DEF c
<1>5. \A n \in g.nodes : n.en # c
  BY <1>1, <1>3, Zenon
<1>6. Add(g, en).eg = h /\ Add(g, en).id = id
  <2>1. found = {}
    BY <1>5
  <2> QED
    BY <1>4, <2>1
<1>7. KindOf(kind, c) = "input" /\ Fits(kind, c)
  BY <1>1, <1>2, <1>3, Zenon DEF KindOf, Fits
<1>8. /\ Sound(h, more) /\ Len(h.uf) = Len(g.uf) + 1
      /\ more[Len(g.uf) + 1] = KindOf(kind, c)
      /\ \A k \in Ids(g) : more[k] = kind[k] /\ h.info[k] = g.info[k]
      /\ Len(g.uf) + 1 \in Classes(h)
  BY <1>3, <1>5, <1>7, NewClassIsSound
<1>9. \A n \in h.nodes : n \in g.nodes \/ n.en = c
  BY DEF NewClass
<1>10. Len(g.uf) \in Nat /\ Ids(g) = 1 .. Len(g.uf)
  BY EGraphFacts DEF Sound, IsEGraph
<1> HIDE DEF h, more, found
<1>11. id \in Ids(h) /\ Find(h, id) = id /\ id \notin Ids(g) /\ Ids(g) \subseteq Ids(h)
  <2>1. Ids(h) = 1 .. Len(h.uf)
    BY <1>8, EGraphFacts DEF Sound, IsEGraph
  <2> QED
    BY <1>8, <1>10, <2>1, ClassesAreNumbers
<1> HIDE DEF id
<1>12. PICK f : f = SetInfo(h, id, info)
  OBVIOUS
<1>13. /\ Sound(f, more) /\ f.uf = h.uf /\ f.nodes = h.nodes /\ f.info[Find(h, id)] = info
       /\ \A k \in Ids(h) : k # Find(h, id) => f.info[k] = h.info[k]
  BY <1>8, <1>11, <1>12, SetInfoIsSound
<1>14. added.eg = f /\ added.id = id
  BY <1>6, <1>12, Zenon DEF AddTyped, en
<1>15. id \in Classes(f)
  <2>1. id \in Classes(h)
    BY <1>8 DEF id
  <2> QED
    BY <1>13, <2>1, Zenon DEF Classes, Ids
<1>16. more[id] = "input" /\ f.info[id] = info
  <2>1. more[id] = "input"
    BY <1>7, <1>8, Zenon DEF id
  <2> QED
    BY <1>11, <1>13, <2>1, Zenon
<1>17. Len(g.uf) <= Len(f.uf)
  <2>1. Len(f.uf) = Len(h.uf)
    BY <1>13, Zenon
  <2>2. Len(f.uf) = Len(g.uf) + 1
    BY <1>8, <2>1, Zenon
  <2> QED
    BY <1>10, <2>2
<1>18. \A k \in Ids(g) : more[k] = kind[k] /\ f.info[k] = g.info[k]
  <2> SUFFICES ASSUME NEW k \in Ids(g) PROVE more[k] = kind[k] /\ f.info[k] = g.info[k]
    OBVIOUS
  <2>1. k # id /\ k \in Ids(h)
    BY <1>11, Zenon
  <2> QED
    BY <1>8, <1>11, <1>13, <2>1, Zenon
<1>19. ASSUME NEW n \in f.nodes, n.en.op = "var"
       PROVE  n.en.text = text \/ \E m \in g.nodes : m.en.op = "var" /\ m.en.text = n.en.text
  <2>1. n \in g.nodes \/ n.en = c
    BY <1>9, <1>13, Zenon
  <2> QED
    BY <1>1, <1>3, <1>19, <2>1, Zenon
<1>20. NewVar(g, kind, f, more, id, info, text)
  BY <1>13, <1>15, <1>16, <1>17, <1>18, <1>19, Zenon DEF NewVar
<1> QED
  BY <1>14, <1>20, Zenon

\* An e-node and the TensorInfo that is set on its class.
LEMMA AddTypedIsSound ==
  ASSUME NEW g, NEW kind, Sound(g, kind), NEW en \in ENodes, HasParts(en), en.op # "var",
         \A k \in DOMAIN en.kids : en.kids[k] \in Ids(g), Fits(kind, en),
         NEW info \in Infos, KindOf(kind, en) # "typed" => info.dtype = "U8",
         NEW added, added = AddTyped(g, en, info)
  PROVE  \E more : Added(g, kind, en, added.eg, more, added.id)
<1> DEFINE h == Add(g, en).eg
           id == Add(g, en).id
<1>1. PICK more : Added(g, kind, en, h, more, id)
  BY AddIsSound
<1> HIDE DEF h, id
<1>2. Sound(h, more) /\ Grows(g, kind, h, more) /\ id \in Ids(h) /\ more[id] = KindOf(kind, en)
  BY <1>1, Zenon DEF Added
<1>3. more[id] # "input"
  <2>1. KindOf(kind, en) # "input"
    BY Zenon DEF KindOf
  <2> QED
    BY <1>2, <2>1, Zenon
<1>4. PICK f : f = SetInfo(h, id, info)
  OBVIOUS
<1>5. /\ Sound(f, more) /\ f.uf = h.uf /\ f.nodes = h.nodes
      /\ \A k \in Ids(h) : k # Find(h, id) => f.info[k] = h.info[k]
  <2>1. /\ Sound(f, more) /\ f.uf = h.uf /\ f.nodes = h.nodes /\ f.info[Find(h, id)] = info
        /\ \A k \in Ids(h) : k # Find(h, id) => f.info[k] = h.info[k]
    BY <1>2, <1>3, <1>4, SetInfoIsSound
  <2> QED
    BY <2>1
<1>6. added.eg = f /\ added.id = id
  BY <1>4, Zenon DEF AddTyped, h, id
<1>7. Grows(h, more, f, more)
  <2>1. Len(h.uf) \in Nat
    BY <1>2, EGraphFacts DEF Sound, IsEGraph
  <2>2. Len(h.uf) <= Len(f.uf)
    <3>1. Len(h.uf) = Len(f.uf)
      BY <1>5, Zenon
    <3> QED
      BY <2>1, <3>1
  <2>3. \A k \in Ids(h) : more[k] = "input" => f.info[k] = h.info[k]
    <3>1. more[Find(h, id)] = more[id]
      BY <1>2, Zenon DEF Sound, IsKinded
    <3> QED
      BY <1>3, <1>5, <3>1, Zenon
  <2> QED
    BY <1>5, <2>2, <2>3, Zenon DEF Grows
<1>8. Grows(g, kind, f, more)
  BY <1>2, <1>5, <1>7, GrowsTransitive, Zenon
<1>9. id \in Ids(f)
  BY <1>2, <1>5, Zenon DEF Ids
<1> QED
  BY <1>2, <1>5, <1>6, <1>8, <1>9, Zenon DEF Added

\* What a link makes of a class: bytes are reshaped, or get a type.
StepKind(from, op) == IF op = "reshape" /\ from # "typed" THEN "raw" ELSE "typed"

LinkOK(link, from) ==
  /\ link.op \in {"reshape", "bitcvt", "transpose"}
  /\ link.data \in Seq(Nat) /\ link.info \in Infos
  /\ link.data = <<>> <=> link.op = "bitcvt"
  /\ link.op = "transpose" => from = "typed"
  /\ StepKind(from, link.op) # "typed" => link.info.dtype = "U8"

Chained(links, steps) ==
  /\ Len(links) \in Nat
  /\ \A k \in 1 .. Len(links) :
       /\ LinkOK(links[k], steps[k - 1])
       /\ steps[k] = StepKind(steps[k - 1], links[k].op)

\* An e-graph that has grown, and a class in it of a kind.
Made(g, kind, h, more, id, is) ==
  /\ Sound(h, more) /\ Grows(g, kind, h, more)
  /\ id \in Ids(h) /\ more[id] = is

Makes(g, kind, added, is) == \E more : Made(g, kind, added.eg, more, added.id, is)

LEMMA ENodeIn ==
  ASSUME NEW op \in TensorOps, NEW text \in Texts, NEW data \in Seq(Nat), NEW kids \in Seq(Nat)
  PROVE  ENode(op, text, data, kids) \in ENodes
BY DEF ENode, ENodes

LEMMA LinkNode ==
  ASSUME NEW link, NEW from, LinkOK(link, from), NEW id \in Nat,
         NEW en, en = Listed(link.op, link.data, <<id>>)
  PROVE  /\ en \in ENodes /\ HasParts(en) /\ en.op = link.op /\ en.op # "var"
         /\ DOMAIN en.kids = {1} /\ en.kids[1] = id
<1>1. /\ link.op \in {"reshape", "bitcvt", "transpose"} /\ link.data \in Seq(Nat)
      /\ link.data = <<>> <=> link.op = "bitcvt"
  BY Zenon DEF LinkOK
<1>2. link.op \in TensorOps /\ link.op # "var" /\ link.op # "slice"
  BY <1>1 DEF TensorOps
<1>3. NumChildren(link.op) = 1
  BY <1>1 DEF NumChildren, BinaryOps
<1>4. (link.op \in HasMetadata \cup {"var"}) <=> link.op # "bitcvt"
  BY <1>1 DEF HasMetadata, Reductions
<1>5. <<id>> \in Seq(Nat) /\ Len(<<id>>) = 1 /\ DOMAIN <<id>> = {1} /\ <<id>>[1] = id
  OBVIOUS
<1>6. PICK text : text = ""
  OBVIOUS
<1>7. text \in Texts
  BY <1>6, Zenon DEF Texts
<1>8. en = ENode(link.op, text, link.data, <<id>>)
  BY <1>6, Zenon DEF Listed
<1>9. /\ en.op = link.op /\ en.text = text /\ en.data = link.data /\ en.kids = <<id>>
      /\ en \in ENodes
  <2>1. en.op = link.op /\ en.text = text /\ en.data = link.data /\ en.kids = <<id>>
    BY <1>8, ENodeIs
  <2>2. en \in ENodes
    <3>1. PICK kids : kids = <<id>>
      OBVIOUS
    <3>2. kids \in Seq(Nat)
      BY <3>1
    <3>3. ENode(link.op, text, link.data, kids) \in ENodes
      BY <1>1, <1>2, <1>7, <3>2, ENodeIn, Zenon
    <3> QED
      BY <1>8, <3>1, <3>3, Zenon
  <2> QED
    BY <2>1, <2>2
<1>10. HasParts(en)
  BY <1>1, <1>2, <1>3, <1>4, <1>5, <1>6, <1>9, Zenon DEF HasParts
<1> QED
  BY <1>2, <1>5, <1>9, <1>10, Zenon

\* One link of a chain makes a class of the kind after it.
LEMMA LinkIsMade ==
  ASSUME NEW g, NEW kind, Sound(g, kind), NEW id \in Ids(g), NEW from, kind[id] = from,
         NEW link, LinkOK(link, from),
         NEW added, added = AddTyped(g, Listed(link.op, link.data, <<id>>), link.info)
  PROVE  Makes(g, kind, added, StepKind(from, link.op))
<1>1. PICK en : en = Listed(link.op, link.data, <<id>>)
  OBVIOUS
<1>2. id \in Nat
  BY EGraphFacts DEF Sound, IsEGraph
<1>3. /\ en \in ENodes /\ HasParts(en) /\ en.op = link.op /\ en.op # "var"
      /\ DOMAIN en.kids = {1} /\ en.kids[1] = id
  BY <1>1, <1>2, LinkNode
<1>4. \A k \in DOMAIN en.kids : en.kids[k] \in Ids(g)
  BY <1>3
<1>5. link.op \in {"reshape", "bitcvt", "transpose"} /\ link.info \in Infos
      /\ (link.op = "transpose" => from = "typed")
      /\ (StepKind(from, link.op) # "typed" => link.info.dtype = "U8")
  BY Zenon DEF LinkOK
<1>6. Fits(kind, en)
  <2>1. CASE link.op = "transpose"
    <3>1. \A k \in DOMAIN en.kids : kind[en.kids[k]] = "typed"
      BY <1>3, <1>5, <2>1
    <3> QED
      BY <3>1, Zenon DEF Fits
  <2>2. CASE link.op \in {"reshape", "bitcvt"}
    BY <1>3, <2>2, Zenon DEF Fits
  <2> QED
    BY <1>5, <2>1, <2>2
<1>7. KindOf(kind, en) = StepKind(from, link.op)
  BY <1>3, Zenon DEF KindOf, StepKind
<1>8. PICK more : Added(g, kind, en, added.eg, more, added.id)
  <2>1. added = AddTyped(g, en, link.info)
    BY <1>1, Zenon
  <2>2. KindOf(kind, en) # "typed" => link.info.dtype = "U8"
    BY <1>5, <1>7, Zenon
  <2> QED
    BY <1>3, <1>4, <1>5, <1>6, <2>1, <2>2, AddTypedIsSound, Zenon
<1> QED
  BY <1>7, <1>8, Zenon DEF Makes, Made, Added

\* A chain of links makes a class of the last kind.
LEMMA AddChainIsSound ==
  ASSUME NEW g, NEW kind, Sound(g, kind), NEW id \in Ids(g),
         NEW links, NEW steps, Chained(links, steps), steps[0] = kind[id],
         NEW added, added = AddChain(g, id, links)
  PROVE  Makes(g, kind, added, steps[Len(links)])
<1> DEFINE top == Len(links)
           next(x, k) == AddTyped(x.eg, Listed(links[k].op, links[k].data, <<x.id>>),
                                  links[k].info)
           Body(f) == [k \in 0 .. top |->
                         IF k = 0 THEN [eg |-> g, id |-> id] ELSE next(f[k - 1], k)]
           upto == CHOOSE f : f = Body(f)
           Y == [eg : EGraphs, id : Nat]
           X == {w \in (0 .. top) \X Y : Makes(g, kind, w[2], steps[w[1]])}
           F == [w \in X |-> next(w[2], w[1] + 1)]
           start == [eg |-> g, id |-> id]
<1>1. AddChain(g, id, links) = upto[top]
  BY DEF AddChain
<1>2. top \in Nat
  BY Zenon DEF Chained
<1> HIDE DEF top
<1>3. ASSUME NEW x, NEW is, Makes(g, kind, x, is), NEW e, NEW i, x = [eg |-> e, id |-> i]
      PROVE  x \in Y
  <2>1. x.eg \in EGraphs /\ x.id \in Ids(x.eg)
    BY <1>3, Zenon DEF Makes, Made, Sound, IsEGraph
  <2>2. x.id \in Nat
    BY <2>1, EGraphFacts
  <2> QED
    BY <1>3, <2>1, <2>2
<1>4. \A k \in 0 .. top : \A x \in Y : <<k, x>> \in X <=> Makes(g, kind, x, steps[k])
  OBVIOUS
<1>5. <<0, start>> \in X
  <2>1. 0 \in 0 .. top
    BY <1>2
  <2>2. start.eg = g /\ start.id = id
    OBVIOUS
  <2>3. PICK s : s = start
    OBVIOUS
  <2>4. Makes(g, kind, s, steps[0])
    BY <2>2, <2>3, GrowsReflexive, Zenon DEF Makes, Made
  <2>5. s \in Y
    BY <1>3, <2>3, <2>4, Zenon
  <2> QED
    BY <1>4, <2>1, <2>3, <2>4, <2>5, Zenon
<1>6. ASSUME NEW k \in 1 .. top, NEW x, <<k - 1, x>> \in X
      PROVE  /\ F[<<k - 1, x>>] = next(x, k)
             /\ <<k, F[<<k - 1, x>>]>> \in X
  <2>1. k - 1 \in 0 .. top /\ k \in 0 .. top /\ (k - 1) + 1 = k
    BY <1>2
  <2>2. F[<<k - 1, x>>] = next(x, k)
    BY <1>6, <2>1
  <2>3. x \in Y
    BY <1>6
  <2>4. Makes(g, kind, x, steps[k - 1])
    BY <1>4, <1>6, <2>1, <2>3, Zenon
  <2> DEFINE y == next(x, k)
  <2>5. y = AddTyped(x.eg, Listed(links[k].op, links[k].data, <<x.id>>), links[k].info)
    OBVIOUS
  <2>6. y = [eg |-> y.eg, id |-> y.id]
    BY DEF AddTyped
  <2> HIDE DEF F, X, y
  <2>7. PICK more : Made(g, kind, x.eg, more, x.id, steps[k - 1])
    BY <2>4, Zenon DEF Makes
  <2>8. Sound(x.eg, more) /\ Grows(g, kind, x.eg, more) /\ x.id \in Ids(x.eg)
        /\ more[x.id] = steps[k - 1]
    BY <2>7, Zenon DEF Made
  <2>9. LinkOK(links[k], steps[k - 1]) /\ steps[k] = StepKind(steps[k - 1], links[k].op)
    BY Zenon DEF Chained, top
  <2>10. Makes(x.eg, more, y, steps[k])
    BY <2>5, <2>8, <2>9, LinkIsMade, Zenon
  <2>11. PICK most : Made(x.eg, more, y.eg, most, y.id, steps[k])
    BY <2>10, Zenon DEF Makes
  <2>12. Grows(g, kind, y.eg, most)
    BY <2>8, <2>11, GrowsTransitive, Zenon DEF Made
  <2>13. Makes(g, kind, y, steps[k])
    BY <2>11, <2>12, Zenon DEF Makes, Made
  <2>14. y \in Y
    BY <1>3, <2>6, <2>13, Zenon
  <2>15. <<k, y>> \in X
    BY <1>4, <2>1, <2>13, <2>14, Zenon
  <2> QED
    BY <2>2, <2>15, Zenon DEF y
<1> HIDE DEF F, X, Y
<1>7. StaysIn(top, F, X)
  BY <1>6 DEF StaysIn
<1>8. PICK f : Follows(f, top, start, F, X) /\ AllIn(f, top, X)
  BY <1>2, <1>5, <1>7, FollowersExist
<1> HIDE DEF next
<1>9. \A k \in 1 .. top : k \in 0 .. top /\ k - 1 \in 0 .. top /\ k # 0
  BY <1>2
<1>10. f = Body(f)
  <2>1. ASSUME NEW k \in 0 .. top
        PROVE  f[k] = IF k = 0 THEN start ELSE next(f[k - 1], k)
    <3>1. k = 0 \/ k \in 1 .. top
      BY <1>2
    <3>2. ASSUME k \in 1 .. top PROVE f[k] = next(f[k - 1], k)
      BY <1>6, <1>8, <1>9, <3>2 DEF Follows, AllIn
    <3> QED
      BY <1>8, <1>9, <3>1, <3>2, Zenon DEF Follows
  <2> QED
    BY <1>8, <2>1 DEF Follows
<1>11. upto = Body(upto)
  <2> HIDE DEF Body
  <2> QED
    BY <1>10
<1> HIDE DEF upto
<1>12. Follows(upto, top, start, F, X)
  <2>1. upto = [k \in 0 .. top |-> upto[k]] /\ upto[0] = start
    BY <1>2, <1>11
  <2>2. \A k \in 1 .. top : upto[k] = next(upto[k - 1], k)
    BY <1>9, <1>11, Zenon
  <2> QED
    BY <1>6, <2>1, <2>2 DEF Follows
<1>13. AllIn(upto, top, X)
  BY <1>2, <1>5, <1>7, <1>12, FollowersStay
<1>14. <<top, upto[top]>> \in X /\ top \in 0 .. top
  BY <1>2, <1>13 DEF AllIn
<1>15. upto[top] \in Y
  BY <1>14 DEF X
<1> QED
  BY <1>1, <1>4, <1>14, <1>15, Zenon DEF top

-----------------------------------------------------------------------------
(* The shapes of the initializer's links.                                  *)

IsShape(s) == s \in Seq(Nat) /\ s # <<>>

LEMMA MappedIsShape ==
  ASSUME NEW n \in Nat \ {0}, NEW s, s = [k \in 1 .. n |-> s[k]], \A k \in 1 .. n : s[k] \in Nat
  PROVE  IsShape(s)
<1>1. s \in Seq(Nat) /\ Len(s) = n
  OBVIOUS
<1> QED
  BY <1>1 DEF IsShape

LEMMA ShapeHasRank ==
  ASSUME NEW s, IsShape(s)
  PROVE  Len(s) \in Nat \ {0} /\ DOMAIN s = 1 .. Len(s) /\ \A k \in 1 .. Len(s) : s[k] \in Nat
BY DEF IsShape

LEMMA WithSizeIsShape ==
  ASSUME NEW s, IsShape(s), NEW dtype
  PROVE  IsShape(WithSize(s, dtype))
<1>1. SizeInBytes(dtype) \in Nat
  BY SizeIsNat
<1>2. PICK size : size = SizeInBytes(dtype)
  OBVIOUS
<1>3. Append(s, size) \in Seq(Nat) /\ Len(Append(s, size)) = Len(s) + 1 /\ Len(s) \in Nat
  BY <1>1, <1>2 DEF IsShape
<1>4. Append(s, size) # <<>>
  BY <1>3
<1> QED
  BY <1>2, <1>3, <1>4, Zenon DEF WithSize, IsShape

\* A tile that divides a shape.
Tiles(tile, shape) ==
  IsShape(shape) /\ Len(tile) = Len(shape) /\ tile \in Seq(Nat \ {0})

LEMMA DivIsNat == \A a \in Nat, b \in Nat \ {0} : a \div b \in Nat
OBVIOUS

\* A tile that divides the shape leaves a shape.
LEMMA QuotientsIsShape ==
  ASSUME NEW shape, NEW tile, Tiles(tile, shape), NEW q, q = Quotients(shape, tile)
  PROVE  IsShape(q) /\ Len(q) = Len(shape)
<1>1. /\ Len(shape) \in Nat \ {0} /\ DOMAIN shape = 1 .. Len(shape)
      /\ \A k \in 1 .. Len(shape) : shape[k] \in Nat
  BY ShapeHasRank DEF Tiles
<1>2. \A k \in 1 .. Len(shape) : tile[k] \in Nat \ {0}
  BY DEF Tiles
<1>3. \A k \in 1 .. Len(shape) : q[k] \in Nat
  <2>1. ASSUME NEW k \in 1 .. Len(shape) PROVE q[k] \in Nat
    <3>1. q[k] = shape[k] \div tile[k]
      BY <1>1 DEF Quotients
    <3> QED
      BY <1>1, <1>2, <3>1, DivIsNat
  <2> QED
    BY <2>1
<1>4. q = [k \in 1 .. Len(shape) |-> q[k]]
  BY <1>1 DEF Quotients
<1>5. PICK n : n = Len(shape)
  OBVIOUS
<1>6. IsShape(q)
  BY <1>1, <1>3, <1>4, <1>5, MappedIsShape
<1>7. Len(q) = Len(shape)
  BY <1>1, <1>4
<1> QED
  BY <1>6, <1>7

LEMMA TiledShapeIsShape ==
  ASSUME NEW shape, NEW tile, Tiles(tile, shape)
  PROVE  IsShape(TiledShape(shape, tile))
<1>1. PICK q : q = Quotients(shape, tile)
  OBVIOUS
<1>2. q \in Seq(Nat) /\ Len(q) \in Nat \ {0}
  BY <1>1, QuotientsIsShape, ShapeHasRank DEF IsShape
<1>3. tile \in Seq(Nat) /\ Len(tile) \in Nat
  BY DEF Tiles
<1>4. q \o tile \in Seq(Nat) /\ Len(q \o tile) = Len(q) + Len(tile)
  BY <1>2, <1>3
<1>5. q \o tile # <<>>
  BY <1>2, <1>3, <1>4
<1> QED
  BY <1>1, <1>4, <1>5, Zenon DEF TiledShape, IsShape

LEMMA HalvesOf ==
  ASSUME NEW n \in Nat \ {0}, NEW m \in 1 .. 2 * n
  PROVE  /\ m % 2 = 1 => (m + 1) \div 2 \in 1 .. n
         /\ m % 2 # 1 => m \div 2 \in 1 .. n
OBVIOUS

LEMMA ResultShapeIsShape ==
  ASSUME NEW shape, NEW tile, Tiles(tile, shape), NEW r, r = ResultShape(shape, tile)
  PROVE  IsShape(r) /\ Len(r) = 2 * Len(shape)
<1>1. PICK q : q = Quotients(shape, tile)
  OBVIOUS
<1>2. PICK n : n = Len(shape)
  OBVIOUS
<1>3. n \in Nat \ {0} /\ 2 * n \in Nat \ {0}
  BY <1>2, ShapeHasRank DEF Tiles
<1>4. \A k \in 1 .. n : q[k] \in Nat /\ tile[k] \in Nat
  <2>1. Len(q) = n /\ IsShape(q)
    BY <1>1, <1>2, QuotientsIsShape
  <2>2. \A k \in 1 .. n : q[k] \in Nat
    BY <2>1, ShapeHasRank
  <2>3. \A k \in 1 .. n : tile[k] \in Nat
    BY <1>2 DEF Tiles
  <2> QED
    BY <2>2, <2>3
<1>5. r = [m \in 1 .. 2 * n |-> IF m % 2 = 1 THEN q[(m + 1) \div 2] ELSE tile[m \div 2]]
  BY <1>1, <1>2, Zenon DEF ResultShape
<1>6. ASSUME NEW m \in 1 .. 2 * n PROVE r[m] \in Nat
  <2>1. r[m] = IF m % 2 = 1 THEN q[(m + 1) \div 2] ELSE tile[m \div 2]
    BY <1>5
  <2>2. (m % 2 = 1 => (m + 1) \div 2 \in 1 .. n) /\ (m % 2 # 1 => m \div 2 \in 1 .. n)
    BY <1>3, HalvesOf
  <2> QED
    BY <1>4, <2>1, <2>2, Zenon
<1>7. r = [m \in 1 .. 2 * n |-> r[m]]
  BY <1>5
<1>8. PICK t : t = 2 * n
  OBVIOUS
<1>9. IsShape(r)
  BY <1>3, <1>6, <1>7, <1>8, MappedIsShape
<1>10. Len(r) = 2 * n
  BY <1>3, <1>7
<1> QED
  BY <1>2, <1>9, <1>10, Zenon

LEMMA OrderParamIsShape ==
  ASSUME NEW n \in Nat \ {0}
  PROVE  IsShape(OrderParam(n))
<1>1. PICK r : r = OrderParam(n)
  OBVIOUS
<1>2. r = [m \in 1 .. 2 * n |-> IF m % 2 = 1 THEN (m + 1) \div 2 ELSE n + m \div 2]
  BY <1>1, Zenon DEF OrderParam
<1>3. ASSUME NEW m \in 1 .. 2 * n PROVE r[m] \in Nat
  BY <1>2
<1>4. r = [m \in 1 .. 2 * n |-> r[m]]
  BY <1>2
<1>5. PICK t : t = 2 * n
  OBVIOUS
<1>6. t \in Nat \ {0}
  BY <1>5
<1> QED
  BY <1>1, <1>3, <1>4, <1>5, <1>6, MappedIsShape

LEMMA OrderResultIsShape ==
  ASSUME NEW n \in Nat \ {0}, NEW r, r = OrderResult(n)
  PROVE  IsShape(r) /\ Len(r) = 2 * n /\ \A k \in 1 .. 2 * n : r[k] \in 1 .. 2 * n
<1>1. r = [m \in 1 .. 2 * n |-> IF m <= n THEN 2 * m - 1 ELSE 2 * (m - n)]
  BY DEF OrderResult
<1>2. ASSUME NEW m \in 1 .. 2 * n PROVE r[m] \in 1 .. 2 * n /\ r[m] \in Nat
  BY <1>1
<1>3. r = [m \in 1 .. 2 * n |-> r[m]]
  BY <1>1
<1>4. PICK t : t = 2 * n
  OBVIOUS
<1>5. t \in Nat \ {0}
  BY <1>4
<1>6. IsShape(r)
  BY <1>2, <1>3, <1>4, <1>5, MappedIsShape
<1>7. Len(r) = 2 * n
  BY <1>3, <1>4, <1>5
<1> QED
  BY <1>2, <1>6, <1>7

LEMMA PermutedIsShape ==
  ASSUME NEW shape, NEW order0, IsShape(shape), IsShape(order0),
         \A k \in 1 .. Len(order0) : order0[k] \in 1 .. Len(shape)
  PROVE  IsShape(Permuted(shape, order0))
<1>1. PICK r : r = Permuted(shape, order0)
  OBVIOUS
<1>2. Len(order0) \in Nat \ {0} /\ DOMAIN order0 = 1 .. Len(order0)
      /\ \A k \in 1 .. Len(shape) : shape[k] \in Nat
  BY ShapeHasRank
<1>3. r = [k \in 1 .. Len(order0) |-> shape[order0[k]]]
  BY <1>1, <1>2, Zenon DEF Permuted
<1>4. \A k \in 1 .. Len(order0) : r[k] \in Nat
  BY <1>2, <1>3
<1>5. r = [k \in 1 .. Len(order0) |-> r[k]]
  BY <1>3
<1> QED
  BY <1>1, <1>2, <1>4, <1>5, MappedIsShape

LEMMA BytesIsNat ==
  ASSUME NEW info, info.shape \in Seq(Nat)
  PROVE  Bytes(info) \in Nat
<1>1. Product(info.shape) \in Nat
  BY ProductIsNat
<1>2. SizeInBytes(info.dtype) \in Nat
  BY SizeIsNat
<1> QED
  BY <1>1, <1>2, TimesIsNat, Zenon DEF Bytes

\* What the links need to know of an instruction.
Laid(i) ==
  /\ IsShape(i.shape) /\ i.dtype \in Dtypes
  /\ i.tile = <<>> \/ Tiles(i.tile, i.shape)

LEMMA LinkFields ==
  ASSUME NEW op, NEW data, NEW info, NEW link, link = Link(op, data, info)
  PROVE  link.op = op /\ link.data = data /\ link.info = info
BY DEF Link

LEMMA ReshapeIsOK ==
  ASSUME NEW data, NEW info, IsShape(data), info \in Infos, NEW from,
         from # "typed" => info.dtype = "U8"
  PROVE  LinkOK(Link("reshape", data, info), from)
<1>1. PICK link : link = Link("reshape", data, info)
  OBVIOUS
<1>2. link.op = "reshape" /\ link.data = data /\ link.info = info
  BY <1>1, LinkFields
<1>3. "reshape" \in {"reshape", "bitcvt", "transpose"} /\ "reshape" # "bitcvt" /\ "reshape" # "transpose"
  OBVIOUS
<1>4. LinkOK(link, from)
  BY <1>2, <1>3, Zenon DEF LinkOK, IsShape, StepKind
<1> QED
  BY <1>1, <1>4, Zenon

LEMMA BitcvtIsOK ==
  ASSUME NEW info, info \in Infos, NEW from
  PROVE  LinkOK(Link("bitcvt", <<>>, info), from)
<1>1. PICK link : link = Link("bitcvt", <<>>, info)
  OBVIOUS
<1>2. link.op = "bitcvt" /\ link.data = <<>> /\ link.info = info
  BY <1>1, LinkFields
<1>3. "bitcvt" \in {"reshape", "bitcvt", "transpose"} /\ "reshape" # "bitcvt" /\ "bitcvt" # "transpose"
      /\ <<>> \in Seq(Nat)
  OBVIOUS
<1>4. LinkOK(link, from)
  BY <1>2, <1>3, Zenon DEF LinkOK, StepKind
<1> QED
  BY <1>1, <1>4, Zenon

LEMMA TransposeIsOK ==
  ASSUME NEW data, NEW info, IsShape(data), info \in Infos
  PROVE  LinkOK(Link("transpose", data, info), "typed")
<1>1. PICK link : link = Link("transpose", data, info)
  OBVIOUS
<1>2. link.op = "transpose" /\ link.data = data /\ link.info = info
  BY <1>1, LinkFields
<1>3. "transpose" \in {"reshape", "bitcvt", "transpose"} /\ "transpose" # "bitcvt" /\ "transpose" # "reshape"
  OBVIOUS
<1>4. LinkOK(link, "typed")
  BY <1>2, <1>3, Zenon DEF LinkOK, IsShape, StepKind
<1> QED
  BY <1>1, <1>4, Zenon

LEMMA ShapeIsInfo ==
  ASSUME NEW s, IsShape(s), NEW dtype \in Dtypes
  PROVE  Info(s, dtype) \in Infos
BY InfoFacts, Zenon DEF IsShape

LEMMA BytesAreShape ==
  ASSUME NEW i, Laid(i), NEW flat, flat = <<Bytes(TypeOf(i))>>
  PROVE  IsShape(flat)
<1>1. PICK info : info = TypeOf(i)
  OBVIOUS
<1>2. info.shape = i.shape
  BY <1>1 DEF TypeOf, Info
<1>3. PICK n : n = Bytes(info)
  OBVIOUS
<1>4. n \in Nat
  BY <1>2, <1>3, BytesIsNat DEF Laid, IsShape
<1>5. flat = <<n>>
  BY <1>1, <1>3, Zenon
<1> QED
  BY <1>4, <1>5 DEF IsShape

ParameterSteps == [k \in 0 .. 4 |-> IF k = 0 THEN "input" ELSE IF k = 1 THEN "raw" ELSE "typed"]

\* A parameter's chain starts at the Var and gives its bytes a type.
LEMMA ParameterLinksAreChained ==
  ASSUME NEW i, Laid(i), NEW links, links = ParameterLinks(i)
  PROVE  Chained(links, ParameterSteps) /\ Len(links) \in {2, 4}
<1> DEFINE tiled == TiledShape(i.shape, i.tile)
           sized == WithSize(i.shape, i.dtype)
           big == WithSize(tiled, i.dtype)
           perm == OrderParam(Len(i.shape))
<1>1. "U8" \in Dtypes /\ i.dtype \in Dtypes /\ IsShape(i.shape)
  BY Zenon DEF Dtypes, Laid
<1>2. IsShape(sized)
  BY <1>1, WithSizeIsShape, Zenon
<1>3. /\ ParameterSteps[0] = "input" /\ ParameterSteps[1] = "raw" /\ ParameterSteps[2] = "typed"
      /\ ParameterSteps[3] = "typed" /\ ParameterSteps[4] = "typed"
  BY DEF ParameterSteps
<1>4. TypeOf(i) \in Infos
  BY <1>1, ShapeIsInfo, Zenon DEF TypeOf
<1>5. /\ StepKind("input", "reshape") = "raw" /\ StepKind("raw", "bitcvt") = "typed"
      /\ StepKind("typed", "transpose") = "typed" /\ StepKind("typed", "reshape") = "typed"
      /\ StepKind("typed", "bitcvt") = "typed"
  BY DEF StepKind
<1> HIDE DEF tiled, sized, big, perm
<1>6. CASE i.tile = <<>>
  <2> DEFINE l1 == Link("reshape", sized, Info(sized, "U8"))
             l2 == Link("bitcvt", <<>>, TypeOf(i))
  <2>1. links = <<l1, l2>>
    BY <1>6, Zenon DEF ParameterLinks, sized
  <2>2. Info(sized, "U8") \in Infos /\ Info(sized, "U8").dtype = "U8"
    BY <1>1, <1>2, ShapeIsInfo DEF Info
  <2>3. LinkOK(l1, "input") /\ LinkOK(l2, "raw")
    BY <1>2, <1>4, <2>2, ReshapeIsOK, BitcvtIsOK, Zenon
  <2>4. l1.op = "reshape" /\ l2.op = "bitcvt"
    BY DEF Link
  <2> HIDE DEF l1, l2
  <2>5. Len(links) = 2 /\ links[1] = l1 /\ links[2] = l2
    BY <2>1
  <2>6. ASSUME NEW k \in 1 .. 2
        PROVE  LinkOK(links[k], ParameterSteps[k - 1])
               /\ ParameterSteps[k] = StepKind(ParameterSteps[k - 1], links[k].op)
    <3>1. k = 1 \/ k = 2
      OBVIOUS
    <3>2. CASE k = 1
      <4>1. k - 1 = 0
        BY <3>2
      <4> QED
        BY <1>3, <1>5, <2>3, <2>4, <2>5, <3>2, <4>1, Zenon
    <3>3. CASE k = 2
      <4>1. k - 1 = 1
        BY <3>3
      <4> QED
        BY <1>3, <1>5, <2>3, <2>4, <2>5, <3>3, <4>1, Zenon
    <3> QED
      BY <3>1, <3>2, <3>3
  <2>7. 2 \in Nat /\ 2 \in {2, 4}
    OBVIOUS
  <2> QED
    BY <2>5, <2>6, <2>7, Zenon DEF Chained
<1>7. CASE i.tile # <<>>
  <2>1. Tiles(i.tile, i.shape)
    BY <1>7, Zenon DEF Laid
  <2>2. IsShape(tiled)
    BY <2>1, TiledShapeIsShape, Zenon DEF tiled
  <2>3. IsShape(big)
    BY <2>2, WithSizeIsShape, Zenon DEF big
  <2>4. IsShape(perm)
    <3>1. Len(i.shape) \in Nat \ {0}
      BY <1>1, ShapeHasRank
    <3> QED
      BY <3>1, OrderParamIsShape, Zenon DEF perm
  <2> DEFINE l1 == Link("reshape", big, Info(big, "U8"))
             l2 == Link("bitcvt", <<>>, Info(tiled, i.dtype))
             l3 == Link("transpose", perm, Info(tiled, i.dtype))
             l4 == Link("reshape", sized, Info(sized, i.dtype))
  <2>5. links = <<l1, l2, l3, l4>>
    BY <1>7, Zenon DEF ParameterLinks, sized, tiled, big, perm
  <2>6. Info(big, "U8") \in Infos /\ Info(big, "U8").dtype = "U8"
    BY <1>1, <2>3, ShapeIsInfo DEF Info
  <2>7. Info(tiled, i.dtype) \in Infos /\ Info(sized, i.dtype) \in Infos
    BY <1>1, <1>2, <2>2, ShapeIsInfo, Zenon
  <2>8. LinkOK(l1, "input") /\ LinkOK(l2, "raw") /\ LinkOK(l3, "typed") /\ LinkOK(l4, "typed")
    BY <1>2, <2>3, <2>4, <2>6, <2>7, ReshapeIsOK, BitcvtIsOK, TransposeIsOK, Zenon
  <2>9. l1.op = "reshape" /\ l2.op = "bitcvt" /\ l3.op = "transpose" /\ l4.op = "reshape"
    BY DEF Link
  <2> HIDE DEF l1, l2, l3, l4
  <2>10. Len(links) = 4 /\ links[1] = l1 /\ links[2] = l2 /\ links[3] = l3 /\ links[4] = l4
    BY <2>5
  <2>11. ASSUME NEW k \in 1 .. 4
         PROVE  LinkOK(links[k], ParameterSteps[k - 1])
                /\ ParameterSteps[k] = StepKind(ParameterSteps[k - 1], links[k].op)
    <3>1. (k = 1 /\ k - 1 = 0) \/ (k = 2 /\ k - 1 = 1) \/ (k = 3 /\ k - 1 = 2) \/ (k = 4 /\ k - 1 = 3)
      OBVIOUS
    <3> QED
      BY <1>3, <1>5, <2>8, <2>9, <2>10, <3>1, Zenon
  <2>12. 4 \in Nat /\ 4 \in {2, 4}
    OBVIOUS
  <2> QED
    BY <2>10, <2>11, <2>12, Zenon DEF Chained
<1> QED
  BY <1>6, <1>7

TypedSteps == [k \in 0 .. 4 |-> "typed"]

\* The root's chain starts and ends with a type.
LEMMA RootLinksAreChained ==
  ASSUME NEW i, Laid(i), NEW links, links = RootLinks(i)
  PROVE  Chained(links, TypedSteps) /\ Len(links) \in {2, 4}
<1> DEFINE sized == WithSize(i.shape, i.dtype)
           flat  == <<Bytes(TypeOf(i))>>
           tiled == ResultShape(i.shape, i.tile)
           ord   == OrderResult(Len(i.shape))
           moved == Permuted(tiled, ord)
           back  == WithSize(moved, i.dtype)
<1>1. "U8" \in Dtypes /\ i.dtype \in Dtypes /\ IsShape(i.shape)
  BY Zenon DEF Dtypes, Laid
<1>2. IsShape(sized) /\ IsShape(flat)
  <2>1. IsShape(flat)
    BY BytesAreShape, Zenon
  <2> QED
    BY <1>1, <2>1, WithSizeIsShape, Zenon
<1>3. ASSUME NEW k, k \in 0 .. 4 PROVE TypedSteps[k] = "typed"
  BY <1>3 DEF TypedSteps
<1>4. /\ StepKind("typed", "transpose") = "typed" /\ StepKind("typed", "reshape") = "typed"
      /\ StepKind("typed", "bitcvt") = "typed"
  BY DEF StepKind
<1> HIDE DEF tiled, sized, flat, ord, moved, back
<1>5. Info(sized, "U8") \in Infos /\ Info(flat, "U8") \in Infos
  BY <1>1, <1>2, ShapeIsInfo, Zenon
<1>6. CASE i.tile = <<>>
  <2> DEFINE l1 == Link("bitcvt", <<>>, Info(sized, "U8"))
             l2 == Link("reshape", flat, Info(flat, "U8"))
  <2>1. links = <<l1, l2>>
    BY <1>6, Zenon DEF RootLinks, sized, flat
  <2>2. LinkOK(l1, "typed") /\ LinkOK(l2, "typed")
    BY <1>2, <1>5, ReshapeIsOK, BitcvtIsOK, Zenon
  <2>3. l1.op = "bitcvt" /\ l2.op = "reshape"
    BY DEF Link
  <2> HIDE DEF l1, l2
  <2>4. Len(links) = 2 /\ links[1] = l1 /\ links[2] = l2
    BY <2>1
  <2>5. ASSUME NEW k \in 1 .. 2
        PROVE  LinkOK(links[k], TypedSteps[k - 1])
               /\ TypedSteps[k] = StepKind(TypedSteps[k - 1], links[k].op)
    <3>1. (k = 1 \/ k = 2) /\ k \in 0 .. 4 /\ k - 1 \in 0 .. 4
      OBVIOUS
    <3> QED
      BY <1>3, <1>4, <2>2, <2>3, <2>4, <3>1, Zenon
  <2>6. 2 \in Nat /\ 2 \in {2, 4}
    OBVIOUS
  <2> QED
    BY <2>4, <2>5, <2>6, Zenon DEF Chained
<1>7. CASE i.tile # <<>>
  <2>1. Tiles(i.tile, i.shape)
    BY <1>7, Zenon DEF Laid
  <2>2. IsShape(tiled) /\ Len(tiled) = 2 * Len(i.shape)
    BY <2>1, ResultShapeIsShape, Zenon DEF tiled
  <2>3. IsShape(ord) /\ Len(ord) = 2 * Len(i.shape)
        /\ \A k \in 1 .. 2 * Len(i.shape) : ord[k] \in 1 .. 2 * Len(i.shape)
    <3>1. PICK n : n = Len(i.shape)
      OBVIOUS
    <3>2. n \in Nat \ {0}
      BY <1>1, <3>1, ShapeHasRank
    <3>3. ord = OrderResult(n)
      BY <3>1, Zenon DEF ord
    <3>4. IsShape(ord) /\ Len(ord) = 2 * n /\ \A k \in 1 .. 2 * n : ord[k] \in 1 .. 2 * n
      BY <3>2, <3>3, OrderResultIsShape
    <3> QED
      BY <3>1, <3>4, Zenon
  <2>4. IsShape(moved)
    BY <2>2, <2>3, PermutedIsShape, Zenon DEF moved
  <2>5. IsShape(back)
    BY <2>4, WithSizeIsShape, Zenon DEF back
  <2> DEFINE l1 == Link("reshape", tiled, Info(tiled, i.dtype))
             l2 == Link("transpose", ord, Info(moved, i.dtype))
             l3 == Link("bitcvt", <<>>, Info(back, "U8"))
             l4 == Link("reshape", flat, Info(flat, "U8"))
  <2>6. links = <<l1, l2, l3, l4>>
    BY <1>7, Zenon DEF RootLinks, tiled, ord, moved, back, flat
  <2>7. Info(tiled, i.dtype) \in Infos /\ Info(moved, i.dtype) \in Infos /\ Info(back, "U8") \in Infos
    BY <1>1, <2>2, <2>4, <2>5, ShapeIsInfo, Zenon
  <2>8. LinkOK(l1, "typed") /\ LinkOK(l2, "typed") /\ LinkOK(l3, "typed") /\ LinkOK(l4, "typed")
    BY <1>2, <1>5, <2>2, <2>3, <2>7, ReshapeIsOK, BitcvtIsOK, TransposeIsOK, Zenon
  <2>9. l1.op = "reshape" /\ l2.op = "transpose" /\ l3.op = "bitcvt" /\ l4.op = "reshape"
    BY DEF Link
  <2> HIDE DEF l1, l2, l3, l4
  <2>10. Len(links) = 4 /\ links[1] = l1 /\ links[2] = l2 /\ links[3] = l3 /\ links[4] = l4
    BY <2>6
  <2>11. ASSUME NEW k \in 1 .. 4
         PROVE  LinkOK(links[k], TypedSteps[k - 1])
                /\ TypedSteps[k] = StepKind(TypedSteps[k - 1], links[k].op)
    <3>1. (k = 1 \/ k = 2 \/ k = 3 \/ k = 4) /\ k \in 0 .. 4 /\ k - 1 \in 0 .. 4
      OBVIOUS
    <3> QED
      BY <1>3, <1>4, <2>8, <2>9, <2>10, <3>1, Zenon
  <2>12. 4 \in Nat /\ 4 \in {2, 4}
    OBVIOUS
  <2> QED
    BY <2>10, <2>11, <2>12, Zenon DEF Chained
<1> QED
  BY <1>6, <1>7

-----------------------------------------------------------------------------
(* The e-node of an HLO instruction.                                       *)

NodeIs(en, op, kids) ==
  en \in ENodes /\ HasParts(en) /\ en.op = op /\ en.kids = kids

LEMMA ListedIsNode ==
  ASSUME NEW op, op \in TensorOps, op \in HasMetadata, NEW data, IsShape(data),
         NEW kids, kids \in Seq(Nat), Len(kids) = NumChildren(op)
  PROVE  NodeIs(Listed(op, data, kids), op, kids)
<1>1. PICK text : text = ""
  OBVIOUS
<1>2. text \in Texts
  BY <1>1, Zenon DEF Texts
<1>3. PICK en : en = ENode(op, text, data, kids)
  OBVIOUS
<1>4. en.op = op /\ en.text = text /\ en.data = data /\ en.kids = kids
  BY <1>3, ENodeIs
<1>5. data \in Seq(Nat) /\ data # <<>>
  BY Zenon DEF IsShape
<1>6. en \in ENodes
  BY <1>2, <1>3, <1>5, ENodeIn, Zenon
<1>7. HasParts(en)
  BY <1>4, <1>5, Zenon DEF HasParts
<1>8. en = Listed(op, data, kids)
  BY <1>1, <1>3, Zenon DEF Listed
<1> QED
  BY <1>4, <1>6, <1>7, <1>8, Zenon DEF NodeIs

LEMMA PlainIsNode ==
  ASSUME NEW op, op \in TensorOps, op \notin HasMetadata, op # "var", op # "slice",
         NEW kids, kids \in Seq(Nat), Len(kids) = NumChildren(op)
  PROVE  NodeIs(Plain(op, kids), op, kids)
<1>1. PICK text : text = ""
  OBVIOUS
<1>2. text \in Texts /\ text = ""
  BY <1>1, Zenon DEF Texts
<1>3. PICK en : en = ENode(op, text, <<>>, kids)
  OBVIOUS
<1>4. en.op = op /\ en.text = text /\ en.data = <<>> /\ en.kids = kids
  BY <1>3, ENodeIs
<1>5. PICK data : data = <<>>
  OBVIOUS
<1>6. data \in Seq(Nat)
  BY <1>5
<1>7. en \in ENodes
  BY <1>2, <1>3, <1>5, <1>6, ENodeIn, Zenon
<1>8. HasParts(en)
  BY <1>2, <1>4, Zenon DEF HasParts
<1>9. en = Plain(op, kids)
  BY <1>1, <1>3, Zenon DEF Plain
<1> QED
  BY <1>4, <1>7, <1>8, <1>9, Zenon DEF NodeIs

LEMMA TextedIsNode ==
  ASSUME NEW op, op \in TensorOps, op \in HasMetadata, op # "slice", NEW text, IsName(text),
         NEW kids, kids \in Seq(Nat), Len(kids) = NumChildren(op)
  PROVE  NodeIs(Texted(op, text, kids), op, kids)
<1>1. PICK en : en = ENode(op, text, <<>>, kids)
  OBVIOUS
<1>2. en.op = op /\ en.text = text /\ en.data = <<>> /\ en.kids = kids
  BY <1>1, ENodeIs
<1>3. PICK data : data = <<>>
  OBVIOUS
<1>4. data \in Seq(Nat)
  BY <1>3
<1>5. text \in Texts
  BY Zenon DEF IsName
<1>6. en \in ENodes
  BY <1>1, <1>3, <1>4, <1>5, ENodeIn, Zenon
<1>7. HasParts(en)
  BY <1>2, Zenon DEF HasParts, IsName
<1>8. en = Texted(op, text, kids)
  BY <1>1, Zenon DEF Texted
<1> QED
  BY <1>2, <1>6, <1>7, <1>8, Zenon DEF NodeIs

\* A region that reduces does so in one of the ways there is an operation for.
LEMMA ReduceKindIsOne ==
  ASSUME NEW region, region \in Seq(STRING), Reduces(region)
  PROVE  ReduceKind(region) \in Reductions
<1> DEFINE S == {k \in DOMAIN region : region[k] # "parameter"}
           k0 == Max(S)
<1>1. S \in SUBSET (0 .. Len(region)) /\ S # {} /\ Len(region) \in Nat
  BY DEF Reduces
<1>2. PICK n : n = Len(region)
  OBVIOUS
<1>3. S \in SUBSET (0 .. n) /\ n \in Nat
  BY <1>1, <1>2, Zenon
<1>4. ReduceKind(region) = Reducers[region[k0]]
  BY Zenon DEF ReduceKind, LastOperator
<1>5. k0 \in S
  <2> HIDE DEF S
  <2> QED
    BY <1>1, <1>3, MaxIsElement
<1> HIDE DEF k0
<1>6. region[k0] \in DOMAIN Reducers
  BY <1>5, Zenon DEF Reduces
<1>7. \A x \in DOMAIN Reducers : Reducers[x] \in Reductions
  BY DEF Reducers, Reductions
<1> QED
  BY <1>4, <1>6, <1>7, Zenon

\* An operation on the first of some classes.
NodeOn(en, kids) ==
  /\ en \in ENodes /\ HasParts(en) /\ en.op # "var"
  /\ \A k \in DOMAIN en.kids : k \in DOMAIN kids /\ en.kids[k] = kids[k]

LEMMA NodeIsOn ==
  ASSUME NEW en, NEW op, NEW kids, op # "var",
         NEW some, NodeIs(en, op, some), \A k \in DOMAIN some : k \in DOMAIN kids /\ some[k] = kids[k]
  PROVE  NodeOn(en, kids)
BY Zenon DEF NodeOn, NodeIs

LEMMA SameKids ==
  ASSUME NEW en, NEW op, NEW kids, op # "var", NodeIs(en, op, kids)
  PROVE  NodeOn(en, kids)
BY Zenon DEF NodeOn, NodeIs

\* What the instruction's attribute and operands are.
Fed(i, regions, kids) ==
  /\ Laid(i)
  /\ kids \in Seq(Nat) /\ Len(kids) \in Operands(i.op)
  /\ i.op \in {"slice", "transpose", "concatenate", "reduce"} => IsShape(i.attr)
  /\ i.op = "constant" => IsName(i.text)
  /\ i.op = "reduce" => regions[i.text] \in Seq(STRING) /\ Reduces(regions[i.text])

LEMMA PrefixOf ==
  ASSUME NEW kids, kids \in Seq(Nat), NEW n \in {1, 2}, n <= Len(kids),
         NEW some, some = IF n = 1 THEN <<kids[1]>> ELSE <<kids[1], kids[2]>>
  PROVE  /\ some \in Seq(Nat) /\ Len(some) = n
         /\ \A k \in DOMAIN some : k \in DOMAIN kids /\ some[k] = kids[k]
<1>1. CASE n = 1
  <2>1. kids[1] \in Nat /\ 1 \in DOMAIN kids
    BY <1>1
  <2>2. some = <<kids[1]>>
    BY <1>1
  <2> QED
    BY <1>1, <2>1, <2>2
<1>2. CASE n = 2
  <2>1. kids[1] \in Nat /\ 1 \in DOMAIN kids /\ kids[2] \in Nat /\ 2 \in DOMAIN kids
    BY <1>2
  <2>2. some = <<kids[1], kids[2]>>
    BY <1>2
  <2>3. some \in Seq(Nat) /\ Len(some) = 2 /\ DOMAIN some = {1, 2} /\ some[1] = kids[1] /\ some[2] = kids[2]
    BY <2>1, <2>2
  <2> QED
    BY <1>2, <2>1, <2>3, Zenon
<1> QED
  BY <1>1, <1>2

LEMMA NoKids ==
  ASSUME NEW kids
  PROVE  /\ <<>> \in Seq(Nat) /\ Len(<<>>) = 0
         /\ \A k \in DOMAIN <<>> : k \in DOMAIN kids /\ <<>>[k] = kids[k]
OBVIOUS

\* Every instruction that is fed its operands gets an e-node it can have.
LEMMA OperationIsNode ==
  ASSUME NEW i, NEW regions, NEW kids, Fed(i, regions, kids),
         i.op \in Supported, i.op # "parameter",
         NEW en, en = Operation(i, regions, kids)
  PROVE  NodeOn(en, kids)
<1>1. Laid(i) /\ kids \in Seq(Nat) /\ Len(kids) \in Operands(i.op) /\ IsShape(i.shape) /\ i.dtype \in Dtypes
  BY Zenon DEF Fed, Laid
<1>2. CASE i.op = "constant"
  <2>1. en = Texted("constant", i.text, <<>>)
    <3>1. en = AddConstant(i)
      BY <1>2 DEF Operation, BinaryOps
    <3> QED
      BY <3>1, Zenon DEF AddConstant
  <2>2. "constant" \in TensorOps /\ "constant" \in HasMetadata /\ "constant" # "slice" /\ "constant" # "var"
        /\ NumChildren("constant") = 0
    BY DEF TensorOps, HasMetadata, NumChildren, BinaryOps
  <2>3. IsName(i.text)
    BY <1>2, Zenon DEF Fed
  <2>4. <<>> \in Seq(Nat) /\ Len(<<>>) = NumChildren("constant")
    BY <2>2
  <2>5. NodeIs(en, "constant", <<>>)
    BY <2>1, <2>2, <2>3, <2>4, TextedIsNode, Zenon
  <2>6. \A k \in DOMAIN <<>> : k \in DOMAIN kids /\ <<>>[k] = kids[k]
    BY NoKids
  <2> QED
    BY <2>2, <2>5, <2>6, NodeIsOn, Zenon
<1>3. CASE i.op \in {"broadcast", "slice", "reshape", "transpose"}
  <2>1. en = Listed(i.op, Kept(i), kids)
    <3>1. CASE i.op = "broadcast"
      <4>1. en = AddBroadcast(i, kids)
        BY <3>1 DEF Operation, BinaryOps
      <4> QED
        BY <3>1, <4>1, Zenon DEF AddBroadcast
    <3>2. CASE i.op = "slice"
      <4>1. en = AddSlice(i, kids)
        BY <3>2 DEF Operation, BinaryOps
      <4> QED
        BY <3>2, <4>1, Zenon DEF AddSlice
    <3>3. CASE i.op = "reshape"
      <4>1. en = AddReshape(i, kids)
        BY <3>3 DEF Operation, BinaryOps
      <4> QED
        BY <3>3, <4>1, Zenon DEF AddReshape
    <3>4. CASE i.op = "transpose"
      <4>1. en = AddTranspose(i, kids)
        BY <3>4 DEF Operation, BinaryOps
      <4> QED
        BY <3>4, <4>1, Zenon DEF AddTranspose
    <3> QED
      BY <1>3, <3>1, <3>2, <3>3, <3>4
  <2>2. i.op \in TensorOps /\ i.op \in HasMetadata /\ i.op # "var"
        /\ NumChildren(i.op) = 1 /\ Operands(i.op) = {1}
    BY <1>3 DEF TensorOps, HasMetadata, NumChildren, BinaryOps, Operands
  <2>3. Kept(i) = i.attr \/ Kept(i) = i.shape
    BY <1>3 DEF Kept
  <2>4. IsShape(Kept(i))
    <3>1. CASE i.op \in {"slice", "transpose"}
      <4>1. Kept(i) = i.attr
        BY <3>1 DEF Kept
      <4>2. i.op \in {"slice", "transpose", "concatenate", "reduce"}
        BY <3>1
      <4> QED
        BY <4>1, <4>2, Zenon DEF Fed
    <3>2. CASE i.op \in {"broadcast", "reshape"}
      <4>1. Kept(i) = i.shape
        BY <3>2 DEF Kept
      <4> QED
        BY <1>1, <4>1, Zenon
    <3> QED
      BY <1>3, <3>1, <3>2
  <2>5. Len(kids) = NumChildren(i.op)
    BY <1>1, <2>2
  <2>6. NodeIs(en, i.op, kids)
    BY <1>1, <2>1, <2>2, <2>4, <2>5, ListedIsNode, Zenon
  <2> QED
    BY <2>2, <2>6, SameKids, Zenon
<1>4. CASE i.op \in BinaryOps \cup {"dot"}
  <2>1. en = Plain(i.op, kids)
    <3>1. en = AddBinaryOp(i, kids)
      BY <1>4 DEF Operation, BinaryOps
    <3> QED
      BY <3>1, Zenon DEF AddBinaryOp
  <2>2. i.op \in TensorOps /\ i.op \notin HasMetadata /\ i.op # "var" /\ i.op # "slice"
        /\ NumChildren(i.op) = 2 /\ Operands(i.op) = {2}
    BY <1>4 DEF TensorOps, HasMetadata, NumChildren, BinaryOps, Operands, Reductions
  <2>3. Len(kids) = NumChildren(i.op)
    BY <1>1, <2>2
  <2>4. NodeIs(en, i.op, kids)
    BY <1>1, <2>1, <2>2, <2>3, PlainIsNode, Zenon
  <2> QED
    BY <2>2, <2>4, SameKids, Zenon
<1>5. CASE i.op \in UnaryOps
  <2>1. en = Plain(i.op, kids)
    <3>1. en = AddUnaryOp(i, kids)
      BY <1>5 DEF Operation, BinaryOps, UnaryOps
    <3> QED
      BY <3>1, Zenon DEF AddUnaryOp
  <2>2. i.op \in TensorOps /\ i.op \notin HasMetadata /\ i.op # "var" /\ i.op # "slice"
        /\ NumChildren(i.op) = 1 /\ Operands(i.op) = {1}
    BY <1>5 DEF TensorOps, HasMetadata, NumChildren, BinaryOps, UnaryOps, Operands, Reductions
  <2>3. Len(kids) = NumChildren(i.op)
    BY <1>1, <2>2
  <2>4. NodeIs(en, i.op, kids)
    BY <1>1, <2>1, <2>2, <2>3, PlainIsNode, Zenon
  <2> QED
    BY <2>2, <2>4, SameKids, Zenon
<1>6. CASE i.op = "concatenate"
  <2>1. PICK some : some = <<kids[1], kids[2]>>
    OBVIOUS
  <2>2. en = Listed("concat", Kept(i), some)
    <3>1. en = AddConcatenate(i, kids)
      BY <1>6 DEF Operation, BinaryOps
    <3> QED
      BY <2>1, <3>1, Zenon DEF AddConcatenate
  <2>3. "concat" \in TensorOps /\ "concat" \in HasMetadata /\ "concat" # "var"
        /\ NumChildren("concat") = 2 /\ Operands(i.op) = Nat \ {0, 1}
    BY <1>6 DEF TensorOps, HasMetadata, NumChildren, BinaryOps, Operands
  <2>4. Kept(i) = i.attr
    BY <1>6 DEF Kept
  <2>5. IsShape(Kept(i))
    <3>1. i.op \in {"slice", "transpose", "concatenate", "reduce"}
      BY <1>6
    <3> QED
      BY <2>4, <3>1, Zenon DEF Fed
  <2>6. 2 <= Len(kids)
    <3>1. Len(kids) \in Nat \ {0, 1}
      BY <1>1, <2>3, Zenon
    <3> QED
      BY <3>1
  <2>7. /\ some \in Seq(Nat) /\ Len(some) = 2
        /\ \A k \in DOMAIN some : k \in DOMAIN kids /\ some[k] = kids[k]
    <3>1. PICK n : n = 2
      OBVIOUS
    <3>2. some = IF n = 1 THEN <<kids[1]>> ELSE <<kids[1], kids[2]>>
      BY <2>1, <3>1
    <3>3. n \in {1, 2} /\ n <= Len(kids)
      BY <2>6, <3>1
    <3> QED
      BY <1>1, <3>1, <3>2, <3>3, PrefixOf
  <2>8. NodeIs(en, "concat", some)
    <3>1. Len(some) = NumChildren("concat")
      BY <2>3, <2>7, Zenon
    <3>2. "concat" \in TensorOps /\ "concat" \in HasMetadata /\ some \in Seq(Nat)
      BY <2>3, <2>7, Zenon
    <3>3. NodeIs(Listed("concat", Kept(i), some), "concat", some)
      BY <2>5, <3>1, <3>2, ListedIsNode, Zenon
    <3> QED
      BY <2>2, <3>3, Zenon
  <2> QED
    BY <2>3, <2>7, <2>8, NodeIsOn, Zenon
<1>7. CASE i.op = "reduce"
  <2>1. PICK some : some = <<kids[1]>>
    OBVIOUS
  <2>2. PICK op : op = ReduceKind(regions[i.text])
    OBVIOUS
  <2>3. en = Listed(op, Kept(i), some)
    <3>1. en = AddReduce(i, regions[i.text], kids)
      BY <1>7 DEF Operation, BinaryOps
    <3> QED
      BY <2>1, <2>2, <3>1, Zenon DEF AddReduce
  <2>4. op \in Reductions
    <3>1. regions[i.text] \in Seq(STRING) /\ Reduces(regions[i.text])
      BY <1>7, Zenon DEF Fed
    <3> QED
      BY <2>2, <3>1, ReduceKindIsOne, Zenon
  <2>5. op \in TensorOps /\ op \in HasMetadata /\ op # "var" /\ NumChildren(op) = 1
    BY <2>4 DEF Reductions, TensorOps, HasMetadata, NumChildren, BinaryOps
  <2>6. Operands(i.op) = {2}
    BY <1>7 DEF Operands
  <2>7. /\ some \in Seq(Nat) /\ Len(some) = 1
        /\ \A k \in DOMAIN some : k \in DOMAIN kids /\ some[k] = kids[k]
    <3>1. PICK n : n = 1
      OBVIOUS
    <3>2. some = IF n = 1 THEN <<kids[1]>> ELSE <<kids[1], kids[2]>>
      BY <2>1, <3>1
    <3>3. n \in {1, 2} /\ n <= Len(kids)
      BY <1>1, <2>6, <3>1
    <3> QED
      BY <1>1, <3>1, <3>2, <3>3, PrefixOf
  <2>8. IsShape(Kept(i))
    <3>1. i.op \in {"slice", "transpose", "concatenate", "reduce"}
      BY <1>7
    <3>2. IsShape(i.attr)
      BY <3>1, Zenon DEF Fed
    <3>3. PICK a : a = i.attr[1]
      OBVIOUS
    <3>4. a \in Nat
      BY <3>2, <3>3, ShapeHasRank
    <3>5. Kept(i) = <<a>>
      BY <1>7, <3>3 DEF Kept
    <3> QED
      BY <3>4, <3>5 DEF IsShape
  <2>9. NodeIs(en, op, some)
    BY <2>3, <2>5, <2>7, <2>8, ListedIsNode, Zenon
  <2> QED
    BY <2>5, <2>7, <2>9, NodeIsOn, Zenon
<1>8. CASE i.op = "convert"
  <2>1. en = Texted("convert", Text[i.dtype], kids)
    <3>1. en = AddConvert(i, kids)
      BY <1>8 DEF Operation, BinaryOps
    <3> QED
      BY <3>1, Zenon DEF AddConvert
  <2>2. "convert" \in TensorOps /\ "convert" \in HasMetadata /\ "convert" # "slice" /\ "convert" # "var"
        /\ NumChildren("convert") = 1 /\ Operands(i.op) = {1}
    BY <1>8 DEF TensorOps, HasMetadata, NumChildren, BinaryOps, Operands
  <2>3. IsName(Text[i.dtype])
    <3>1. Text[i.dtype] \in Texts
      BY <1>1, Zenon DEF Texts
    <3>2. \A dtype \in Dtypes : Text[dtype] # ""
      <4>1. /\ Text["U8"] = "u8" /\ Text["I8"] = "s8" /\ Text["U16"] = "u16"
            /\ Text["I16"] = "s16" /\ Text["U32"] = "u32" /\ Text["I32"] = "s32"
            /\ Text["U64"] = "u64" /\ Text["I64"] = "s64" /\ Text["FP16"] = "f16"
            /\ Text["FP32"] = "f32" /\ Text["FP64"] = "f64" /\ Text["BF16"] = "bf16"
        BY DEF Text
      <4> QED
        BY <4>1, Zenon DEF Dtypes
    <3> QED
      BY <1>1, <3>1, <3>2, Zenon DEF IsName
  <2>4. Len(kids) = NumChildren("convert")
    BY <1>1, <2>2
  <2>5. NodeIs(en, "convert", kids)
    BY <1>1, <2>1, <2>2, <2>3, <2>4, TextedIsNode, Zenon
  <2> QED
    BY <2>2, <2>5, SameKids, Zenon
<1> QED
  BY <1>2, <1>3, <1>4, <1>5, <1>6, <1>7, <1>8 DEF Supported

-----------------------------------------------------------------------------
(* An instruction and all that it adds.                                    *)

LEMMA TileIsNone ==
  ASSUME NEW S, NEW s \in Seq(S), Len(s) = 0
  PROVE  s = <<>>
OBVIOUS

\* What a module promises of an instruction.
Promised(mod, k, i) ==
  /\ Laid(i) /\ IsName(i.sym)
  /\ i.args \in Seq(STRING) /\ Len(i.args) \in Operands(i.op) /\ i.attr \in Seq(Nat)
  /\ \A a \in DOMAIN i.args : \E j \in 1 .. k - 1 : mod.code[j].sym = i.args[a]
  /\ i.op \in {"slice", "transpose", "concatenate", "reduce"} => IsShape(i.attr)
  /\ i.op = "parameter" => IsShape(i.attr)
  /\ i.op = "constant" => IsName(i.text)
  /\ i.op = "parameter" /\ i.attr[1] + 1 \in DOMAIN mod.inputs =>
       Bytes(TypeOf(i)) = Bytes(mod.inputs[i.attr[1] + 1])

\* What the conditions of a module say of its k-th instruction.
LEMMA InstructionFacts ==
  ASSUME NEW mod, NEW k, NEW i, i = mod.code[k], InstructionOK(mod, k)
  PROVE  Promised(mod, k, i)
<1>1. /\ i.sym \in STRING \ {""} /\ TypeOf(i) \in Types
      /\ i.tile \in Seq(Nat \ {0}) /\ Len(i.tile) \in {0, Len(i.shape)}
      /\ i.args \in Seq(STRING) /\ Len(i.args) \in Operands(i.op)
      /\ i.attr \in Seq(Nat) /\ i.text \in STRING
      /\ i.op \in {"parameter", "slice", "transpose", "concatenate", "reduce"} => i.attr # <<>>
      /\ i.op = "constant" => i.text # ""
  BY Zenon DEF InstructionOK
<1>2. /\ \A a \in DOMAIN i.args : \E j \in 1 .. k - 1 : mod.code[j].sym = i.args[a]
      /\ i.op = "parameter" /\ i.attr[1] + 1 \in DOMAIN mod.inputs =>
           Bytes(TypeOf(i)) = Bytes(mod.inputs[i.attr[1] + 1])
  BY Zenon DEF InstructionOK
<1>3. IsName(i.sym)
  BY <1>1, Zenon DEF IsName, Texts
<1>4. i.op = "constant" => IsName(i.text)
  BY <1>1, Zenon DEF IsName, Texts
<1>5. IsShape(i.shape) /\ i.dtype \in Dtypes
  <2>1. TypeOf(i) \in Types
    BY <1>1, Zenon
  <2>2. i.shape \in Seq(Nat) /\ i.shape # <<>> /\ i.dtype \in Dtypes
    BY <2>1 DEF TypeOf, Types, Info
  <2> QED
    BY <2>2, Zenon DEF IsShape
<1>6. i.tile = <<>> \/ Tiles(i.tile, i.shape)
  <2>1. i.tile \in Seq(Nat \ {0})
    BY <1>1, Zenon
  <2>2. Len(i.tile) = 0 \/ Len(i.tile) = Len(i.shape)
    BY <1>1, Zenon
  <2>3. CASE Len(i.tile) = 0
    BY <2>1, <2>3, TileIsNone
  <2>4. CASE Len(i.tile) = Len(i.shape)
    BY <1>5, <2>1, <2>4, Zenon DEF Tiles
  <2> QED
    BY <2>2, <2>3, <2>4
<1>7. Laid(i)
  BY <1>5, <1>6, Zenon DEF Laid
<1>8. i.op \in {"slice", "transpose", "concatenate", "reduce", "parameter"} => IsShape(i.attr)
  BY <1>1, Zenon DEF IsShape
<1>9. /\ i.op \in {"slice", "transpose", "concatenate", "reduce"} => IsShape(i.attr)
      /\ i.op = "parameter" => IsShape(i.attr)
  BY <1>8, Zenon
<1> QED
  BY <1>1, <1>2, <1>3, <1>4, <1>7, <1>9, Zenon DEF Promised

\* An e-graph that has grown by a Var at most.
Built(g, kind, h, more, text) ==
  /\ Sound(h, more) /\ Len(g.uf) <= Len(h.uf)
  /\ \A c \in Ids(g) : more[c] = kind[c] /\ (kind[c] = "input" => h.info[c] = g.info[c])
  /\ \A n \in h.nodes : n.en.op = "var" =>
       n.en.text = text \/ \E m \in g.nodes : m.en.op = "var" /\ m.en.text = n.en.text

ExprOK(g, kind, h, more, added, i) ==
  /\ Built(g, kind, h, more, i.sym)
  /\ added.id \in Ids(h) /\ more[added.id] = "typed"
  /\ i.op # "parameter" => added.var = 0
  /\ i.op = "parameter" =>
       /\ added.var \in Ids(h) /\ more[added.var] = "input"
       /\ h.info[added.var] = Info(<<Bytes(TypeOf(i))>>, "U8")

LEMMA GrownIsBuilt ==
  ASSUME NEW g, NEW kind, NEW h, NEW more, Sound(h, more), Grows(g, kind, h, more), NEW text
  PROVE  Built(g, kind, h, more, text)
BY Zenon DEF Built, Grows

LEMMA BuiltThenGrown ==
  ASSUME NEW g, NEW kind, NEW h, NEW more, NEW f, NEW most, NEW text,
         Sound(g, kind), Built(g, kind, h, more, text), Sound(f, most), Grows(h, more, f, most)
  PROVE  Built(g, kind, f, most, text)
<1>1. g \in EGraphs /\ h \in EGraphs /\ f \in EGraphs
  BY Zenon DEF Sound, IsEGraph, Built
<1>2. /\ Ids(g) = 1 .. Len(g.uf) /\ Len(g.uf) \in Nat
      /\ Ids(h) = 1 .. Len(h.uf) /\ Len(h.uf) \in Nat /\ Len(f.uf) \in Nat
  BY <1>1, EGraphFacts
<1>3. Len(g.uf) <= Len(h.uf) /\ Len(h.uf) <= Len(f.uf)
  BY Zenon DEF Built, Grows
<1>4. Len(g.uf) <= Len(f.uf) /\ Ids(g) \subseteq Ids(h)
  BY <1>2, <1>3
<1>5. ASSUME NEW c \in Ids(g)
      PROVE  most[c] = kind[c] /\ (kind[c] = "input" => f.info[c] = g.info[c])
  BY <1>4, Zenon DEF Built, Grows
<1>6. ASSUME NEW n \in f.nodes, n.en.op = "var"
      PROVE  n.en.text = text \/ \E m \in g.nodes : m.en.op = "var" /\ m.en.text = n.en.text
  <2>1. PICK m \in h.nodes : m.en.op = "var" /\ m.en.text = n.en.text
    BY <1>6, Zenon DEF Grows
  <2>2. m.en.text = text \/ \E q \in g.nodes : q.en.op = "var" /\ q.en.text = m.en.text
    BY <2>1, Zenon DEF Built
  <2> QED
    BY <2>1, <2>2, Zenon
<1> QED
  BY <1>4, <1>5, <1>6, Zenon DEF Built

LEMMA BytesInfo ==
  ASSUME NEW i, Laid(i), NEW info, info = Info(<<Bytes(TypeOf(i))>>, "U8")
  PROVE  info \in Infos /\ info.dtype = "U8" /\ Len(info.shape) <= 1
<1>1. PICK flat : flat = <<Bytes(TypeOf(i))>>
  OBVIOUS
<1>2. IsShape(flat) /\ Len(flat) = 1
  <2>1. IsShape(flat)
    BY <1>1, BytesAreShape
  <2> QED
    BY <1>1, <2>1
<1>3. info = Info(flat, "U8") /\ "U8" \in Dtypes
  BY <1>1, Zenon DEF Dtypes
<1>4. info \in Infos
  BY <1>2, <1>3, ShapeIsInfo, Zenon
<1>5. info.dtype = "U8" /\ info.shape = flat
  BY <1>3, InfoFacts, Zenon
<1>6. 1 <= 1
  OBVIOUS
<1>7. Len(info.shape) <= 1
  BY <1>2, <1>5, <1>6, Zenon
<1> QED
  BY <1>4, <1>5, <1>7, Zenon

\* A parameter: a Var that is new, and its bytes, which get its type.
LEMMA ParameterIsSound ==
  ASSUME NEW g, NEW kind, Sound(g, kind), NEW mod, NEW i, NEW is_root, NEW symbols,
         Laid(i), IsName(i.sym), i.op = "parameter",
         \A n \in g.nodes : n.en.op = "var" => n.en.text # i.sym,
         NEW added, added = AddExpr(g, mod, i, is_root, symbols)
  PROVE  \E more : ExprOK(g, kind, added.eg, more, added, i)
<1>1. PICK info : info = Info(<<Bytes(TypeOf(i))>>, "U8")
  OBVIOUS
<1>2. PICK text : text = i.sym
  OBVIOUS
<1>3. PICK var : var = AddTyped(g, Texted("var", text, <<>>), info)
  OBVIOUS
<1>4. PICK links : links = ParameterLinks(i)
  OBVIOUS
<1>5. PICK chain : chain = AddChain(var.eg, var.id, links)
  OBVIOUS
<1>6. added.eg = chain.eg /\ added.id = chain.id /\ added.var = var.id
  BY <1>1, <1>2, <1>3, <1>4, <1>5, Zenon DEF AddExpr
<1>7. info \in Infos /\ info.dtype = "U8" /\ Len(info.shape) <= 1
  BY <1>1, BytesInfo
<1>8. PICK more : NewVar(g, kind, var.eg, more, var.id, info, text)
  <2>1. IsName(text) /\ \A n \in g.nodes : n.en.op = "var" => n.en.text # text
    BY <1>2, Zenon
  <2> QED
    BY <1>3, <1>7, <2>1, AddVarIsSound, Zenon
<1>9. Sound(var.eg, more) /\ var.id \in Ids(var.eg) /\ more[var.id] = "input" /\ var.eg.info[var.id] = info
  BY <1>8, Zenon DEF NewVar, Classes
<1>10. Built(g, kind, var.eg, more, text)
  BY <1>8, Zenon DEF NewVar, Built
<1>11. Chained(links, ParameterSteps) /\ Len(links) \in {2, 4}
  BY <1>4, ParameterLinksAreChained
<1>12. ParameterSteps[0] = "input" /\ ParameterSteps[2] = "typed" /\ ParameterSteps[4] = "typed"
  BY DEF ParameterSteps
<1>13. Makes(var.eg, more, chain, ParameterSteps[Len(links)])
  <2>1. ParameterSteps[0] = more[var.id]
    BY <1>9, <1>12, Zenon
  <2> QED
    BY <1>5, <1>9, <1>11, <2>1, AddChainIsSound, Zenon
<1>14. ParameterSteps[Len(links)] = "typed"
  BY <1>11, <1>12, Zenon
<1>15. PICK most : Made(var.eg, more, chain.eg, most, chain.id, "typed")
  BY <1>13, <1>14, Zenon DEF Makes
<1>16. Sound(chain.eg, most) /\ Grows(var.eg, more, chain.eg, most)
       /\ chain.id \in Ids(chain.eg) /\ most[chain.id] = "typed"
  BY <1>15, Zenon DEF Made
<1>17. Built(g, kind, chain.eg, most, text)
  BY <1>10, <1>16, BuiltThenGrown, Zenon
<1>18. most[var.id] = "input" /\ chain.eg.info[var.id] = info
  BY <1>9, <1>16, Zenon DEF Grows
<1>19. Ids(var.eg) \subseteq Ids(chain.eg)
  <2>1. Ids(var.eg) = 1 .. Len(var.eg.uf) /\ Len(var.eg.uf) \in Nat
        /\ Ids(chain.eg) = 1 .. Len(chain.eg.uf) /\ Len(chain.eg.uf) \in Nat
    BY <1>9, <1>16, EGraphFacts DEF Sound, IsEGraph
  <2>2. Len(var.eg.uf) <= Len(chain.eg.uf)
    BY <1>16, Zenon DEF Grows
  <2> QED
    BY <2>1, <2>2
<1>20. ExprOK(g, kind, chain.eg, most, added, i)
  BY <1>1, <1>2, <1>6, <1>9, <1>16, <1>17, <1>18, <1>19, Zenon DEF ExprOK
<1> QED
  BY <1>6, <1>20, Zenon

\* The operands' symbols have classes, with types.
Known(g, kind, i, symbols) ==
  \A a \in DOMAIN i.args : symbols[i.args[a]] \in Ids(g) /\ kind[symbols[i.args[a]]] = "typed"

TypedNode(g, kind, en) ==
  /\ en \in ENodes /\ HasParts(en) /\ en.op # "var"
  /\ \A k \in DOMAIN en.kids : en.kids[k] \in Ids(g)
  /\ Fits(kind, en) /\ KindOf(kind, en) = "typed"

LEMMA TypedNodeFits ==
  ASSUME NEW g, NEW kind, NEW kids, NEW en, NodeOn(en, kids),
         \A k \in DOMAIN kids : kids[k] \in Ids(g) /\ kind[kids[k]] = "typed"
  PROVE  TypedNode(g, kind, en)
<1>1. en \in ENodes /\ HasParts(en) /\ en.op # "var"
  BY Zenon DEF NodeOn
<1>2. \A k \in DOMAIN en.kids : en.kids[k] \in Ids(g) /\ kind[en.kids[k]] = "typed"
  BY Zenon DEF NodeOn
<1>3. Fits(kind, en)
  BY <1>2, Zenon DEF Fits
<1>4. KindOf(kind, en) = "typed"
  <2>1. en.op = "reshape" => 1 \in DOMAIN en.kids
    BY <1>1, ReshapeHasKid
  <2> QED
    BY <1>1, <1>2, <2>1, Zenon DEF KindOf
<1> QED
  BY <1>1, <1>2, <1>3, <1>4, Zenon DEF TypedNode

LEMMA NoLinks ==
  /\ Chained(<<>>, TypedSteps) /\ Len(<<>>) = 0
<1>1. Len(<<>>) = 0 /\ 0 \in Nat /\ 1 .. 0 = {}
  OBVIOUS
<1> QED
  BY <1>1, Zenon DEF Chained

LEMMA KidsAreSeq ==
  ASSUME NEW args, NEW D, Len(args) \in D, D \subseteq Nat, DOMAIN args = 1 .. Len(args),
         NEW symbols, NEW kids, kids = [a \in DOMAIN args |-> symbols[args[a]]],
         \A a \in DOMAIN args : symbols[args[a]] \in Nat
  PROVE  kids \in Seq(Nat) /\ Len(kids) = Len(args) /\ DOMAIN kids = DOMAIN args
<1>1. PICK n : n = Len(args)
  OBVIOUS
<1>2. n \in Nat /\ DOMAIN args = 1 .. n
  BY <1>1, SMTT(30)
<1>3. kids = [a \in 1 .. n |-> kids[a]] /\ \A a \in 1 .. n : kids[a] \in Nat
  BY <1>2
<1>4. kids \in Seq(Nat) /\ Len(kids) = n /\ DOMAIN kids = 1 .. n
  BY <1>2, <1>3, MapIsSeq
<1> QED
  BY <1>1, <1>2, <1>4

\* Any other instruction: an e-node on what its operands' symbols stand for.
LEMMA OperationIsSound ==
  ASSUME NEW g, NEW kind, Sound(g, kind), NEW mod, NEW i, NEW is_root, NEW symbols,
         Laid(i), Known(g, kind, i, symbols), i.op # "parameter", i.op \in Supported,
         NEW kids, kids = [a \in DOMAIN i.args |-> symbols[i.args[a]]],
         DOMAIN kids = DOMAIN i.args, Fed(i, mod.regions, kids),
         NEW added, added = AddExpr(g, mod, i, is_root, symbols)
  PROVE  \E more : ExprOK(g, kind, added.eg, more, added, i)
<1>1. PICK en : en = Operation(i, mod.regions, kids)
  OBVIOUS
<1>2. PICK links : links = IF is_root THEN RootLinks(i) ELSE <<>>
  OBVIOUS
<1>3. PICK node : node = AddTyped(g, en, TypeOf(i))
  OBVIOUS
<1>4. PICK chain : chain = AddChain(node.eg, node.id, links)
  OBVIOUS
<1>5. added.eg = chain.eg /\ added.id = chain.id /\ added.var = 0
  BY <1>1, <1>2, <1>3, <1>4, Zenon DEF AddExpr
<1>6. NodeOn(en, kids)
  BY <1>1, OperationIsNode, Zenon
<1>7. \A k \in DOMAIN kids : kids[k] \in Ids(g) /\ kind[kids[k]] = "typed"
  BY Zenon DEF Known
<1>8. /\ en \in ENodes /\ HasParts(en) /\ en.op # "var"
      /\ \A k \in DOMAIN en.kids : en.kids[k] \in Ids(g)
      /\ Fits(kind, en) /\ KindOf(kind, en) = "typed"
  <2>1. TypedNode(g, kind, en)
    BY <1>6, <1>7, TypedNodeFits, Zenon
  <2> QED
    BY <2>1, Zenon DEF TypedNode
<1>9. TypeOf(i) \in Infos
  BY ShapeIsInfo, Zenon DEF TypeOf, Laid
<1>10. PICK more : Added(g, kind, en, node.eg, more, node.id)
  BY <1>3, <1>8, <1>9, AddTypedIsSound, Zenon
<1>11. Sound(node.eg, more) /\ Grows(g, kind, node.eg, more)
       /\ node.id \in Ids(node.eg) /\ more[node.id] = "typed"
  BY <1>8, <1>10, Zenon DEF Added
<1>12. TypedSteps[0] = "typed" /\ TypedSteps[2] = "typed" /\ TypedSteps[4] = "typed"
  BY DEF TypedSteps
<1>13. Chained(links, TypedSteps) /\ Len(links) \in {0, 2, 4}
  <2>1. CASE is_root
    <3>1. links = RootLinks(i)
      BY <1>2, <2>1
    <3>2. Chained(links, TypedSteps) /\ Len(links) \in {2, 4}
      BY <3>1, RootLinksAreChained
    <3> QED
      BY <3>2
  <2>2. CASE ~is_root
    <3>1. links = <<>>
      BY <1>2, <2>2
    <3> QED
      BY <3>1, NoLinks, Zenon
  <2> QED
    BY <2>1, <2>2
<1>14. Makes(node.eg, more, chain, TypedSteps[Len(links)])
  <2>1. TypedSteps[0] = more[node.id]
    BY <1>11, <1>12, Zenon
  <2> QED
    BY <1>4, <1>11, <1>13, <2>1, AddChainIsSound, Zenon
<1>15. TypedSteps[Len(links)] = "typed"
  BY <1>12, <1>13, Zenon
<1>16. PICK most : Made(node.eg, more, chain.eg, most, chain.id, "typed")
  BY <1>14, <1>15, Zenon DEF Makes
<1>17. Sound(chain.eg, most) /\ Grows(node.eg, more, chain.eg, most)
       /\ chain.id \in Ids(chain.eg) /\ most[chain.id] = "typed"
  BY <1>16, Zenon DEF Made
<1>18. Grows(g, kind, chain.eg, most)
  BY <1>11, <1>17, GrowsTransitive, Zenon
<1>19. Built(g, kind, chain.eg, most, i.sym)
  BY <1>17, <1>18, GrownIsBuilt, Zenon
<1>20. ExprOK(g, kind, chain.eg, most, added, i)
  BY <1>5, <1>17, <1>19, Zenon DEF ExprOK
<1> QED
  BY <1>5, <1>20, Zenon

LEMMA OperandsAreNumbers ==
  ASSUME NEW op PROVE Operands(op) \subseteq Nat
BY DEF Operands

\* add_expr: either of the two, and an e-graph that has grown.
LEMMA AddExprIsSound ==
  ASSUME NEW g, NEW kind, Sound(g, kind), NEW mod, WellFormed(mod), NEW k \in DOMAIN mod.code,
         NEW i, i = mod.code[k], NEW is_root, NEW slots, Accepted(mod, i, is_root, slots),
         NEW symbols,
         \A j \in 1 .. k - 1 : symbols[mod.code[j].sym] \in Ids(g) /\ kind[symbols[mod.code[j].sym]] = "typed",
         \A n \in g.nodes : n.en.op = "var" => \E j \in 1 .. k - 1 : n.en.text = mod.code[j].sym,
         NEW added, added = AddExpr(g, mod, i, is_root, symbols)
  PROVE  \E more : ExprOK(g, kind, added.eg, more, added, i)
<1>1. i.op \in Supported
  BY Zenon DEF Accepted
<1>2. InstructionOK(mod, k) /\ \A j \in 1 .. k - 1 : mod.code[j].sym # i.sym
  BY <1>1, Zenon DEF WellFormed
<1>3. Promised(mod, k, i)
  BY <1>2, InstructionFacts, Zenon
<1>4. Laid(i) /\ IsName(i.sym)
  BY <1>3, Zenon DEF Promised
<1>5. CASE i.op = "parameter"
  <2>1. \A n \in g.nodes : n.en.op = "var" => n.en.text # i.sym
    BY <1>2, Zenon
  <2> QED
    BY <1>4, <1>5, <2>1, ParameterIsSound, Zenon
<1>6. CASE i.op # "parameter"
  <2>1. PICK kids : kids = [a \in DOMAIN i.args |-> symbols[i.args[a]]]
    OBVIOUS
  <2>2. Known(g, kind, i, symbols)
    <3>1. ASSUME NEW a \in DOMAIN i.args
          PROVE  symbols[i.args[a]] \in Ids(g) /\ kind[symbols[i.args[a]]] = "typed"
      <4>1. PICK j \in 1 .. k - 1 : mod.code[j].sym = i.args[a]
        BY <1>3, Zenon DEF Promised
      <4>2. symbols[mod.code[j].sym] \in Ids(g) /\ kind[symbols[mod.code[j].sym]] = "typed"
        OBVIOUS
      <4> QED
        BY <4>1, <4>2, Zenon
    <3> QED
      BY <3>1, Zenon DEF Known
  <2>3. i.args \in Seq(STRING) /\ Len(i.args) \in Operands(i.op)
    BY <1>3, Zenon DEF Promised
  <2>4. kids \in Seq(Nat) /\ Len(kids) = Len(i.args) /\ DOMAIN kids = DOMAIN i.args
    <3>1. Ids(g) \subseteq Nat
      BY EGraphFacts DEF Sound, IsEGraph
    <3>2. \A a \in DOMAIN i.args : symbols[i.args[a]] \in Nat
      BY <2>2, <3>1, Zenon DEF Known
    <3>3. PICK args : args = i.args
      OBVIOUS
    <3>4. DOMAIN args = 1 .. Len(args) /\ Len(args) \in Nat
      BY <2>3, <3>3
    <3>5. PICK D : D = Nat
      OBVIOUS
    <3>6. Len(args) \in D /\ D \subseteq Nat
      BY <3>4, <3>5
    <3>7. kids = [a \in DOMAIN args |-> symbols[args[a]]]
      BY <2>1, <3>3, Zenon
    <3>8. \A a \in DOMAIN args : symbols[args[a]] \in Nat
      BY <3>2, <3>3, Zenon
    <3>9. kids \in Seq(Nat) /\ Len(kids) = Len(args) /\ DOMAIN kids = DOMAIN args
      BY <3>4, <3>6, <3>7, <3>8, KidsAreSeq
    <3> QED
      BY <3>3, <3>9, Zenon
  <2>5. Fed(i, mod.regions, kids)
    <3>1. Len(kids) \in Operands(i.op)
      BY <2>3, <2>4, Zenon
    <3>2. i.op \in {"slice", "transpose", "concatenate", "reduce"} => IsShape(i.attr)
      BY <1>3, Zenon DEF Promised
    <3>3. i.op = "constant" => IsName(i.text)
      BY <1>3, Zenon DEF Promised
    <3>4. i.op = "reduce" => mod.regions[i.text] \in Seq(STRING) /\ Reduces(mod.regions[i.text])
      BY Zenon DEF Accepted, WellFormed
    <3> QED
      BY <1>4, <2>4, <3>1, <3>2, <3>3, <3>4, Zenon DEF Fed
  <2> QED
    BY <1>1, <1>4, <1>6, <2>1, <2>2, <2>4, <2>5, OperationIsSound, Zenon
<1> QED
  BY <1>5, <1>6

\* Congruent e-nodes are of classes of one kind, and no inputs: rebuild may
\* make them one.
LEMMA CongruentIsUnion ==
  ASSUME NEW g, NEW kind, Sound(g, kind), NEW pair \in Congruent(g)
  PROVE  /\ pair[1] \in Ids(g) /\ pair[2] \in Ids(g)
         /\ kind[pair[1]] = kind[pair[2]] /\ kind[pair[1]] # "input"
<1>1. PICK p \in g.nodes \X g.nodes :
        p[1].en = p[2].en /\ p[1].cls < p[2].cls /\ pair = <<p[1].cls, p[2].cls>>
  BY DEF Congruent
<1>2. PICK m : m = p[1]
  OBVIOUS
<1>3. PICK n : n = p[2]
  OBVIOUS
<1>4. m \in g.nodes /\ n \in g.nodes
  BY <1>2, <1>3
<1>5. m.en = n.en /\ m.cls < n.cls /\ pair[1] = m.cls /\ pair[2] = n.cls
  BY <1>1, <1>2, <1>3
<1>6. m.cls \in Classes(g) /\ n.cls \in Classes(g)
  BY <1>4, Zenon DEF Sound, IsEGraph
<1>7. kind[m.cls] = KindOf(kind, m.en) /\ kind[n.cls] = KindOf(kind, n.en)
  BY <1>4, Zenon DEF Sound, IsKinded
<1>8. m.cls # n.cls
  <2>1. m.cls \in Nat /\ n.cls \in Nat
    BY <1>6, ClassesAreNumbers
  <2> QED
    BY <1>5, <2>1
<1>9. m.en.op # "var"
  BY <1>4, <1>5, <1>8, Zenon DEF Sound, IsKinded
<1>10. KindOf(kind, m.en) # "input"
  BY <1>9, Zenon DEF KindOf
<1> QED
  BY <1>5, <1>6, <1>7, <1>10, Zenon DEF Classes

\* The e-graph with nothing in it.
LEMMA EmptyIsSound == Sound(EmptyEGraph, <<>>)
<1>1. PICK g : g = EmptyEGraph
  OBVIOUS
<1>2. g.nodes = {} /\ g.uf = <<>> /\ g.info = <<>> /\ g \in EGraphs
  BY <1>1 DEF EmptyEGraph, EGraphs
<1>3. Ids(g) = {} /\ IsFiniteSet(g.nodes) /\ Len(g.info) = Len(g.uf)
  BY <1>2, FS_EmptySet DEF Ids
<1>4. PICK kind : kind = <<>>
  OBVIOUS
<1>5. kind \in Seq(Kinds) /\ Len(kind) = Len(g.uf)
  BY <1>2, <1>4
<1>6. IsEGraph(g) /\ IsKinded(g, kind)
  BY <1>2, <1>3, <1>5, Zenon DEF IsEGraph, IsKinded
<1> QED
  BY <1>1, <1>4, <1>6, Zenon DEF Sound

-----------------------------------------------------------------------------
(* The values of the classes, one for each.                                *)

\* A tuple of n values.
IsTuple(v, n) == Len(v) = n /\ \E S : v \in Seq(S)

LEMMA AppendIsTuple ==
  ASSUME NEW n \in Nat, NEW v, IsTuple(v, n), NEW x
  PROVE  IsTuple(Append(v, x), n + 1)
<1>1. PICK S : v \in Seq(S)
  BY Zenon DEF IsTuple
<1>2. PICK T : T = S \cup {x}
  OBVIOUS
<1>3. v \in Seq(T)
  BY <1>1, <1>2
<1>4. x \in T /\ Len(v) = n
  BY <1>2 DEF IsTuple
<1>5. Append(v, x) \in Seq(T) /\ Len(Append(v, x)) = n + 1
  BY <1>3, <1>4
<1> QED
  BY <1>5, Zenon DEF IsTuple

LEMMA SubSeqIsTuple ==
  ASSUME NEW n \in Nat, NEW v, IsTuple(v, n), NEW k \in 0 .. n
  PROVE  IsTuple(SubSeq(v, 1, k), k)
<1>1. PICK S : v \in Seq(S)
  BY Zenon DEF IsTuple
<1>2. Len(v) = n
  BY Zenon DEF IsTuple
<1>3. SubSeq(v, 1, k) \in Seq(S) /\ Len(SubSeq(v, 1, k)) = k
  BY <1>1, <1>2
<1> QED
  BY <1>3, Zenon DEF IsTuple

\* Each class that is new gets a value.
LEMMA ValuedIsTuple ==
  ASSUME NEW n \in Nat, NEW old, IsTuple(old, n), NEW g, NEW top \in Nat, top = Len(g.uf)
  PROVE  IsTuple(Valued(old, g), top)
<1> DEFINE next(prev, id) ==
             LET en == CHOOSE e \in NodesOf(g, id) : TRUE
             IN  Append(prev,
                   IF Eldest(g, id) < id THEN prev[Eldest(g, id)]
                   ELSE Computes(en, [k \in DOMAIN en.kids |-> prev[Eldest(g, en.kids[k])]],
                                 InfoOf(g, id)))
           Body(f, m) == [id \in 0 .. m |->
                            IF id <= Len(old) THEN SubSeq(old, 1, id) ELSE next(f[id - 1], id)]
           upto == CHOOSE f : f = Body(f, top)
<1>1. Valued(old, g) = upto[top]
  BY Zenon DEF Valued
<1>2. Len(old) = n
  BY Zenon DEF IsTuple
<1>3. ASSUME NEW m \in Nat, NEW v, IsTuple(v, m), NEW id
      PROVE  IsTuple(next(v, id), m + 1)
  BY <1>3, AppendIsTuple, Zenon
<1> HIDE DEF next
<1> DEFINE Bad == {m \in 0 .. top : ~ \E f : f = Body(f, m)}
<1>4. ASSUME Bad # {} PROVE FALSE
  <2>1. Bad \in SUBSET Nat
    OBVIOUS
  <2> HIDE DEF Bad
  <2>2. PICK m \in Bad : \A k \in Bad : m <= k
    BY <1>4, <2>1, LeastElement
  <2>3. m \in 0 .. top /\ ~ \E f : f = Body(f, m)
    BY Zenon DEF Bad
  <2>4. CASE m = 0
    <3> DEFINE f == [id \in 0 .. 0 |-> SubSeq(old, 1, id)]
    <3>1. \A id \in 0 .. 0 : id <= Len(old)
      BY <1>2
    <3>2. f = Body(f, 0)
      BY <3>1
    <3> QED
      BY <2>3, <2>4, <3>2
  <2>5. CASE m # 0
    <3>1. m - 1 \in 0 .. top /\ ~(m <= m - 1) /\ m \in Nat
      BY <2>3, <2>5
    <3>2. PICK f : f = Body(f, m - 1)
      BY <2>2, <3>1, Zenon DEF Bad
    <3> DEFINE h == [id \in 0 .. m |->
                       IF id <= Len(old) THEN SubSeq(old, 1, id) ELSE next(f[id - 1], id)]
    <3>3. \A id \in 0 .. m - 1 : h[id] = f[id]
      <4>1. ASSUME NEW id \in 0 .. m - 1 PROVE h[id] = f[id]
        <5>1. id \in 0 .. m
          BY <3>1
        <5>2. h[id] = IF id <= Len(old) THEN SubSeq(old, 1, id) ELSE next(f[id - 1], id)
          BY <5>1, Zenon
        <5>3. f[id] = IF id <= Len(old) THEN SubSeq(old, 1, id) ELSE next(f[id - 1], id)
          <6> HIDE DEF h
          <6> QED
            BY <3>2, Zenon
        <5> QED
          BY <5>2, <5>3, Zenon
      <4> QED
        BY <4>1
    <3>4. h = Body(h, m)
      <4>1. ASSUME NEW id \in 0 .. m
            PROVE  h[id] = IF id <= Len(old) THEN SubSeq(old, 1, id) ELSE next(h[id - 1], id)
        <5>1. h[id] = IF id <= Len(old) THEN SubSeq(old, 1, id) ELSE next(f[id - 1], id)
          BY <4>1, Zenon
        <5>2. CASE id <= Len(old)
          BY <5>1, <5>2, Zenon
        <5>3. CASE ~(id <= Len(old))
          <6>1. id - 1 \in 0 .. m - 1
            BY <1>2, <3>1, <5>3
          <6>2. h[id - 1] = f[id - 1]
            BY <3>3, <6>1, Zenon
          <6> QED
            BY <5>1, <5>3, <6>2, Zenon
        <5> QED
          BY <5>2, <5>3
      <4>2. h = [id \in 0 .. m |-> h[id]]
        OBVIOUS
      <4> HIDE DEF h
      <4> QED
        BY <4>1, <4>2, Zenon
    <3> HIDE DEF h
    <3> QED
      BY <2>3, <3>4
  <2> QED
    BY <2>4, <2>5
<1>5. \E f : f = Body(f, top)
  <2>1. top \in 0 .. top
    OBVIOUS
  <2> HIDE DEF Bad
  <2>2. top \notin Bad
    BY <1>4
  <2> QED
    BY <2>1, <2>2, Zenon DEF Bad
<1>6. upto = Body(upto, top)
  <2> HIDE DEF Body
  <2> QED
    BY <1>5
<1> HIDE DEF upto, Bad
<1>7. ASSUME NEW id \in 0 .. top
      PROVE  upto[id] = IF id <= Len(old) THEN SubSeq(old, 1, id) ELSE next(upto[id - 1], id)
  BY <1>6, Zenon
<1> DEFINE Wrong == {id \in 0 .. top : ~IsTuple(upto[id], id)}
<1>8. ASSUME Wrong # {} PROVE FALSE
  <2>1. Wrong \in SUBSET Nat
    OBVIOUS
  <2> HIDE DEF Wrong
  <2>2. PICK id \in Wrong : \A k \in Wrong : id <= k
    BY <1>8, <2>1, LeastElement
  <2>3. id \in 0 .. top /\ ~IsTuple(upto[id], id)
    BY Zenon DEF Wrong
  <2>4. CASE id <= Len(old)
    <3>1. id \in 0 .. n
      BY <1>2, <2>3, <2>4
    <3>2. upto[id] = SubSeq(old, 1, id)
      BY <1>7, <2>3, <2>4, Zenon
    <3> QED
      BY <2>3, <3>1, <3>2, SubSeqIsTuple, Zenon
  <2>5. CASE ~(id <= Len(old))
    <3>1. id - 1 \in 0 .. top /\ ~(id <= id - 1) /\ id - 1 \in Nat /\ (id - 1) + 1 = id
      BY <1>2, <2>3, <2>5
    <3>2. IsTuple(upto[id - 1], id - 1)
      BY <2>2, <3>1, Zenon DEF Wrong
    <3>3. upto[id] = next(upto[id - 1], id)
      BY <1>7, <2>3, <2>5, Zenon
    <3>4. IsTuple(next(upto[id - 1], id), (id - 1) + 1)
      BY <1>3, <3>1, <3>2, Zenon
    <3> QED
      BY <2>3, <3>1, <3>3, <3>4, Zenon
  <2> QED
    BY <2>4, <2>5
<1>9. top \in 0 .. top
  OBVIOUS
<1> QED
  BY <1>1, <1>8, <1>9, Zenon

-----------------------------------------------------------------------------
(* HBM: the addresses of the inputs and of the output.                     *)

LEMMA ProductOfOne ==
  ASSUME NEW b \in Nat
  PROVE  Product(<<b>>) = b
<1> DEFINE s == <<b>>
           Body(f) == [k \in 0 .. Len(s) |-> IF k = 0 THEN 1 ELSE f[k - 1] * s[k]]
           upto == CHOOSE f : f = Body(f)
           h == [k \in 0 .. 1 |-> IF k = 0 THEN 1 ELSE b]
<1>1. Product(s) = upto[Len(s)]
  BY Zenon DEF Product
<1>2. Len(s) = 1 /\ s[1] = b
  OBVIOUS
<1> HIDE DEF s
<1>3. h = Body(h)
  <2>1. \A k \in 0 .. 1 : h[k] = IF k = 0 THEN 1 ELSE h[k - 1] * s[k]
    <3>1. h[0] = 1 /\ h[1] = b /\ 1 * b = b
      OBVIOUS
    <3> HIDE DEF h
    <3>2. ASSUME NEW k \in 0 .. 1 PROVE h[k] = IF k = 0 THEN 1 ELSE h[k - 1] * s[k]
      <4>1. (k = 0) \/ (k = 1 /\ k # 0 /\ k - 1 = 0)
        OBVIOUS
      <4> QED
        BY <1>2, <3>1, <4>1, Zenon
    <3> QED
      BY <3>2
  <2>2. h = [k \in 0 .. 1 |-> h[k]]
    OBVIOUS
  <2> HIDE DEF h
  <2> QED
    BY <1>2, <2>1, <2>2, Zenon
<1>4. upto = Body(upto)
  <2> HIDE DEF Body, h
  <2> QED
    BY <1>3
<1> HIDE DEF upto, h
<1>5. upto[0] = 1 /\ upto[1] = upto[0] * s[1]
  <2>1. 0 \in 0 .. 1 /\ 1 \in 0 .. 1 /\ 1 # 0 /\ 1 - 1 = 0
    OBVIOUS
  <2> QED
    BY <1>2, <1>4, <2>1, Zenon
<1>6. upto[1] = b
  BY <1>2, <1>5
<1> QED
  BY <1>1, <1>2, <1>6, Zenon DEF s

LEMMA BytesOfFlat ==
  ASSUME NEW b \in Nat, NEW info, info = Info(<<b>>, "U8")
  PROVE  Bytes(info) = b
<1>1. PICK s : s = <<b>>
  OBVIOUS
<1>2. info.shape = s /\ info.dtype = "U8"
  BY <1>1, InfoFacts, Zenon
<1>3. Product(s) = b
  BY <1>1, ProductOfOne
<1>4. SizeInBytes("U8") = 1
  BY DEF SizeInBytes
<1>5. Bytes(info) = b * 1
  BY <1>2, <1>3, <1>4, Zenon DEF Bytes
<1> QED
  BY <1>5

\* The addresses of the inputs and the output: each behind the one before.
LaidOut(addr, sizes, n) ==
  /\ n \in Nat
  /\ \A k \in 1 .. n + 1 : addr[k] \in Nat
  /\ \A k \in 1 .. n : addr[k + 1] = addr[k] + Bytes(sizes[k]) /\ Bytes(sizes[k]) \in Nat

Slots(module0) == [k \in 1 .. Len(module0.inputs) + 1 |-> Offsets(module0)[k].addr]

\* The fold over the inputs is a sequence of addresses.
LEMMA OffsetsAreLaidOut ==
  ASSUME NEW mod, mod.inputs \in Seq(Types), NEW n, n = Len(mod.inputs)
  PROVE  /\ n \in Nat /\ DOMAIN Offsets(mod) = 1 .. n + 1
         /\ Offsets(mod) = [k \in 1 .. n + 1 |-> Offsets(mod)[k]]
         /\ \A k \in 1 .. n + 1 : Offsets(mod)[k] = [id |-> 0, addr |-> Slots(mod)[k]]
         /\ LaidOut(Slots(mod), mod.inputs, n)
<1> DEFINE size(k) == HeaderBytes(mod.inputs[k])
           Body(f) == [k \in 0 .. n |-> IF k = 0 THEN 0 ELSE f[k - 1] + size(k)]
           upto == CHOOSE f : f = Body(f)
           X == (0 .. n) \X Nat
           F == [w \in X |-> w[2] + size(w[1] + 1)]
<1>1. Offsets(mod) = [k \in 1 .. n + 1 |-> [id |-> 0, addr |-> upto[k - 1]]]
  BY Zenon DEF Offsets
<1>2. n \in Nat /\ <<0, 0>> \in X
  OBVIOUS
<1>3. ASSUME NEW k \in 1 .. n PROVE size(k) \in Nat /\ size(k) = Bytes(mod.inputs[k])
  <2>1. mod.inputs[k] \in Types
    BY <1>2, <1>3
  <2>2. mod.inputs[k].shape \in Seq(Nat)
    BY <2>1 DEF Types
  <2> QED
    BY <2>2, BytesIsNat, Zenon DEF HeaderBytes
<1> HIDE DEF size
<1>4. ASSUME NEW k \in 1 .. n, NEW x, <<k - 1, x>> \in X
      PROVE  F[<<k - 1, x>>] = x + size(k) /\ <<k, F[<<k - 1, x>>]>> \in X
  <2>1. x \in Nat /\ size(k) \in Nat /\ (k - 1) + 1 = k /\ k \in 0 .. n
    BY <1>2, <1>3, <1>4
  <2>2. F[<<k - 1, x>>] = x + size(k)
    BY <1>4, <2>1
  <2> QED
    BY <2>1, <2>2, TimesIsNat
<1> HIDE DEF F, X
<1>5. StaysIn(n, F, X)
  BY <1>4 DEF StaysIn
<1>6. PICK f : Follows(f, n, 0, F, X) /\ AllIn(f, n, X)
  BY <1>2, <1>5, FollowersExist
<1>7. \A k \in 1 .. n : k \in 0 .. n /\ k - 1 \in 0 .. n /\ k # 0
  BY <1>2
<1>8. f = Body(f)
  <2>1. ASSUME NEW k \in 0 .. n
        PROVE  f[k] = IF k = 0 THEN 0 ELSE f[k - 1] + size(k)
    <3>1. k = 0 \/ k \in 1 .. n
      BY <1>2
    <3>2. ASSUME k \in 1 .. n PROVE f[k] = f[k - 1] + size(k)
      BY <1>4, <1>6, <1>7, <3>2 DEF Follows, AllIn
    <3> QED
      BY <1>6, <1>7, <3>1, <3>2, Zenon DEF Follows
  <2> QED
    BY <1>6, <2>1 DEF Follows
<1>9. upto = Body(upto)
  <2> HIDE DEF Body
  <2> QED
    BY <1>8
<1> HIDE DEF upto
<1>10. upto = [k \in 0 .. n |-> upto[k]] /\ upto[0] = 0
  BY <1>2, <1>9
<1>11. \A k \in 1 .. n : upto[k] = upto[k - 1] + size(k)
  BY <1>7, <1>9, Zenon
<1>12. Follows(upto, n, 0, F, X)
  BY <1>4, <1>10, <1>11 DEF Follows
<1>13. AllIn(upto, n, X)
  BY <1>2, <1>5, <1>12, FollowersStay
<1>14. \A k \in 0 .. n : upto[k] \in Nat
  BY <1>13 DEF AllIn, X
<1>15. \A k \in 1 .. n + 1 : k - 1 \in 0 .. n
  BY <1>2
<1>16. ASSUME NEW k \in 1 .. n + 1
       PROVE  Offsets(mod)[k] = [id |-> 0, addr |-> upto[k - 1]]
              /\ Slots(mod)[k] = upto[k - 1]
  <2>1. Offsets(mod)[k] = [id |-> 0, addr |-> upto[k - 1]]
    BY <1>1, Zenon
  <2>2. Offsets(mod)[k].addr = upto[k - 1]
    BY <2>1
  <2>3. Slots(mod)[k] = Offsets(mod)[k].addr
    BY Zenon DEF Slots
  <2> QED
    BY <2>1, <2>2, <2>3, Zenon
<1>17. DOMAIN Offsets(mod) = 1 .. n + 1 /\ Offsets(mod) = [k \in 1 .. n + 1 |-> Offsets(mod)[k]]
  BY <1>1, Zenon
<1>18. LaidOut(Slots(mod), mod.inputs, n)
  <2>1. \A k \in 1 .. n + 1 : Slots(mod)[k] \in Nat
    BY <1>14, <1>15, <1>16, Zenon
  <2>2. ASSUME NEW k \in 1 .. n
        PROVE  Slots(mod)[k + 1] = Slots(mod)[k] + Bytes(mod.inputs[k]) /\ Bytes(mod.inputs[k]) \in Nat
    <3>1. k \in 1 .. n + 1 /\ k + 1 \in 1 .. n + 1 /\ (k + 1) - 1 = k
      BY <1>2
    <3>2. upto[k] = upto[k - 1] + size(k)
      BY <1>11
    <3>3. size(k) \in Nat /\ size(k) = Bytes(mod.inputs[k])
      BY <1>3
    <3>4. Slots(mod)[k + 1] = upto[k] /\ Slots(mod)[k] = upto[k - 1]
      BY <1>16, <3>1, Zenon
    <3> QED
      BY <3>2, <3>3, <3>4, Zenon
  <2> QED
    BY <1>2, <2>1, <2>2, Zenon DEF LaidOut
<1> QED
  BY <1>2, <1>16, <1>17, <1>18, Zenon

\* Each slot is behind the end of those before it.
LEMMA LaidOutIsOrdered ==
  ASSUME NEW addr, NEW sizes, NEW n, LaidOut(addr, sizes, n),
         NEW j \in 1 .. n, NEW k \in 1 .. n + 1, j < k
  PROVE  addr[j] + Bytes(sizes[j]) <= addr[k]
<1> DEFINE Bad == {m \in j + 1 .. n + 1 : ~(addr[j + 1] <= addr[m])}
<1>1. n \in Nat /\ j \in Nat
  BY DEF LaidOut
<1>2. ASSUME Bad # {} PROVE FALSE
  <2>1. Bad \in SUBSET Nat
    BY <1>1
  <2> HIDE DEF Bad
  <2>2. PICK m \in Bad : \A i \in Bad : m <= i
    BY <1>2, <2>1, LeastElement
  <2>3. m \in j + 1 .. n + 1 /\ ~(addr[j + 1] <= addr[m])
    BY Zenon DEF Bad
  <2>4. j + 1 \in 1 .. n + 1 /\ m \in 1 .. n + 1
    BY <1>1, <2>3
  <2>5. addr[j + 1] \in Nat /\ addr[m] \in Nat
    BY <2>4, Zenon DEF LaidOut
  <2>6. m # j + 1
    BY <2>3, <2>5
  <2>7. m - 1 \in j + 1 .. n + 1 /\ m - 1 \in 1 .. n /\ ~(m <= m - 1) /\ (m - 1) + 1 = m
    BY <1>1, <2>3, <2>6
  <2>8. addr[j + 1] <= addr[m - 1]
    BY <2>2, <2>7, Zenon DEF Bad
  <2>9. addr[m] = addr[m - 1] + Bytes(sizes[m - 1]) /\ Bytes(sizes[m - 1]) \in Nat
    BY <2>7, Zenon DEF LaidOut
  <2>10. addr[m - 1] \in Nat
    <3>1. m - 1 \in 1 .. n + 1
      BY <1>1, <2>7
    <3> QED
      BY <3>1, Zenon DEF LaidOut
  <2> QED
    BY <2>3, <2>5, <2>8, <2>9, <2>10
<1>3. k \in j + 1 .. n + 1
  BY <1>1
<1>4. addr[j + 1] <= addr[k]
  <2> HIDE DEF Bad
  <2>1. k \notin Bad
    BY <1>2
  <2> QED
    BY <1>3, <2>1, Zenon DEF Bad
<1>5. addr[j + 1] = addr[j] + Bytes(sizes[j])
  BY Zenon DEF LaidOut
<1> QED
  BY <1>4, <1>5, Zenon

-----------------------------------------------------------------------------
(* The inductive invariant and its steps.                                  *)

IsInserted(t, map, key, id) ==
  /\ DOMAIN t = DOMAIN map \cup {key} /\ t[key] = id
  /\ \A x \in DOMAIN map : x # key => t[x] = map[x]

LEMMA InsertedFacts ==
  ASSUME NEW map, NEW key, NEW id, NEW t, t = Inserted(map, key, id)
  PROVE  IsInserted(t, map, key, id)
BY DEF Inserted, IsInserted

LEMMA FunctionLen ==
  ASSUME NEW m \in Nat, NEW f, f = [k \in 1 .. m |-> f[k]]
  PROVE  Len(f) = m
<1>1. PICK S : S = {f[k] : k \in 1 .. m}
  OBVIOUS
<1>2. \A k \in 1 .. m : f[k] \in S
  BY <1>1
<1> QED
  BY <1>2, MapIsSeq

Control ==
  /\ phase \in Phases /\ module \in Modules /\ order \in Orders
  /\ pc \in 1 .. Len(module.code) + 1 /\ (phase = "build" => pc <= Len(module.code))
  /\ iteration \in 0 .. IterationLimit /\ merged \in BOOLEAN

\* The initializer's symbols, Vars and root.
SymbolsOK(kind) ==
  /\ \A sym \in DOMAIN table : table[sym] \in Ids(eg) /\ kind[table[sym]] = "typed"
  /\ \A j \in 1 .. pc - 1 : module.code[j].sym \in DOMAIN table
  /\ \A n \in eg.nodes : n.en.op = "var" => \E j \in 1 .. pc - 1 : n.en.text = module.code[j].sym
  /\ \A id \in inputs : id \in Ids(eg) /\ kind[id] = "input"
  /\ root \in Ids(eg) \cup {0}

\* An input's slot of HBM has a Var that is as large as the header says.
SlotOK(kind, k) ==
  /\ offsets[k] = [id |-> offsets[k].id, addr |-> Slots(module)[k]]
  /\ offsets[k].id \in Ids(eg) \cup {0}
  /\ k <= Len(module.inputs) /\ offsets[k].id # 0 =>
       /\ kind[offsets[k].id] = "input"
       /\ eg.info[offsets[k].id] = Info(<<Bytes(module.inputs[k])>>, "U8")

SlotsOK(kind) ==
  /\ DOMAIN offsets = 1 .. Len(module.inputs) + 1 /\ Len(offsets) = Len(module.inputs) + 1
  /\ \A k \in DOMAIN offsets : SlotOK(kind, k)

IsInv(kind) ==
  /\ Control
  /\ Sound(eg, kind) /\ IsTuple(value, Len(eg.uf))
  /\ SymbolsOK(kind)
  /\ SlotsOK(kind)
  /\ \A p \in pending : PendingOK(eg, kind, p)
  /\ phase = "build" => pending = {}

IInv == \E kind : IsInv(kind)

LEMMA ModuleFacts ==
  ASSUME module \in Modules
  PROVE  /\ WellFormed(module) /\ module.inputs \in Seq(Types)
         /\ Len(module.code) \in Nat \ {0} /\ DOMAIN module.code = 1 .. Len(module.code)
<1>1. WellFormed(module)
  BY FrontEndAssumption, Zenon
<1> QED
  BY <1>1, Zenon DEF WellFormed

\* The initial states have the invariant.
LEMMA InitIsInv == Init => IInv
<1> SUFFICES ASSUME Init PROVE IInv
  OBVIOUS
<1>1. /\ phase = "build" /\ module \in Modules /\ order \in Orders /\ pc = 1 /\ eg = EmptyEGraph
      /\ table = <<>> /\ inputs = {} /\ root = 0 /\ offsets = Offsets(module)
      /\ iteration = 0 /\ pending = {} /\ merged = FALSE /\ value = <<>>
  BY Zenon DEF Init
<1>2. /\ WellFormed(module) /\ module.inputs \in Seq(Types)
      /\ Len(module.code) \in Nat \ {0} /\ DOMAIN module.code = 1 .. Len(module.code)
  BY <1>1, ModuleFacts, Zenon
<1>3. PICK kind : kind = <<>>
  OBVIOUS
<1>4. Sound(eg, kind)
  BY <1>1, <1>3, EmptyIsSound, Zenon
<1>5. eg.nodes = {} /\ eg.uf = <<>> /\ Len(eg.uf) = 0
  BY <1>1 DEF EmptyEGraph
<1>6. IsTuple(value, Len(eg.uf))
  <2>1. <<>> \in Seq(Nat) /\ Len(<<>>) = 0
    OBVIOUS
  <2> QED
    BY <1>1, <1>5, <2>1, Zenon DEF IsTuple
<1>7. Control
  <2>1. pc \in 1 .. Len(module.code) + 1 /\ pc <= Len(module.code) /\ iteration \in 0 .. IterationLimit
    BY <1>1, <1>2, FrontEndAssumption
  <2>2. "build" \in Phases
    BY Zenon DEF Phases
  <2> QED
    BY <1>1, <2>1, <2>2, Zenon DEF Control
<1>8. SymbolsOK(kind)
  <2>1. DOMAIN <<>> = {} /\ 1 .. pc - 1 = {}
    BY <1>1
  <2> QED
    BY <1>1, <1>5, <2>1, Zenon DEF SymbolsOK
<1>9. SlotsOK(kind)
  <2>1. PICK n : n = Len(module.inputs)
    OBVIOUS
  <2>2. /\ n \in Nat /\ DOMAIN offsets = 1 .. n + 1
        /\ \A k \in 1 .. n + 1 : offsets[k] = [id |-> 0, addr |-> Slots(module)[k]]
    BY <1>1, <1>2, <2>1, OffsetsAreLaidOut
  <2>3. Len(offsets) = n + 1
    <3>1. offsets = [k \in 1 .. n + 1 |-> offsets[k]]
      BY <1>1, <1>2, <2>1, OffsetsAreLaidOut
    <3>2. n + 1 \in Nat
      BY <2>2
    <3> QED
      BY <3>1, <3>2, FunctionLen
  <2>4. ASSUME NEW k \in DOMAIN offsets PROVE SlotOK(kind, k)
    <3>1. offsets[k] = [id |-> 0, addr |-> Slots(module)[k]]
      BY <2>2
    <3>2. offsets[k].id = 0
      BY <3>1
    <3> QED
      BY <3>1, <3>2, Zenon DEF SlotOK
  <2> QED
    BY <2>1, <2>2, <2>3, <2>4, Zenon DEF SlotsOK
<1>10. IsInv(kind)
  BY <1>1, <1>4, <1>6, <1>7, <1>8, <1>9, Zenon DEF IsInv
<1> QED
  BY <1>10, Zenon DEF IInv

\* The steps that leave what has been built.
LEMMA GrowingKeeps ==
  ASSUME NEW kind, IsInv(kind), NEW more, Sound(eg', more), Grows(eg, kind, eg', more),
         IsTuple(value', Len(eg'.uf)), \A p \in pending' : PendingOK(eg', more, p),
         module' = module, order' = order, pc' = pc, table' = table, inputs' = inputs,
         offsets' = offsets, root' = root,
         phase' \in Phases, phase' = "build" => phase = "build" /\ pending' = pending,
         iteration' \in 0 .. IterationLimit, merged' \in BOOLEAN
  PROVE  IsInv(more)'
<1>1. Control /\ Sound(eg, kind) /\ SymbolsOK(kind) /\ SlotsOK(kind)
  BY Zenon DEF IsInv
<1>2. Control'
  BY <1>1, Zenon DEF Control
<1>3. Ids(eg) \subseteq Ids(eg')
  <2>1. /\ Ids(eg) = 1 .. Len(eg.uf) /\ Len(eg.uf) \in Nat
        /\ Ids(eg') = 1 .. Len(eg'.uf) /\ Len(eg'.uf) \in Nat
    BY <1>1, EGraphFacts DEF Sound, IsEGraph
  <2>2. Len(eg.uf) <= Len(eg'.uf)
    BY Zenon DEF Grows
  <2> QED
    BY <2>1, <2>2
<1>4. \A id \in Ids(eg) : /\ id \in Ids(eg') /\ more[id] = kind[id]
                          /\ kind[id] = "input" => eg'.info[id] = eg.info[id]
  BY <1>3, Zenon DEF Grows
<1>5. SymbolsOK(more)'
  <2>1. \A sym \in DOMAIN table : table[sym] \in Ids(eg') /\ more[table[sym]] = "typed"
    BY <1>1, <1>4, Zenon DEF SymbolsOK
  <2>2. ASSUME NEW n \in eg'.nodes, n.en.op = "var"
        PROVE  \E j \in 1 .. pc - 1 : n.en.text = module.code[j].sym
    <3>1. PICK m \in eg.nodes : m.en.op = "var" /\ m.en.text = n.en.text
      BY <2>2, Zenon DEF Grows
    <3>2. \E j \in 1 .. pc - 1 : m.en.text = module.code[j].sym
      BY <1>1, <3>1, Zenon DEF SymbolsOK
    <3> QED
      BY <3>1, <3>2, Zenon
  <2>3. \A id \in inputs : id \in Ids(eg') /\ more[id] = "input"
    BY <1>1, <1>4, Zenon DEF SymbolsOK
  <2>4. root \in Ids(eg') \cup {0} /\ \A j \in 1 .. pc - 1 : module.code[j].sym \in DOMAIN table
    BY <1>1, <1>4, Zenon DEF SymbolsOK
  <2> QED
    BY <2>1, <2>2, <2>3, <2>4, Zenon DEF SymbolsOK
<1>6. SlotsOK(more)'
  <2>1. ASSUME NEW k \in DOMAIN offsets PROVE SlotOK(more, k)'
    <3>1. SlotOK(kind, k)
      BY <1>1, <2>1, Zenon DEF SlotsOK
    <3>2. offsets[k] = [id |-> offsets[k].id, addr |-> Slots(module)[k]]
      BY <3>1, Zenon DEF SlotOK
    <3>3. offsets[k].id \in Ids(eg') \cup {0}
      BY <1>4, <3>1, Zenon DEF SlotOK
    <3>4. ASSUME k <= Len(module.inputs), offsets[k].id # 0
          PROVE  /\ more[offsets[k].id] = "input"
                 /\ eg'.info[offsets[k].id] = Info(<<Bytes(module.inputs[k])>>, "U8")
      <4>1. offsets[k].id \in Ids(eg)
        BY <3>1, <3>4, Zenon DEF SlotOK
      <4>2. /\ kind[offsets[k].id] = "input"
            /\ eg.info[offsets[k].id] = Info(<<Bytes(module.inputs[k])>>, "U8")
        BY <3>1, <3>4, Zenon DEF SlotOK
      <4> QED
        BY <1>4, <4>1, <4>2, Zenon
    <3>5. Slots(module)' = Slots(module)
      OBVIOUS
    <3> QED
      BY <3>2, <3>3, <3>4, <3>5, Zenon DEF SlotOK
  <2> QED
    BY <1>1, <2>1, Zenon DEF SlotsOK
<1> QED
  BY <1>2, <1>5, <1>6, Zenon DEF IsInv

LEMMA IdsGrow ==
  ASSUME NEW g, NEW kind, NEW h, NEW more, NEW text, Sound(g, kind), Built(g, kind, h, more, text)
  PROVE  \A c \in Ids(g) : /\ c \in Ids(h) /\ more[c] = kind[c]
                           /\ kind[c] = "input" => h.info[c] = g.info[c]
<1>1. /\ Ids(g) = 1 .. Len(g.uf) /\ Len(g.uf) \in Nat
      /\ Ids(h) = 1 .. Len(h.uf) /\ Len(h.uf) \in Nat
  BY EGraphFacts DEF Sound, IsEGraph, Built
<1>2. Len(g.uf) <= Len(h.uf)
  BY Zenon DEF Built
<1>3. Ids(g) \subseteq Ids(h)
  BY <1>1, <1>2
<1> QED
  BY <1>3, Zenon DEF Built

NotedAs(new, old, k, n, i, is_root, added) ==
  /\ new = [old EXCEPT !.id = new.id]
  /\ \/ k = n /\ new.id = added.id
     \/ added.var # 0 /\ k = i.attr[1] + 1 /\ new.id = added.var
     \/ new.id = old.id

IsSlot(slot) == slot = [id |-> slot.id, addr |-> slot.addr]

AreNoted(new, slots, i, is_root, added) ==
  /\ DOMAIN new = DOMAIN slots /\ new = [k \in DOMAIN slots |-> new[k]]
  /\ \A k \in DOMAIN slots : NotedAs(new[k], slots[k], k, Len(slots), i, is_root, added)

\* The slots after an instruction: only the id of its own may be another.
LEMMA WithIdsFacts ==
  ASSUME NEW slots, NEW i, NEW is_root, NEW added, NEW new, new = WithIds(slots, i, is_root, added),
         \A k \in DOMAIN slots : IsSlot(slots[k])
  PROVE  AreNoted(new, slots, i, is_root, added)
<1>1. DOMAIN new = DOMAIN slots /\ new = [k \in DOMAIN slots |-> new[k]]
  BY Zenon DEF WithIds
<1>2. ASSUME NEW k \in DOMAIN slots
      PROVE  NotedAs(new[k], slots[k], k, Len(slots), i, is_root, added)
  <2>1. PICK id : id = IF is_root /\ k = Len(slots) THEN added.id
                       ELSE IF added.var # 0 /\ k = i.attr[1] + 1 THEN added.var ELSE slots[k].id
    OBVIOUS
  <2>2. new[k] = [slots[k] EXCEPT !.id = id]
    BY <2>1, Zenon DEF WithIds
  <2>3. new[k].id = id
    BY <2>2 DEF IsSlot
  <2> QED
    BY <2>1, <2>2, <2>3, Zenon DEF NotedAs
<1> QED
  BY <1>1, <1>2, Zenon DEF AreNoted

\* One instruction, with its symbol, its Var and its slot.
LEMMA AddInstructionKeepsInv ==
  ASSUME NEW kind, IsInv(kind), AddInstruction
  PROVE  IInv'
<1> DEFINE i == Instruction
<1>1. PICK added : added = AddExpr(eg, module, i, IsRoot, table)
  OBVIOUS
<1>2. phase = "build" /\ Accepted(module, i, IsRoot, offsets)
  BY Zenon DEF AddInstruction
<1>3. /\ eg' = added.eg /\ table' = Inserted(table, i.sym, added.id)
      /\ inputs' = inputs \cup ({added.var} \ {0})
      /\ root' = IF IsRoot THEN added.id ELSE root
  BY <1>1, Zenon DEF AddInstruction
<1>4. offsets' = WithIds(offsets, i, IsRoot, added)
  BY <1>1, Zenon DEF AddInstruction
<1>5. /\ value' = Valued(value, eg') /\ pc' = pc + 1
      /\ phase' = IF IsRoot THEN "hook" ELSE "build"
      /\ module' = module /\ order' = order /\ iteration' = iteration
      /\ pending' = pending /\ merged' = merged
  BY Zenon DEF AddInstruction, run
<1>6. Control /\ Sound(eg, kind) /\ IsTuple(value, Len(eg.uf)) /\ SymbolsOK(kind) /\ SlotsOK(kind)
      /\ pending = {}
  BY <1>2, Zenon DEF IsInv
<1>7. /\ WellFormed(module) /\ module.inputs \in Seq(Types)
      /\ Len(module.code) \in Nat \ {0} /\ DOMAIN module.code = 1 .. Len(module.code)
  BY <1>6, ModuleFacts, Zenon DEF Control
<1>8. pc \in DOMAIN module.code /\ pc \in Nat /\ pc <= Len(module.code) /\ i = module.code[pc]
  <2>1. pc \in 1 .. Len(module.code) + 1 /\ pc <= Len(module.code)
    BY <1>2, <1>6, Zenon DEF Control
  <2> QED
    BY <1>7, <2>1 DEF Instruction
<1>9. PICK is_root : is_root = IsRoot
  OBVIOUS
<1> HIDE DEF i
<1>10. PICK more : ExprOK(eg, kind, added.eg, more, added, i)
  <2>1. \A j \in 1 .. pc - 1 : table[module.code[j].sym] \in Ids(eg)
                               /\ kind[table[module.code[j].sym]] = "typed"
    BY <1>6, Zenon DEF SymbolsOK
  <2>2. \A n \in eg.nodes : n.en.op = "var" => \E j \in 1 .. pc - 1 : n.en.text = module.code[j].sym
    BY <1>6, Zenon DEF SymbolsOK
  <2>3. Accepted(module, i, is_root, offsets) /\ added = AddExpr(eg, module, i, is_root, table)
    BY <1>1, <1>2, <1>9, Zenon
  <2> QED
    BY <1>6, <1>7, <1>8, <2>1, <2>2, <2>3, AddExprIsSound, Zenon
<1>11. /\ Built(eg, kind, eg', more, i.sym) /\ Sound(eg', more)
       /\ added.id \in Ids(eg') /\ more[added.id] = "typed"
  BY <1>3, <1>10, Zenon DEF ExprOK, Built
<1>12. added.var = 0 \/ /\ i.op = "parameter" /\ added.var \in Ids(eg') /\ more[added.var] = "input"
                        /\ eg'.info[added.var] = Info(<<Bytes(TypeOf(i))>>, "U8")
  BY <1>3, <1>10, Zenon DEF ExprOK
<1>13. \A c \in Ids(eg) : /\ c \in Ids(eg') /\ more[c] = kind[c]
                          /\ kind[c] = "input" => eg'.info[c] = eg.info[c]
  BY <1>6, <1>11, IdsGrow
<1>14. Control'
  <2>1. pc' \in 1 .. Len(module.code) + 1 /\ (~IsRoot => pc' <= Len(module.code))
    BY <1>5, <1>7, <1>8 DEF IsRoot
  <2>2. phase' \in Phases /\ (phase' = "build" => ~IsRoot)
    BY <1>5, Zenon DEF Phases
  <2> QED
    BY <1>5, <1>6, <2>1, <2>2, Zenon DEF Control
<1>15. IsTuple(value', Len(eg'.uf))
  <2>1. Len(eg.uf) \in Nat /\ Len(eg'.uf) \in Nat
    BY <1>6, <1>11, EGraphFacts DEF Sound, IsEGraph
  <2>2. PICK top : top = Len(eg'.uf)
    OBVIOUS
  <2>3. IsTuple(Valued(value, eg'), top)
    BY <1>6, <2>1, <2>2, ValuedIsTuple, Zenon
  <2> QED
    BY <1>5, <2>2, <2>3, Zenon
<1>16. SymbolsOK(more)'
  <2>1. /\ DOMAIN table' = DOMAIN table \cup {i.sym} /\ table'[i.sym] = added.id
        /\ \A x \in DOMAIN table : x # i.sym => table'[x] = table[x]
    <3>1. IsInserted(table', table, i.sym, added.id)
      BY <1>3, InsertedFacts, Zenon
    <3> QED
      BY <3>1, Zenon DEF IsInserted
  <2>2. \A sym \in DOMAIN table' : table'[sym] \in Ids(eg') /\ more[table'[sym]] = "typed"
    <3> SUFFICES ASSUME NEW sym \in DOMAIN table'
                 PROVE  table'[sym] \in Ids(eg') /\ more[table'[sym]] = "typed"
      OBVIOUS
    <3>1. CASE sym = i.sym
      BY <1>11, <2>1, <3>1, Zenon
    <3>2. CASE sym # i.sym
      <4>1. sym \in DOMAIN table /\ table'[sym] = table[sym]
        BY <2>1, <3>2, Zenon
      <4>2. table[sym] \in Ids(eg) /\ kind[table[sym]] = "typed"
        BY <1>6, <4>1, Zenon DEF SymbolsOK
      <4> QED
        BY <1>13, <4>1, <4>2, Zenon
    <3> QED
      BY <3>1, <3>2
  <2>3. \A j \in 1 .. pc' - 1 : j \in 1 .. pc - 1 \/ j = pc
    BY <1>5, <1>8
  <2>4. \A j \in 1 .. pc' - 1 : module.code[j].sym \in DOMAIN table'
    BY <1>6, <1>8, <2>1, <2>3, Zenon DEF SymbolsOK
  <2>5. pc \in 1 .. pc' - 1 /\ \A j \in 1 .. pc - 1 : j \in 1 .. pc' - 1
    BY <1>5, <1>7, <1>8
  <2>6. ASSUME NEW n \in eg'.nodes, n.en.op = "var"
        PROVE  \E j \in 1 .. pc' - 1 : n.en.text = module.code[j].sym
    <3>1. n.en.text = i.sym \/ \E m \in eg.nodes : m.en.op = "var" /\ m.en.text = n.en.text
      BY <1>11, <2>6, Zenon DEF Built
    <3>2. CASE n.en.text = i.sym
      BY <1>8, <2>5, <3>2, Zenon
    <3>3. CASE \E m \in eg.nodes : m.en.op = "var" /\ m.en.text = n.en.text
      <4>1. PICK m \in eg.nodes : m.en.op = "var" /\ m.en.text = n.en.text
        BY <3>3
      <4>2. PICK j \in 1 .. pc - 1 : m.en.text = module.code[j].sym
        BY <1>6, <4>1, Zenon DEF SymbolsOK
      <4> QED
        BY <2>5, <4>1, <4>2, Zenon
    <3> QED
      BY <3>1, <3>2, <3>3
  <2>7. \A id \in inputs' : id \in Ids(eg') /\ more[id] = "input"
    BY <1>3, <1>6, <1>12, <1>13, Zenon DEF SymbolsOK
  <2>8. root' \in Ids(eg') \cup {0}
    <3>1. root \in Ids(eg') \cup {0}
      BY <1>6, <1>13, Zenon DEF SymbolsOK
    <3> QED
      BY <1>3, <1>11, <3>1, Zenon
  <2> QED
    BY <1>5, <2>2, <2>4, <2>6, <2>7, <2>8, Zenon DEF SymbolsOK
<1>17. SlotsOK(more)'
  <2>1. PICK n : n = Len(module.inputs)
    OBVIOUS
  <2>2. n \in Nat /\ DOMAIN offsets = 1 .. n + 1 /\ Len(offsets) = n + 1
    BY <1>6, <1>7, <2>1 DEF SlotsOK
  <2>5. AreNoted(offsets', offsets, i, IsRoot, added)
    <3>1. \A k \in DOMAIN offsets : IsSlot(offsets[k])
      <4>1. ASSUME NEW k \in DOMAIN offsets PROVE IsSlot(offsets[k])
        <5>1. SlotOK(kind, k)
          BY <1>6, Zenon DEF SlotsOK
        <5>2. PICK s : s = offsets[k]
          OBVIOUS
        <5>3. s = [id |-> s.id, addr |-> Slots(module)[k]]
          BY <5>1, <5>2, Zenon DEF SlotOK
        <5>4. IsSlot(s)
          BY <5>3 DEF IsSlot
        <5> QED
          BY <5>2, <5>4, Zenon
      <4> QED
        BY <4>1
    <3> QED
      BY <1>4, <3>1, WithIdsFacts, Zenon
  <2>3. DOMAIN offsets' = DOMAIN offsets /\ Len(offsets') = n + 1
    <3>1. offsets' = [k \in DOMAIN offsets |-> offsets'[k]] /\ DOMAIN offsets' = DOMAIN offsets
      BY <2>5, Zenon DEF AreNoted
    <3>2. n + 1 \in Nat /\ offsets' = [k \in 1 .. n + 1 |-> offsets'[k]]
      BY <2>2, <3>1
    <3> QED
      BY <3>1, <3>2, FunctionLen
  <2>4. ASSUME NEW k \in DOMAIN offsets PROVE SlotOK(more, k)'
    <3> DEFINE old == offsets[k]
    <3>1. SlotOK(kind, k)
      BY <1>6, <2>4, Zenon DEF SlotsOK
    <3>2. old = [id |-> old.id, addr |-> Slots(module)[k]]
      BY <3>1, Zenon DEF SlotOK
    <3>3. PICK id : id = offsets'[k].id
      OBVIOUS
    <3>4. NotedAs(offsets'[k], old, k, Len(offsets), i, IsRoot, added)
      BY <2>4, <2>5, Zenon DEF AreNoted
    <3>5. offsets'[k] = [old EXCEPT !.id = id]
      BY <3>3, <3>4, Zenon DEF NotedAs
    <3>6. \/ k = Len(offsets) /\ id = added.id
          \/ added.var # 0 /\ k = i.attr[1] + 1 /\ id = added.var
          \/ id = old.id
      BY <3>3, <3>4, Zenon DEF NotedAs
    <3> HIDE DEF old
    <3>11. offsets'[k] = [id |-> id, addr |-> Slots(module)[k]]
      BY <3>2, <3>5
    <3>7. old.id = 0 \/ /\ old.id \in Ids(eg)
                        /\ k <= Len(module.inputs) => 
                             /\ kind[old.id] = "input"
                             /\ eg.info[old.id] = Info(<<Bytes(module.inputs[k])>>, "U8")
      BY <3>1, Zenon DEF SlotOK, old
    <3>8. id \in Ids(eg') \cup {0}
      BY <1>11, <1>12, <1>13, <3>6, <3>7, Zenon
    <3>9. ASSUME k <= Len(module.inputs), id # 0
          PROVE  more[id] = "input" /\ eg'.info[id] = Info(<<Bytes(module.inputs[k])>>, "U8")
      <4>1. k # Len(offsets)
        BY <2>1, <2>2, <2>4, <3>9
      <4>2. CASE added.var # 0 /\ k = i.attr[1] + 1 /\ id = added.var
        <5>1. i.op = "parameter" /\ more[id] = "input"
              /\ eg'.info[id] = Info(<<Bytes(TypeOf(i))>>, "U8")
          BY <1>12, <4>2, Zenon
        <5>2. i.attr[1] + 1 \in DOMAIN module.inputs
          <6>1. DOMAIN module.inputs = 1 .. n /\ k \in 1 .. n
            BY <1>7, <2>1, <2>2, <2>4, <3>9
          <6> QED
            BY <4>2, <6>1, Zenon
        <5>3. Promised(module, pc, i)
          <6>1. InstructionOK(module, pc)
            BY <1>2, <1>7, <1>8, Zenon DEF WellFormed, Accepted
          <6> QED
            BY <1>8, <6>1, InstructionFacts, Zenon
        <5>4. Bytes(TypeOf(i)) = Bytes(module.inputs[k])
          BY <4>2, <5>1, <5>2, <5>3, Zenon DEF Promised
        <5> QED
          BY <5>1, <5>4, Zenon
      <4>3. CASE id = old.id
        BY <1>13, <3>7, <3>9, <4>3, Zenon
      <4> QED
        BY <3>6, <4>1, <4>2, <4>3, Zenon
    <3>10. Slots(module)' = Slots(module)
      BY <1>5
    <3> QED
      BY <1>5, <3>3, <3>8, <3>9, <3>10, <3>11, Zenon DEF SlotOK
  <2> QED
    BY <1>5, <2>1, <2>2, <2>3, <2>4, Zenon DEF SlotsOK
<1>18. \A p \in pending' : PendingOK(eg', more, p)
  BY <1>5, <1>6
<1> QED
  BY <1>5, <1>6, <1>11, <1>14, <1>15, <1>16, <1>17, <1>18, Zenon DEF IsInv, IInv

\* What a step leaves that is none of the initializer's.
BuiltStays ==
  /\ module' = module /\ order' = order /\ pc' = pc /\ table' = table /\ inputs' = inputs
  /\ offsets' = offsets /\ root' = root

\* A step that leaves the e-graph and the values alone.
LEMMA SameGraphKeeps ==
  ASSUME NEW kind, IsInv(kind), eg' = eg, value' = value, BuiltStays,
         \A p \in pending' : PendingOK(eg, kind, p),
         phase' \in Phases, phase' = "build" => phase = "build" /\ pending' = pending,
         iteration' \in 0 .. IterationLimit, merged' \in BOOLEAN
  PROVE  IInv'
<1>1. Sound(eg, kind) /\ IsTuple(value, Len(eg.uf))
  BY Zenon DEF IsInv
<1>2. Grows(eg, kind, eg', kind)
  BY <1>1, GrowsReflexive, Zenon
<1>3. Sound(eg', kind) /\ IsTuple(value', Len(eg'.uf)) /\ \A p \in pending' : PendingOK(eg', kind, p)
  BY <1>1, Zenon
<1>4. IsInv(kind)'
  BY <1>2, <1>3, GrowingKeeps, Zenon DEF BuiltStays
<1> QED
  BY <1>4, Zenon DEF IInv

LEMMA PanicKeepsInv ==
  ASSUME NEW kind, IsInv(kind), Panic
  PROVE  IInv'
<1>1. /\ phase' = "panic" /\ eg' = eg /\ value' = value /\ BuiltStays
      /\ pending' = pending /\ iteration' = iteration /\ merged' = merged
  BY Zenon DEF Panic, built, run, ghost, BuiltStays
<1>2. /\ \A p \in pending : PendingOK(eg, kind, p)
      /\ iteration \in 0 .. IterationLimit /\ merged \in BOOLEAN
  BY Zenon DEF IsInv, Control
<1>3. phase' \in Phases /\ phase' # "build"
  BY <1>1, Zenon DEF Phases
<1> QED
  BY <1>1, <1>2, <1>3, SameGraphKeeps, Zenon

LEMMA IterateKeepsInv ==
  ASSUME NEW kind, IsInv(kind), Iterate
  PROVE  IInv'
<1>1. /\ phase' = "apply" /\ eg' = eg /\ value' = value /\ BuiltStays
      /\ pending' = UNION {Search(eg, rule) : rule \in Rules}
      /\ iteration < IterationLimit /\ iteration' = iteration + 1 /\ merged' = FALSE
  BY Zenon DEF Iterate, built, ghost, BuiltStays
<1>2. Sound(eg, kind) /\ iteration \in 0 .. IterationLimit
  BY Zenon DEF IsInv, Control
<1>3. ASSUME NEW p \in pending' PROVE PendingOK(eg, kind, p)
  <2>1. PICK rule \in Rules : p \in Search(eg, rule)
    BY <1>1, <1>3, Zenon
  <2> QED
    BY <1>2, <2>1, SearchIsOK, Zenon
<1>4. phase' \in Phases /\ phase' # "build" /\ merged' \in BOOLEAN
  BY <1>1, Zenon DEF Phases
<1>5. iteration' \in 0 .. IterationLimit
  <2>1. iteration < IterationLimit /\ iteration' = iteration + 1
    BY <1>1
  <2> QED
    BY <1>2, <2>1, FrontEndAssumption
<1> QED
  BY <1>1, <1>3, <1>4, <1>5, SameGraphKeeps, Zenon

LEMMA InterruptKeepsInv ==
  ASSUME NEW kind, IsInv(kind), Interrupt
  PROVE  IInv'
<1>1. /\ phase' = "closing" /\ eg' = eg /\ value' = value /\ BuiltStays
      /\ pending' = {} /\ iteration' = iteration /\ merged' = merged
  BY Zenon DEF Interrupt, built, ghost, BuiltStays
<1>2. iteration \in 0 .. IterationLimit /\ merged \in BOOLEAN
  BY Zenon DEF IsInv, Control
<1>3. phase' \in Phases /\ phase' # "build"
  BY <1>1, Zenon DEF Phases
<1>4. \A p \in pending' : PendingOK(eg, kind, p)
  BY <1>1, Zenon
<1> QED
  BY <1>1, <1>2, <1>3, <1>4, SameGraphKeeps, Zenon

\* A match is applied: pending loses it, and the e-graph grows.
LEMMA ApplyKeepsInv ==
  ASSUME NEW kind, IsInv(kind), Apply
  PROVE  IInv'
<1>1. PICK m \in NextMatches :
         /\ pending' = pending \ {m}
         /\ eg' = IF m \in processed THEN eg ELSE ApplyOne(eg, m.rule, m.cls, m.subst)
  BY DEF Apply
<1>2. /\ phase = "apply" /\ phase' = phase
      /\ value' = Valued(value, eg') /\ iteration' = iteration
      /\ merged' = (merged \/ Unions(eg') > Unions(eg)) /\ BuiltStays
  BY Zenon DEF Apply, built, BuiltStays
<1>3. Sound(eg, kind) /\ IsTuple(value, Len(eg.uf)) /\ Control
      /\ \A p \in pending : PendingOK(eg, kind, p)
  BY Zenon DEF IsInv
<1>4. m \in pending
  BY DEF NextMatches
<1>5. Improved(eg, kind, eg')
  <2>1. CASE m \in processed
    <3>1. eg' = eg
      BY <1>1, <2>1, Zenon
    <3>2. Grows(eg, kind, eg, kind)
      BY <1>3, GrowsReflexive, Zenon
    <3> QED
      BY <1>3, <3>1, <3>2, Zenon DEF Improved
  <2>2. CASE m \notin processed
    <3>1. eg' = ApplyOne(eg, m.rule, m.cls, m.subst)
      BY <1>1, <2>2, Zenon
    <3>2. SubstOK(eg, kind, m.rule, m.cls, m.subst)
      BY <1>3, <1>4, Zenon DEF PendingOK
    <3> QED
      BY <1>3, <3>1, <3>2, ApplyOneIsSound, Zenon
  <2> QED
    BY <2>1, <2>2
<1>6. PICK more : Sound(eg', more) /\ Grows(eg, kind, eg', more)
  BY <1>5, Zenon DEF Improved
<1>7. IsTuple(value', Len(eg'.uf))
  <2>1. Len(eg.uf) \in Nat /\ Len(eg'.uf) \in Nat
    BY <1>3, <1>6, EGraphFacts DEF Sound, IsEGraph
  <2>2. PICK top : top = Len(eg'.uf)
    OBVIOUS
  <2>3. IsTuple(Valued(value, eg'), top)
    BY <1>3, <2>1, <2>2, ValuedIsTuple, Zenon
  <2> QED
    BY <1>2, <2>2, <2>3, Zenon
<1>8. ASSUME NEW p \in pending' PROVE PendingOK(eg', more, p)
  <2>1. p \in pending
    BY <1>1, <1>8, Zenon
  <2>2. SubstOK(eg, kind, p.rule, p.cls, p.subst)
    BY <1>3, <2>1, Zenon DEF PendingOK
  <2>3. SubstOK(eg', more, p.rule, p.cls, p.subst)
    BY <1>3, <1>6, <2>2, SubstStaysOK, Zenon
  <2> QED
    BY <2>3, Zenon DEF PendingOK
<1>9. phase' \in Phases /\ phase' # "build" /\ merged' \in BOOLEAN /\ iteration' \in 0 .. IterationLimit
  BY <1>2, <1>3, Zenon DEF Control
<1>10. IsInv(more)'
  BY <1>2, <1>6, <1>7, <1>8, <1>9, GrowingKeeps, Zenon DEF BuiltStays
<1> QED
  BY <1>10, Zenon DEF IInv

\* A union of the rebuild.
LEMMA RebuildKeepsInv ==
  ASSUME NEW kind, IsInv(kind), Rebuild
  PROVE  IInv'
<1>1. PICK pair : pair = CHOOSE p \in Congruent(eg) : TRUE
  OBVIOUS
<1>2. /\ phase # "build" /\ Congruent(eg) # {} /\ eg' = Union(eg, pair[1], pair[2])
      /\ phase' = phase /\ value' = value /\ BuiltStays
      /\ pending' = pending /\ pending = {} /\ iteration' = iteration /\ merged' = merged
  BY <1>1, Zenon DEF Rebuild, built, run, ghost, BuiltStays
<1>3. Sound(eg, kind) /\ IsTuple(value, Len(eg.uf)) /\ Control
  BY Zenon DEF IsInv
<1>4. pair \in Congruent(eg)
  BY <1>1, <1>2, Zenon
<1>5. PICK a : a = pair[1]
  OBVIOUS
<1>6. PICK b : b = pair[2]
  OBVIOUS
<1>7. a \in Ids(eg) /\ b \in Ids(eg) /\ kind[a] = kind[b] /\ kind[a] # "input"
  <2>1. /\ pair[1] \in Ids(eg) /\ pair[2] \in Ids(eg)
        /\ kind[pair[1]] = kind[pair[2]] /\ kind[pair[1]] # "input"
    BY <1>3, <1>4, CongruentIsUnion
  <2> QED
    BY <1>5, <1>6, <2>1, Zenon
<1>8. Sound(eg', kind) /\ Len(eg'.uf) = Len(eg.uf) /\ Grows(eg, kind, eg', kind)
  <2>1. PICK h : h = eg'
    OBVIOUS
  <2>2. h = Union(eg, a, b)
    BY <1>2, <1>5, <1>6, <2>1, Zenon
  <2>3. Sound(h, kind) /\ Len(h.uf) = Len(eg.uf) /\ Grows(eg, kind, h, kind)
    BY <1>3, <1>7, <2>2, UnionIsSound
  <2> QED
    BY <2>1, <2>3, Zenon
<1>9. IsTuple(value', Len(eg'.uf))
  BY <1>2, <1>3, <1>8, Zenon
<1>10. phase' \in Phases /\ phase' # "build" /\ merged' \in BOOLEAN /\ iteration' \in 0 .. IterationLimit
  BY <1>2, <1>3, Zenon DEF Control
<1>11. \A p \in pending' : PendingOK(eg', kind, p)
  BY <1>2, Zenon
<1>12. IsInv(kind)'
  BY <1>2, <1>8, <1>9, <1>10, <1>11, GrowingKeeps, Zenon DEF BuiltStays
<1> QED
  BY <1>12, Zenon DEF IInv

\* The end of an iteration, of the run, and no step.
LEMMA RestKeepsInv ==
  ASSUME NEW kind, IsInv(kind), EndIteration \/ Stop \/ UNCHANGED vars
  PROVE  IInv'
<1>1. /\ eg' = eg /\ value' = value /\ BuiltStays
      /\ pending' = pending /\ iteration' = iteration /\ merged' = merged
  BY Zenon DEF EndIteration, Stop, vars, built, run, ghost, BuiltStays
<1>2. \/ phase' \in {"hook", "saturated", "stopped"}
      \/ phase' = phase
  BY Zenon DEF EndIteration, Stop, vars
<1>3. /\ \A p \in pending : PendingOK(eg, kind, p)
      /\ iteration \in 0 .. IterationLimit /\ merged \in BOOLEAN /\ phase \in Phases
  BY Zenon DEF IsInv, Control
<1>4. phase' \in Phases /\ (phase' = "build" => phase = "build" /\ pending' = pending)
  BY <1>1, <1>2, <1>3, Zenon DEF Phases
<1> QED
  BY <1>1, <1>3, <1>4, SameGraphKeeps, Zenon

\* No step loses the invariant.
LEMMA StepKeepsInv == IInv /\ [Next]_vars => IInv'
<1> SUFFICES ASSUME IInv, [Next]_vars PROVE IInv'
  OBVIOUS
<1>1. PICK kind : IsInv(kind)
  BY Zenon DEF IInv
<1>2. CASE AddInstruction
  BY <1>1, <1>2, AddInstructionKeepsInv, Zenon
<1>3. CASE Panic
  BY <1>1, <1>3, PanicKeepsInv, Zenon
<1>4. CASE Iterate
  BY <1>1, <1>4, IterateKeepsInv, Zenon
<1>5. CASE Apply
  BY <1>1, <1>5, ApplyKeepsInv, Zenon
<1>6. CASE Rebuild
  BY <1>1, <1>6, RebuildKeepsInv, Zenon
<1>7. CASE Interrupt
  BY <1>1, <1>7, InterruptKeepsInv, Zenon
<1>8. CASE EndIteration \/ Stop \/ UNCHANGED vars
  BY <1>1, <1>8, RestKeepsInv, Zenon
<1> QED
  BY <1>2, <1>3, <1>4, <1>5, <1>6, <1>7, <1>8, Zenon DEF Next, Step, Finished

-----------------------------------------------------------------------------
(* The theorems.                                                           *)

\* It holds in every state of every behaviour ...
LEMMA InvAlways == Spec => []IInv
<1>1. Init => IInv
  BY InitIsInv
<1>2. IInv /\ [Next]_vars => IInv'
  BY StepKeepsInv
<1> QED
  BY <1>1, <1>2, PTL DEF Spec

\* ... and has what the runs check: the types,
LEMMA InvImpliesTypeOK == IInv => TypeOK
<1> SUFFICES ASSUME NEW kind, IsInv(kind) PROVE TypeOK
  BY Zenon DEF IInv
<1>1. Control /\ Sound(eg, kind) /\ IsTuple(value, Len(eg.uf)) /\ SymbolsOK(kind) /\ SlotsOK(kind)
  BY Zenon DEF IsInv
<1>2. /\ phase \in Phases /\ module \in Modules /\ order \in Orders
      /\ pc \in 1 .. Len(module.code) + 1
      /\ iteration \in 0 .. IterationLimit /\ merged \in BOOLEAN
  BY <1>1, Zenon DEF Control
<1>3. \A id \in Ids(eg) : Find(eg, Find(eg, id)) = Find(eg, id)
  BY <1>1, Zenon DEF Sound, IsEGraph, Classes, Find
<1>4. Len(eg.info) = Len(eg.uf) /\ Len(value) = Len(eg.uf)
  BY <1>1, Zenon DEF Sound, IsEGraph, IsTuple
<1>5. ASSUME NEW n \in eg.nodes
      PROVE  /\ n.cls \in Classes(eg)
             /\ \A k \in DOMAIN n.en.kids : n.en.kids[k] \in Classes(eg)
             /\ n.en.op \in TensorOps
             /\ Len(n.en.kids) = NumChildren(n.en.op)
             /\ (n.en.text # "" \/ n.en.data # <<>>) <=> (n.en.op \in HasMetadata \cup {"var"})
  <2>1. n.cls \in Classes(eg) /\ HasParts(n.en) /\ \A k \in DOMAIN n.en.kids : n.en.kids[k] \in Classes(eg)
    BY <1>1, Zenon DEF Sound, IsEGraph
  <2>2. n.en.op \in TensorOps
    <3>1. n \in ClassNodes
      BY <1>1, EGraphFacts DEF Sound, IsEGraph
    <3> QED
      BY <3>1, ClassNodeFacts
  <2> QED
    BY <2>1, <2>2, Zenon DEF HasParts
<1>6. /\ \A sym \in DOMAIN table : table[sym] \in Ids(eg)
      /\ inputs \subseteq Ids(eg) /\ root \in Ids(eg) \cup {0}
  BY <1>1, Zenon DEF SymbolsOK
<1>7. \A k \in DOMAIN offsets : offsets[k].id \in Ids(eg) \cup {0}
  BY <1>1, Zenon DEF SlotsOK, SlotOK
<1> QED
  BY <1>2, <1>3, <1>4, <1>5, <1>6, <1>7, Zenon DEF TypeOK

\* the inputs of the kernel, alone in their classes,
LEMMA InvImpliesInputsStandAlone == IInv => InputsStandAlone
<1> SUFFICES ASSUME NEW kind, IsInv(kind), NEW id \in inputs
             PROVE  Find(eg, id) = id /\ \A en \in NodesOf(eg, id) : en.op = "var"
  BY Zenon DEF IInv, InputsStandAlone
<1>1. Sound(eg, kind) /\ SymbolsOK(kind)
  BY Zenon DEF IsInv
<1>2. id \in Ids(eg) /\ kind[id] = "input"
  BY <1>1, Zenon DEF SymbolsOK
<1>3. Find(eg, id) = id
  BY <1>1, <1>2, Zenon DEF Sound, IsKinded
<1>4. ASSUME NEW en \in NodesOf(eg, id) PROVE en.op = "var"
  <2>1. PICK n \in eg.nodes : n.cls = Find(eg, id) /\ en = n.en
    BY <1>4 DEF NodesOf
  <2>2. KindOf(kind, en) = "input"
    BY <1>1, <1>2, <1>3, <2>1, Zenon DEF Sound, IsKinded
  <2> QED
    BY <2>2, Zenon DEF KindOf
<1> QED
  BY <1>3, <1>4

\* and the slots of HBM.
LEMMA InvImpliesHbmLaidOut == IInv => HbmLaidOut
<1> SUFFICES ASSUME NEW kind, IsInv(kind),
                    NEW j \in DOMAIN offsets, NEW k \in DOMAIN offsets, j < k, offsets[j].id # 0
             PROVE  offsets[j].addr + Bytes(InfoOf(eg, offsets[j].id)) <= offsets[k].addr
  BY Zenon DEF IInv, HbmLaidOut
<1>1. Sound(eg, kind) /\ SlotsOK(kind) /\ module \in Modules
  BY Zenon DEF IsInv, Control
<1>2. PICK n : n = Len(module.inputs)
  OBVIOUS
<1>3. n \in Nat /\ LaidOut(Slots(module), module.inputs, n)
  <2>1. module.inputs \in Seq(Types)
    BY <1>1, ModuleFacts, Zenon
  <2> QED
    BY <1>2, <2>1, OffsetsAreLaidOut
<1>4. j \in 1 .. n /\ k \in 1 .. n + 1
  <2>1. DOMAIN offsets = 1 .. n + 1
    BY <1>1, <1>2, Zenon DEF SlotsOK
  <2> QED
    BY <1>3, <2>1
<1>5. SlotOK(kind, j) /\ SlotOK(kind, k)
  BY <1>1, Zenon DEF SlotsOK
<1>6. offsets[j].addr = Slots(module)[j] /\ offsets[k].addr = Slots(module)[k]
  <2>1. PICK s : s = offsets[j]
    OBVIOUS
  <2>2. PICK t : t = offsets[k]
    OBVIOUS
  <2>3. s = [id |-> s.id, addr |-> Slots(module)[j]] /\ t = [id |-> t.id, addr |-> Slots(module)[k]]
    BY <1>5, <2>1, <2>2, Zenon DEF SlotOK
  <2>4. s.addr = Slots(module)[j] /\ t.addr = Slots(module)[k]
    BY <2>3
  <2> QED
    BY <2>1, <2>2, <2>4, Zenon
<1>7. PICK b : b = Bytes(module.inputs[j])
  OBVIOUS
<1>8. b \in Nat
  BY <1>3, <1>4, <1>7, Zenon DEF LaidOut
<1>9. Bytes(InfoOf(eg, offsets[j].id)) = b
  <2>1. PICK id : id = offsets[j].id
    OBVIOUS
  <2>2. j <= Len(module.inputs)
    BY <1>2, <1>3, <1>4
  <2>3. id \in Ids(eg) /\ kind[id] = "input" /\ eg.info[id] = Info(<<b>>, "U8")
    BY <1>5, <1>7, <2>1, <2>2, Zenon DEF SlotOK
  <2>4. Find(eg, id) = id
    BY <1>1, <2>3, Zenon DEF Sound, IsKinded
  <2>5. PICK info : info = InfoOf(eg, id)
    OBVIOUS
  <2>6. info = Info(<<b>>, "U8")
    BY <2>3, <2>4, <2>5, Zenon DEF InfoOf
  <2>7. Bytes(info) = b
    BY <1>8, <2>6, BytesOfFlat
  <2> QED
    BY <2>1, <2>5, <2>7, Zenon
<1>10. Slots(module)[j] + b <= Slots(module)[k]
  BY <1>3, <1>4, <1>7, LaidOutIsOrdered, Zenon
<1> QED
  BY <1>6, <1>9, <1>10, Zenon

\* The initializer and the rule applier stay within their types, for all
\* modules: the e-graph's classes, its union-find and its TensorInfos fit.
THEOREM TypeCorrect == Spec => []TypeOK
BY InvAlways, InvImpliesTypeOK, PTL

\* A Var of an input is never merged with another e-node, nor reshaped in
\* place: its class holds the Var alone, whatever rules have been applied, in
\* whatever order, so each input of the kernel is one buffer of HBM.
THEOREM InputsAlwaysStandAlone == Spec => []InputsStandAlone
BY InvAlways, InvImpliesInputsStandAlone, PTL

\* The slots that the driver lays out for the inputs and the output do not
\* overlap, and each input's slot is as large as the Var that it is read as.
THEOREM HbmIsLaidOut == Spec => []HbmLaidOut
BY InvAlways, InvImpliesHbmLaidOut, PTL

=============================================================================
