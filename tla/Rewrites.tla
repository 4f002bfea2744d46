------------------------------ MODULE Rewrites ------------------------------
(***************************************************************************)
(* The rules of ir2ir_rewrites.txt and how one is applied.  A pattern is a *)
(* sequence of variables and operations, operands before operations and    *)
(* equal parts once, which is egg's RecExpr; positions, of a match and of  *)
(* the tensors and strings that go with it, count from 1 where the code    *)
(* counts from 0.  The rules generated from an accelerator's instructions  *)
(* are not here.                                                           *)
(***************************************************************************)
EXTENDS TensorEGraph, SequencesExt

CONSTANT Side  \* rows and columns of a tile of the rules 0 and 2; 16 in the code

ASSUME SideAssumption == Side \in Nat \ {0}

Rules == 0 .. 10

V(name)     == [var |-> name, op |-> "?", kids |-> <<>>]
N(op, kids) == [var |-> "", op |-> op, kids |-> kids]

Lhs(rule) ==
  CASE rule = 0  -> <<V("a"), V("b"), N("dot", <<1, 2>>), V("d"), N("add", <<3, 4>>)>>
    [] rule = 1  -> <<V("x"), N("convert", <<1>>), N("slice", <<2>>)>>
    [] rule \in {2, 3, 4, 7} -> <<V("x")>>
    [] rule = 5  -> <<V("x"), V("y"), N("add", <<1, 2>>)>>
    [] rule = 6  -> <<V("x"), N("convert", <<1>>), N("convert", <<2>>)>>
    [] rule = 8  -> <<V("x"), N("broadcast", <<1>>)>>
    [] rule = 9  -> <<V("x"), N("reshape", <<1>>), N("reshape", <<2>>)>>
    [] rule = 10 -> <<V("x"), V("c"), N("broadcast", <<2>>), N("maximum", <<1, 3>>)>>

Rhs(rule) ==
  CASE rule = 0  -> <<V("a"), N("slice", <<1>>), V("b"), N("dot", <<2, 3>>),
                      V("d"), N("slice", <<5>>), N("add", <<4, 6>>),
                      N("slice", <<1>>), N("dot", <<8, 3>>),
                      N("slice", <<5>>), N("add", <<9, 10>>), N("concat", <<7, 11>>)>>
    [] rule = 1  -> <<V("x"), N("slice", <<1>>), N("convert", <<2>>)>>
    [] rule = 2  -> <<V("x"), N("eye", <<>>), N("dot", <<1, 2>>)>>
    [] rule = 3  -> <<V("x"), N("reshape", <<1>>), N("reshape", <<2>>)>>
    [] rule = 4  -> <<V("x"), N("bitcvt", <<1>>), N("bitcvt", <<2>>)>>
    [] rule = 5  -> <<V("x"), N("convert", <<1>>), V("y"), N("convert", <<3>>),
                      N("add", <<2, 4>>), N("convert", <<5>>)>>
    [] rule = 7  -> <<V("x"), N("copy", <<1>>)>>
    [] rule \in {6, 8, 9, 10} -> <<V("x")>>

-----------------------------------------------------------------------------
(* precond_*: t is the TensorInfo of the match's classes.                  *)

Halves(t) == t[1].shape[1] \div Side

Precond_0(t) ==
  LET i == Halves(t)
      rows == Info(<<i * Side, Side>>, "I32")
  IN  /\ i % 2 = 0 /\ i >= 2
      /\ \A k \in {1, 3, 4, 5} : t[k] = rows
      /\ t[2] = Info(<<Side, Side>>, "I32")

Precond_1(t) == TRUE

Precond_2(t) == t[1] = Info(<<Side, Side>>, "I8")

\* Mutant: of any rank.
Precond_3AnyRank(t) == t[1].dtype = "U8"

Precond_3(t) == Len(t[1].shape) > 1 /\ t[1].dtype = "U8"

Precond_4(t) == t[1].dtype # "U8"

\* Mutant: of any type.
Precond_5AnyType(t) == TRUE

Precond_5(t) == \A k \in 1 .. 3 : t[k].dtype = "I8"

\* Mutant: there and back through any type.
Precond_6AnyType(t) == t[1].dtype = t[3].dtype

Precond_6(t) == t[1].dtype = "I32" /\ t[2].dtype = "I8" /\ t[3].dtype = "I32"

Precond_7(t) == t[1].dtype # "U8"

Precond_8(t) == t[2].shape = t[1].shape

Precond_9(t) == t[1].dtype = "BF16" /\ t[1].shape = t[3].shape

\* Mutant: whatever is broadcast.
Precond_10AnyConstant(eg, ids, t) == t[4] = t[1]

\* Only the e-nodes of the class that is broadcast are looked at.
Precond_10(eg, ids, t) ==
  /\ t[4] = t[1]
  /\ \E en \in NodesOf(eg, ids[2]) : en.op = "constant" /\ en.text = "-inf"

Precond(rule, eg, ids, t) ==
  CASE rule = 0  -> Precond_0(t)
    [] rule = 1  -> Precond_1(t)
    [] rule = 2  -> Precond_2(t)
    [] rule = 3  -> Precond_3(t)
    [] rule = 4  -> Precond_4(t)
    [] rule = 5  -> Precond_5(t)
    [] rule = 6  -> Precond_6(t)
    [] rule = 7  -> Precond_7(t)
    [] rule = 8  -> Precond_8(t)
    [] rule = 9  -> Precond_9(t)
    [] rule = 10 -> Precond_10(eg, ids, t)

-----------------------------------------------------------------------------
(* metadata_*: the strings of the operations on the right.  A type is      *)
(* written by the name of its variant, "I32", where HLO has "s32".         *)

Str(text)  == [text |-> text, data |-> <<>>]
List(data) == [text |-> "", data |-> data]
None       == Str("")

Metadata_0(t) ==
  LET i     == Halves(t)
      upper == List(<<0, (i \div 2) * Side>>)
      lower == List(<<(i \div 2) * Side, i * Side>>)
  IN  [k \in 1 .. 12 |-> CASE k \in {2, 6} -> upper [] k \in {8, 10} -> lower
                           [] k = 12 -> List(<<1>>) [] OTHER -> None]

Metadata_1(t, ens) == <<None, List(ens[3].data), Str(t[2].dtype)>>

Metadata_2(t) == <<None, [text |-> t[1].dtype, data |-> t[1].shape], None>>

\* Mutant: one string short.
Metadata_3Short(t) == <<None, List(<<Product(t[1].shape)>>), None>>

Metadata_3(t) == <<None, List(<<Product(t[1].shape)>>), List(t[1].shape)>>

Metadata_5(t) == <<None, Str("I32"), None, Str("I32"), None, Str("I8")>>

Metadata(rule, t, ens) ==
  CASE rule = 0 -> Metadata_0(t)
    [] rule = 1 -> Metadata_1(t, ens)
    [] rule = 2 -> Metadata_2(t)
    [] rule = 3 -> Metadata_3(t)
    [] rule = 5 -> Metadata_5(t)
    [] OTHER    -> [k \in DOMAIN Rhs(rule) |-> None]

-----------------------------------------------------------------------------
(* set_shapes_*: the TensorInfo of the classes on the right, by position.  *)

SetShapes_0(t) ==
  LET i == Halves(t) IN
  [k \in {2, 4} \cup 6 .. 12 |->
     Info(<<IF k = 12 THEN i * Side ELSE (i \div 2) * Side, Side>>, "I32")]

\* Mutant: the slice gets the type of what it was a slice of.
SetShapes_1Types(t) == [k \in {2, 3} |-> Info(t[3].shape, t[2].dtype)]

SetShapes_1(t) == [k \in {2, 3} |-> Info(t[3].shape, t[k - 1].dtype)]

SetShapes_2(t) == [k \in {2, 3} |-> t[1]]

SetShapes_3(t) ==
  [k \in {2, 3} |-> IF k = 2 THEN Info(<<Product(t[1].shape)>>, t[1].dtype) ELSE t[1]]

SetShapes_4(t) ==
  LET size == SizeInBytes(t[1].dtype)
      shape == IF size = 1 THEN t[1].shape ELSE Append(t[1].shape, size)
  IN  [k \in {2, 3} |-> IF k = 2 THEN Info(shape, "U8") ELSE t[1]]

SetShapes_5(t) ==
  [k \in {2, 4, 5, 6} |-> Info(t[1].shape, IF k = 6 THEN "I8" ELSE "I32")]

SetShapes_7(t) == [k \in {2} |-> t[1]]

SetShapes(rule, t) ==
  CASE rule = 0 -> SetShapes_0(t)
    [] rule = 1 -> SetShapes_1(t)
    [] rule = 2 -> SetShapes_2(t)
    [] rule = 3 -> SetShapes_3(t)
    [] rule = 4 -> SetShapes_4(t)
    [] rule = 5 -> SetShapes_5(t)
    [] rule = 7 -> SetShapes_7(t)
    [] OTHER    -> <<>>

-----------------------------------------------------------------------------

NoENode == Plain("?", <<>>)

Match(ids, ens) == [ids |-> ids, ens |-> ens]

\* find_matches: the classes and e-nodes of pat at a class, in pat's order.
\* An e-node fits whatever its string; every match has pat's length.
\* The matches of an operation at a class, given those of its operands at all.
Extended(eg, p, id, of) ==
  UNION {{Match(Append(m.ids, id), Append(m.ens, en)) :
            m \in IF Len(p.kids) = 1 THEN of[1][en.kids[1]]
                  ELSE {Match(v[1].ids \o v[2].ids, v[1].ens \o v[2].ens) :
                          v \in of[1][en.kids[1]] \X of[2][en.kids[2]]}} :
           en \in {e \in NodesOf(eg, id) : e.op = p.op}}

FindMatches(eg, cls, pat) ==
  LET upto[i \in 0 .. Len(pat)] ==
        IF i = 0 THEN <<>>
        ELSE LET prev == upto[i - 1]
                 p    == pat[i]
             IN  Append(prev,
                   [id \in Classes(eg) |->
                      IF p.var # "" THEN {Match(<<id>>, <<NoENode>>)}
                      ELSE Extended(eg, p, id, [k \in DOMAIN p.kids |-> prev[p.kids[k]]])])
  IN  upto[Len(pat)][Len(pat)][Find(eg, cls)]

Vars(pat) == {pat[i].var : i \in DOMAIN pat} \ {""}

\* What egg's search binds the variables to.
Subst(pat, ids) ==
  [v \in Vars(pat) |-> ids[CHOOSE i \in DOMAIN pat : pat[i].var = v]]

\* apply_pat: the classes of pat's positions and the e-graph that has them.
ApplyPat(eg, pat, metadata, subst) ==
  LET upto[i \in 0 .. Len(pat)] ==
        IF i = 0 THEN [eg |-> eg, ids |-> <<>>]
        ELSE LET prev == upto[i - 1]
                 kids == [k \in DOMAIN pat[i].kids |-> prev.ids[pat[i].kids[k]]]
                 added == IF pat[i].var # ""
                          THEN [eg |-> prev.eg, id |-> subst[pat[i].var]]
                          ELSE Add(prev.eg, ENode(pat[i].op, metadata[i].text,
                                                  metadata[i].data, kids))
             IN  [eg |-> added.eg, ids |-> Append(prev.ids, added.id)]
  IN  upto[Len(pat)]

\* set_shapes_*, one position after the other: of those that have the same
\* class the last one stays.
WithShapes(eg, ids, shapes) ==
  LET at(cls) == {k \in DOMAIN shapes : Find(eg, ids[k]) = cls} IN
  [eg EXCEPT !.info = [cls \in DOMAIN @ |-> IF at(cls) = {} THEN @[cls]
                                            ELSE shapes[Max(at(cls))]]]

InfosOf(eg, ids) == [k \in DOMAIN ids |-> InfoOf(eg, ids[k])]

\* One match of apply_one's loop.  What is added for it is bound by the
\* substitution apply_one was called with, whatever the match binds.
ApplyMatch(eg, rule, cls, subst, m) ==
  LET t == InfosOf(eg, m.ids) IN
  IF ~Precond(rule, eg, m.ids, t) THEN eg
  ELSE LET made == ApplyPat(eg, Rhs(rule), Metadata(rule, t, m.ens), subst)
       IN  Union(WithShapes(made.eg, made.ids, SetShapes(rule, t)),
                 cls, made.ids[Len(made.ids)])

\* apply_one after its look at PROCESSED: every match, in some order.
ApplyOne(eg, rule, cls, subst) ==
  LET matches == SetToSeq(FindMatches(eg, cls, Lhs(rule)))
      upto[k \in 0 .. Len(matches)] ==
        IF k = 0 THEN eg ELSE ApplyMatch(upto[k - 1], rule, cls, subst, matches[k])
  IN  upto[Len(matches)]

\* What egg's search hands to apply_one, class by class.
Search(eg, rule) ==
  UNION {{[rule |-> rule, cls |-> cls, subst |-> Subst(Lhs(rule), m.ids)]
          : m \in FindMatches(eg, cls, Lhs(rule))} : cls \in Classes(eg)}

\* Every match of the rule with its condition has its other side.
Closed(eg, rule) ==
  \A cls \in Classes(eg) : \A m \in FindMatches(eg, cls, Lhs(rule)) :
    LET t == InfosOf(eg, m.ids) IN
    Precond(rule, eg, m.ids, t) =>
      LET made == ApplyPat(eg, Rhs(rule), Metadata(rule, t, m.ens),
                           Subst(Lhs(rule), m.ids))
      IN  made.eg = eg /\ Find(eg, made.ids[Len(made.ids)]) = cls

=============================================================================
