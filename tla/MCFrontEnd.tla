---------------------------- MODULE MCFrontEnd -----------------------------
(***************************************************************************)
(* HLO modules of a few instructions that between them use every operation *)
(* the initializer knows and meet the conditions of the rules.             *)
(***************************************************************************)
EXTENDS FrontEnd, TypedModules

\* Up and down the numbers, and two orders that mix old classes and new.
MCOrders == {"up", "down", "mixed", "shuffled"}

MCRank(which, cls) ==
  CASE which = "up"       -> cls
    [] which = "down"     -> -cls
    [] which = "mixed"    -> (5 * cls) % 97
    [] which = "shuffled" -> (23 * cls + 11) % 61

Bf(shape) == Info(shape, "BF16")
I8(shape) == Info(shape, "I8")

Code(inputs_, output, code) ==
  [inputs |-> inputs_, output |-> output, code |-> code,
   regions |-> [sum |-> <<"parameter", "parameter", "add">>,
                max |-> <<"parameter", "parameter", "maximum">>,
                min |-> <<"parameter", "parameter", "minimum">>]]

Op(sym, op, type, args, attr) == Hlo(sym, op, type.dtype, type.shape, args, attr)
Param(sym, type, k) == Op(sym, "parameter", type, <<>>, <<k>>)
Const(sym, type, text_) == [Op(sym, "constant", type, <<>>, <<>>) EXCEPT !.text = text_]
Red(sym, type, args, dim, region) ==
  [Op(sym, "reduce", type, args, <<dim>>) EXCEPT !.text = region]
Tiled(i, tile_) == [i EXCEPT !.tile = tile_]

U8(shape)  == Info(shape, "U8")
I32(shape) == Info(shape, "I32")
U32(shape) == Info(shape, "U32")

\* Rules 2, 5 and, on what they make, 3, 4 and 7.
AddBytes ==
  LET t == I8(<<2, 2>>) IN
  Code(<<t, t>>, t,
    <<Param("p", t, 0), Param("q", t, 1), Op("r", "add", t, <<"p", "q">>, <<>>)>>)

\* Rule 1; the parameters are not in order and one is not used.
SliceConverted ==
  Code(<<U8(<<3>>), I8(<<4>>)>>, I32(<<2>>),
    <<Param("p", I8(<<4>>), 1), Param("unused", U8(<<3>>), 0),
      Op("w", "convert", I32(<<4>>), <<"p">>, <<>>),
      Op("r", "slice", I32(<<2>>), <<"w">>, <<1, 3>>)>>)

\* Rule 9.
ReshapedTwice ==
  LET t == Bf(<<2, 2>>) IN
  Code(<<t>>, t,
    <<Param("p", t, 0), Op("flat", "reshape", Bf(<<4>>), <<"p">>, <<>>),
      Op("back", "reshape", t, <<"flat">>, <<>>), Op("r", "negate", t, <<"back">>, <<>>)>>)

\* Rule 8, and a reduce.
BroadcastToItself ==
  LET t == Bf(<<2>>) IN
  Code(<<Bf(<<2, 2>>)>>, t,
    <<Param("p", Bf(<<2, 2>>), 0), Const("zero", Bf(<<1>>), "0"),
      Red("s", t, <<"p", "zero">>, 1, "sum"),
      Op("b", "broadcast", t, <<"s">>, <<0>>), Op("r", "rsqrt", t, <<"b">>, <<>>)>>)

\* Rule 10 drops the maximum with -inf and not the one with 0; the class of
\* the constant it looks for is known only after another use of the rule,
\* and keeps its number then, for the sake of n, e and q.
Guarded ==
  LET t == Bf(<<2>>)
      s == Bf(<<1>>)
  IN  Code(<<t>>, t,
    <<Param("p", t, 0), Const("z", s, "0"), Const("ninf", s, "-inf"),
      Op("nb", "broadcast", s, <<"ninf">>, <<>>),
      Op("c", "maximum", s, <<"ninf", "nb">>, <<>>),
      Op("cb", "broadcast", t, <<"c">>, <<>>),
      Op("g", "maximum", t, <<"p", "cb">>, <<>>),
      Op("n", "negate", s, <<"c">>, <<>>), Op("e", "exponential", s, <<"c">>, <<>>),
      Op("q", "rsqrt", s, <<"c">>, <<>>), Op("zb", "broadcast", t, <<"z">>, <<>>),
      Op("r", "maximum", t, <<"g", "zb">>, <<>>)>>)

\* The softmax of the repository's example, of one head.
Softmax ==
  LET t == Bf(<<2, 2>>) IN
  Code(<<t, t>>, t,
    <<Param("q", t, 0), Param("k", t, 1), Op("kt", "transpose", t, <<"k">>, <<1, 0>>),
      Op("s", "dot", t, <<"q", "kt">>, <<1, 0>>), Op("e", "exponential", t, <<"s">>, <<>>),
      Const("zero", Bf(<<1>>), "0"), Red("sum", Bf(<<2>>), <<"e", "zero">>, 1, "sum"),
      Op("b", "broadcast", t, <<"sum">>, <<0>>), Op("r", "divide", t, <<"e", "b">>, <<>>)>>)

\* A concatenation of slices, of bytes.
Halves8 ==
  LET t == U8(<<4>>)
      h == U8(<<2>>)
  IN  Code(<<t>>, t,
    <<Param("p", t, 0), Op("lo", "slice", h, <<"p">>, <<0, 2>>),
      Op("hi", "slice", h, <<"p">>, <<2, 4>>),
      Op("r", "concatenate", t, <<"hi", "lo">>, <<0>>)>>)

\* Tiles on both sides, of different shapes, in three dimensions: in two the
\* order of the tiles' dimensions undoes itself.
TiledBytes ==
  LET t == I8(<<2, 2, 2>>) IN
  Code(<<t, t>>, t,
    <<Tiled(Param("p", t, 0), <<1, 2, 1>>), Param("q", t, 1),
      Tiled(Op("r", "subtract", t, <<"p", "q">>, <<>>), <<2, 1, 1>>)>>)

\* The result in tiles of an element type of two bytes.
TiledResult ==
  LET t == Bf(<<2, 4>>) IN
  Code(<<t>>, t,
    <<Param("p", t, 0), Tiled(Op("r", "exponential", t, <<"p">>, <<>>), <<1, 2>>)>>)

\* Largest less smallest of each column.
Spread ==
  LET t == Bf(<<2, 2>>)
      r == Bf(<<2>>)
      s == Bf(<<1>>)
  IN  Code(<<t>>, r,
    <<Param("p", t, 0), Const("low", s, "-inf"), Const("high", s, "inf"),
      Red("max", r, <<"p", "low">>, 0, "max"), Red("min", r, <<"p", "high">>, 0, "min"),
      Op("r", "subtract", r, <<"max", "min">>, <<>>)>>)

\* A rotation of words: bits, and a constant that is used twice.
Rotated ==
  LET t == U32(<<2>>) IN
  Code(<<t, t>>, t,
    <<Param("p", t, 0), Param("by", t, 1), Const("w", U32(<<1>>), "32"),
      Op("ws", "broadcast", t, <<"w">>, <<>>),
      Op("left", "shift-left", t, <<"p", "by">>, <<>>),
      Op("rest", "subtract", t, <<"ws", "by">>, <<>>),
      Op("right", "shift-right-logical", t, <<"p", "rest">>, <<>>),
      Op("both", "or", t, <<"left", "right">>, <<>>),
      Const("again", U32(<<1>>), "32"), Op("as", "broadcast", t, <<"again">>, <<>>),
      Op("r", "xor", t, <<"both", "as">>, <<>>)>>)

\* Rule 0 does not split a tile of one Side.  The parameters' types differ
\* in size, and so do the steps between their addresses.
Accumulated ==
  LET t == I32(<<2, 2>>)
      u == I8(<<2, 2>>)
  IN  Code(<<t, u, t>>, t,
    <<Param("acc", t, 0), Param("v", u, 1), Param("w", t, 2),
      Op("vw", "convert", t, <<"v">>, <<>>), Op("d", "dot", t, <<"vw", "w">>, <<1, 0>>),
      Op("m", "multiply", t, <<"d", "acc">>, <<>>), Op("r", "add", t, <<"d", "m">>, <<>>)>>)

\* A conversion there and back, which rule 6 leaves alone when it narrows.
ThereAndBack ==
  LET t == I8(<<2>>) IN
  Code(<<t>>, t,
    <<Param("p", t, 0), Op("w", "convert", I32(<<2>>), <<"p">>, <<>>),
      Op("r", "convert", t, <<"w">>, <<>>)>>)

\* Words narrowed to bytes and widened again, of the words that rule 6 does
\* not speak of.
NarrowedWords ==
  LET t == Info(<<2>>, "I16") IN
  Code(<<t>>, t,
    <<Param("p", t, 0), Op("n", "convert", I8(<<2>>), <<"p">>, <<>>),
      Op("r", "convert", t, <<"n">>, <<>>)>>)

\* Rejected: a root that is a parameter, an index twice, an unknown region,
\* an unknown operation, a root that is a constant.
Identity == Code(<<U8(<<2>>)>>, U8(<<2>>), <<Param("p", U8(<<2>>), 0)>>)
SameIndex ==
  LET t == U8(<<2>>) IN
  Code(<<t, t>>, t,
    <<Param("p", t, 0), Param("q", t, 0), Op("r", "xor", t, <<"p", "q">>, <<>>)>>)
NoRegion ==
  LET t == Bf(<<2>>) IN
  Code(<<t>>, Bf(<<1>>),
    <<Param("p", t, 0), Const("one", Bf(<<1>>), "1"),
      Red("r", Bf(<<1>>), <<"p", "one">>, 0, "product")>>)
Selected ==
  LET t == Bf(<<2>>) IN
  Code(<<t>>, t, <<Param("p", t, 0), Op("r", "select", t, <<"p", "p", "p">>, <<>>)>>)
OnlyConstant == Code(<<>>, Bf(<<1>>), <<Const("r", Bf(<<1>>), "1")>>)

MCModules == {AddBytes, SliceConverted, ReshapedTwice, BroadcastToItself, Guarded,
              Softmax, Halves8, TiledBytes, TiledResult, Spread, Rotated, Accumulated,
              ThereAndBack, NarrowedWords, Identity, SameIndex, NoRegion, Selected, OnlyConstant}

-----------------------------------------------------------------------------

\* A sum of bytes, which may wrap, and its conversion to words: rules 5 and
\* 6 together take the sum of the converted operands.
ConvertedSum ==
  LET t == I8(<<2>>) IN
  Code(<<t, t>>, I32(<<2>>),
    <<Param("p", t, 0), Param("q", t, 1), Op("a", "add", t, <<"p", "q">>, <<>>),
      Op("r", "convert", I32(<<2>>), <<"a">>, <<>>)>>)

MCConvertedSum == {ConvertedSum}

\* Bytes of words, widened, narrowed and widened again: rule 6 finds the
\* class of x again, which then has a second match, with p.
ConvertedTwice ==
  LET t == Info(<<2>>, "I16")
      b == I8(<<2>>)
      w == I32(<<2>>)
  IN  Code(<<t>>, w,
    <<Param("p", t, 0), Op("b", "convert", b, <<"p">>, <<>>),
      Op("x", "convert", w, <<"b">>, <<>>), Op("c", "convert", b, <<"x">>, <<>>),
      Op("r", "convert", w, <<"c">>, <<>>)>>)

MCConvertedTwice == {ConvertedTwice}

\* The modules without tiles are such as the proofs are about.
WithoutTiles == (MCModules \ {TiledBytes, TiledResult})
                \cup MCConvertedSum \cup MCConvertedTwice

ASSUME UntiledAreTyped == \A m \in WithoutTiles : Typed(m) /\ AsKept(m)

=============================================================================
