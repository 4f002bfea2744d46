---------------------------- MODULE TensorEGraph ----------------------------
(***************************************************************************)
(* The e-graph of tensor operations that the initializer builds and the    *)
(* rules extend: TensorOp, its analysis TensorInfo, and egg's operations   *)
(* as the code uses them.                                                  *)
(*                                                                         *)
(* Classes are numbered in the order of their making.  uf leads a number   *)
(* to the class it has become part of; e-nodes are kept with the numbers   *)
(* their class and their kids have now, which is what egg's look-ups see   *)
(* through find.  The string of a TensorOp is text, or data where it lists *)
(* numbers.                                                                *)
(***************************************************************************)
EXTENDS Tensors, FiniteSets

BinaryOps == {"add", "xor", "shift-right-logical", "or", "shift-left",
              "divide", "multiply", "subtract", "maximum", "minimum"}
UnaryOps  == {"exponential", "rsqrt", "negate"}
Reductions == {"reduce", "reducemax", "reducemin"}
TensorOps == BinaryOps \cup UnaryOps \cup Reductions \cup
             {"dot", "bitcvt", "broadcast", "concat", "constant", "convert",
              "copy", "eye", "reshape", "slice", "transpose", "var"}

NumChildren(op) ==
  CASE op \in BinaryOps \cup {"dot", "concat"} -> 2
    [] op \in {"var", "constant", "eye"} -> 0
    [] OTHER -> 1

\* The operations with a string that comes from set_metadata.
HasMetadata == Reductions \cup {"broadcast", "concat", "constant", "convert",
                                "eye", "reshape", "slice", "transpose"}

ENode(op, text, data, kids) ==
  [op |-> op, text |-> text, data |-> data, kids |-> kids]

Plain(op, kids)       == ENode(op, "", <<>>, kids)
Listed(op, data, kids) == ENode(op, "", data, kids)
Texted(op, text, kids) == ENode(op, text, <<>>, kids)

\* What an e-node computes from its kids' tensors.  Of a bitcvt and of a
\* constant it does not say the type: their class does.  A broadcast does
\* not say its dimensions: they are the leading ones.  An order of
\* dimensions counts from 0, as in HLO, or from 1, as in the code.
Computes(en, kids, info) ==
  LET x == kids[1]
      y == kids[2]
      order == IF \E k \in DOMAIN en.data : en.data[k] = 0
               THEN [k \in DOMAIN en.data |-> en.data[k] + 1] ELSE en.data
      leading == [k \in DOMAIN x.shape |-> k - 1]
  IN  CASE en.op \in BinaryOps   -> Binary(en.op, x, y)
        [] en.op \in UnaryOps    -> Unary(en.op, x)
        [] en.op \in Reductions  -> Reduce(en.op, x, en.data[1])
        [] en.op = "dot"         -> Dot(x, y)
        [] en.op = "bitcvt"      -> Bitcast(x, info.dtype)
        [] en.op = "broadcast"   -> Broadcast(x, en.data, leading)
        [] en.op = "concat"      -> Concat(x, y, en.data[1])
        [] en.op = "constant"    -> Scalar(<<"constant", en.text>>, info.dtype)
        [] en.op = "convert"     -> Convert(x, DtypeOf(en.text))
        [] en.op = "copy"        -> x
        [] en.op = "eye"         -> Eye(en.data[1], en.text)
        [] en.op = "reshape"     -> Reshape(x, en.data)
        [] en.op = "slice"       -> Slice(x, en.data, 1)
        [] en.op = "transpose"   -> Transpose(x, order)
        [] en.op = "var"         -> Tensor(info.shape, "U8",
                                      LAMBDA index : <<"input", en.text, index[1]>>)

-----------------------------------------------------------------------------

EmptyEGraph == [nodes |-> {}, uf |-> <<>>, info |-> <<>>]

Ids(eg)      == DOMAIN eg.uf
Find(eg, id) == eg.uf[id]
Classes(eg)  == {id \in Ids(eg) : eg.uf[id] = id}
InfoOf(eg, id) == eg.info[Find(eg, id)]

NodesOf(eg, id) == {n.en : n \in {m \in eg.nodes : m.cls = Find(eg, id)}}

\* TensorInfo::default.
Default == Info(<<>>, "U8")

\* EGraph::add: an e-node that is there is not made again.  The answer is
\* the e-graph and the class.
Add(eg, en0) ==
  LET en    == [en0 EXCEPT !.kids = [k \in DOMAIN @ |-> Find(eg, @[k])]]
      found == {n \in eg.nodes : n.en = en}
      id    == Len(eg.uf) + 1
  IN  IF found # {}
      THEN [eg |-> eg, id |-> (CHOOSE n \in found : TRUE).cls]
      ELSE [eg |-> [nodes |-> eg.nodes \cup {[cls |-> id, en |-> en]},
                    uf    |-> Append(eg.uf, id),
                    info  |-> Append(eg.info, Default)],
            id |-> id]

\* set_analysis_data, of a class that is new or has been there.
SetInfo(eg, id, info) == [eg EXCEPT !.info[Find(eg, id)] = info]

AddTyped(eg, en, info) ==
  LET added == Add(eg, en) IN
  [eg |-> SetInfo(added.eg, added.id, info), id |-> added.id]

\* As often as it is a kid.
Parents(eg, id) ==
  Cardinality({use \in eg.nodes \X {1, 2} :
                 /\ use[2] \in DOMAIN use[1].en.kids
                 /\ use[1].en.kids[use[2]] = id})

KidsRenamed(kids, gone, kept) ==
  [k \in DOMAIN kids |-> IF kids[k] = gone THEN kept ELSE kids[k]]

\* EGraph::union: the class with more parents stays, with its TensorInfo;
\* Analysis::merge compares nothing.
Union(eg, a, b) ==
  LET x == Find(eg, a)
      y == Find(eg, b)
      kept == IF Parents(eg, x) < Parents(eg, y) THEN y ELSE x
      gone == IF kept = x THEN y ELSE x
      now(id) == IF id = gone THEN kept ELSE id
  IN  IF x = y THEN eg
      ELSE [nodes |-> {[cls |-> now(n.cls),
                        en  |-> [n.en EXCEPT !.kids = KidsRenamed(@, gone, kept)]]
                       : n \in eg.nodes},
            uf    |-> [id \in Ids(eg) |-> now(eg.uf[id])],
            info  |-> eg.info]

\* Two classes with the same e-node: rebuild merges them.
Congruent(eg) ==
  {<<pair[1].cls, pair[2].cls>> :
     pair \in {p \in eg.nodes \X eg.nodes : p[1].en = p[2].en /\ p[1].cls < p[2].cls}}

=============================================================================
