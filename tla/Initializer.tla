---------------------------- MODULE Initializer ----------------------------
(***************************************************************************)
(* From an HLO module to the e-graph of its entry computation.  An HLO     *)
(* module is a record: the types of its inputs and its output as the       *)
(* header lists them, its regions, each the operators in it in order, and  *)
(* the instructions of the entry computation.  An instruction is a record  *)
(*                                                                         *)
(*   sym, op, dtype, shape, tile   tile <<>> is none                       *)
(*   args    the symbols of its operands                                   *)
(*   attr    the numbers of its attribute: a parameter's index, the        *)
(*           dimensions of a broadcast, transpose, concatenate or reduce,  *)
(*           a slice's start, end, start, end, ..., the contracting        *)
(*           dimensions of a dot                                           *)
(*   stride  of a slice                                                    *)
(*   text    a constant's value, the region of a reduce                    *)
(*                                                                         *)
(* The second half of the module is HLO's own meaning of all this.         *)
(***************************************************************************)
EXTENDS TensorEGraph, SequencesExt

Hlo(sym, op, dtype, shape, args, attr) ==
  [sym |-> sym, op |-> op, dtype |-> dtype, shape |-> shape, tile |-> <<>>,
   args |-> args, attr |-> attr, stride |-> 1, text |-> ""]

TypeOf(i) == Info(i.shape, i.dtype)

-----------------------------------------------------------------------------
(* The parser.                                                             *)

Reducers == [add |-> "reduce", maximum |-> "reducemax", minimum |-> "reducemin"]

\* resolve_reduce_kind: the last operator of the region.
LastOperator(region) == region[Max({k \in DOMAIN region : region[k] # "parameter"})]
ReduceKind(region)   == Reducers[LastOperator(region)]

Reduces(region) ==
  /\ \A k \in DOMAIN region : region[k] \in DOMAIN Reducers \cup {"parameter"}
  /\ \E k \in DOMAIN region : region[k] # "parameter"

\* What is kept of an instruction's attribute: of a reduce the dimension up
\* to the first comma, of a broadcast and a dot nothing; of a slice, once it
\* is added, no stride.
Kept(i) ==
  CASE i.op \in {"slice", "transpose", "concatenate"} -> i.attr
    [] i.op = "reduce" -> <<i.attr[1]>>
    [] i.op \in {"broadcast", "reshape"} -> i.shape
    [] OTHER -> <<>>

-----------------------------------------------------------------------------
(* Layouts.                                                                *)

\* The shape of one element is "[1]".  Of "[]" and more than a byte the code
\* would make "[],2", which it reads as <<2>>: no module has one.
WithSize(shape, dtype) ==
  IF SizeInBytes(dtype) = 1 THEN shape ELSE Append(shape, SizeInBytes(dtype))

Quotients(shape, tile) == [k \in DOMAIN shape |-> shape[k] \div tile[k]]

TiledShape(shape, tile) == Quotients(shape, tile) \o tile

\* The tiles' dimensions each behind its own.
ResultShape(shape, tile) ==
  [m \in 1 .. 2 * Len(shape) |->
     IF m % 2 = 1 THEN Quotients(shape, tile)[(m + 1) \div 2] ELSE tile[m \div 2]]

\* Mutant: the order of the result, which undoes this one.
OrderParamUndone(n) == [m \in 1 .. 2 * n |-> IF m <= n THEN 2 * m - 1 ELSE 2 * (m - n)]

OrderParam(n) == [m \in 1 .. 2 * n |-> IF m % 2 = 1 THEN (m + 1) \div 2 ELSE n + m \div 2]

OrderResult(n) == [m \in 1 .. 2 * n |-> IF m <= n THEN 2 * m - 1 ELSE 2 * (m - n)]

Permuted(shape, order) == [k \in DOMAIN order |-> shape[order[k]]]

\* Mutant: elements, not bytes.
HeaderElements(type) == Product(type.shape)

HeaderBytes(type) == Bytes(type)

\* fill_offsets_from_header: one after the other, the output behind them;
\* an id 0 is None.
Offsets(module) ==
  LET upto[k \in 0 .. Len(module.inputs)] ==
        IF k = 0 THEN 0 ELSE upto[k - 1] + HeaderBytes(module.inputs[k])
  IN  [k \in 1 .. Len(module.inputs) + 1 |-> [id |-> 0, addr |-> upto[k - 1]]]

-----------------------------------------------------------------------------
(* Adding to the e-graph.                                                  *)

Link(op, data, info) == [op |-> op, data |-> data, info |-> info]

\* Unary operations one on top of the other.
AddChain(eg, id, links) ==
  LET upto[k \in 0 .. Len(links)] ==
        IF k = 0 THEN [eg |-> eg, id |-> id]
        ELSE AddTyped(upto[k - 1].eg,
                      Listed(links[k].op, links[k].data, <<upto[k - 1].id>>), links[k].info)
  IN  upto[Len(links)]

\* add_parameter behind the Var.  With a tile the class of the transpose has
\* the shape of its operand, and the last reshape has the size appended.
ParameterLinks(i) ==
  LET tiled == TiledShape(i.shape, i.tile)
      sized == WithSize(i.shape, i.dtype)
  IN  IF i.tile = <<>>
      THEN <<Link("reshape", sized, Info(sized, "U8")),
             Link("bitcvt", <<>>, TypeOf(i))>>
      ELSE <<Link("reshape", WithSize(tiled, i.dtype), Info(WithSize(tiled, i.dtype), "U8")),
             Link("bitcvt", <<>>, Info(tiled, i.dtype)),
             Link("transpose", OrderParam(Len(i.shape)), Info(tiled, i.dtype)),
             Link("reshape", sized, Info(sized, i.dtype))>>

\* add_root_operations: back to bytes.
RootLinks(i) ==
  LET sized == WithSize(i.shape, i.dtype)
      flat  == <<Bytes(TypeOf(i))>>
      tiled == ResultShape(i.shape, i.tile)
      order == OrderResult(Len(i.shape))
      moved == Permuted(tiled, order)
  IN  IF i.tile = <<>>
      THEN <<Link("bitcvt", <<>>, Info(sized, "U8")),
             Link("reshape", flat, Info(flat, "U8"))>>
      ELSE <<Link("reshape", tiled, Info(tiled, i.dtype)),
             Link("transpose", order, Info(moved, i.dtype)),
             Link("bitcvt", <<>>, Info(WithSize(moved, i.dtype), "U8")),
             Link("reshape", flat, Info(flat, "U8"))>>

\* The e-nodes of the instructions that are no parameters.
AddConstant(i)          == Texted("constant", i.text, <<>>)
AddBroadcast(i, kids)   == Listed("broadcast", Kept(i), kids)
AddBinaryOp(i, kids)    == Plain(i.op, kids)
AddSlice(i, kids)       == Listed("slice", Kept(i), kids)
AddConcatenate(i, kids) == Listed("concat", Kept(i), <<kids[1], kids[2]>>)
AddReshape(i, kids)     == Listed("reshape", Kept(i), kids)
AddTranspose(i, kids)   == Listed("transpose", Kept(i), kids)
AddConvert(i, kids)     == Texted("convert", Text[i.dtype], kids)
AddReduce(i, region, kids) == Listed(ReduceKind(region), Kept(i), <<kids[1]>>)
AddUnaryOp(i, kids)     == Plain(i.op, kids)

Operation(i, regions, kids) ==
  CASE i.op = "constant"    -> AddConstant(i)
    [] i.op = "broadcast"   -> AddBroadcast(i, kids)
    [] i.op \in BinaryOps \cup {"dot"} -> AddBinaryOp(i, kids)
    [] i.op = "slice"       -> AddSlice(i, kids)
    [] i.op = "concatenate" -> AddConcatenate(i, kids)
    [] i.op = "reshape"     -> AddReshape(i, kids)
    [] i.op = "transpose"   -> AddTranspose(i, kids)
    [] i.op = "convert"     -> AddConvert(i, kids)
    [] i.op = "reduce"      -> AddReduce(i, regions[i.text], kids)
    [] OTHER                -> AddUnaryOp(i, kids)

Supported == BinaryOps \cup UnaryOps \cup
  {"parameter", "constant", "broadcast", "slice", "dot", "concatenate",
   "reshape", "transpose", "convert", "reduce"}

\* The operands of an operation; a reduce has its initial value too.
Operands(op) ==
  CASE op \in {"parameter", "constant"} -> {0}
    [] op = "concatenate" -> Nat \ {0, 1}
    [] op \in BinaryOps \cup {"dot", "reduce"} -> {2}
    [] OTHER -> {1}

Types == [shape : Seq(Nat) \ {<<>>}, dtype : Dtypes]

\* What HLO promises of an instruction that is supported, and of a module:
\* symbols are defined once and before they are used, and a parameter has
\* the size that the header lists.
InstructionOK(module, k) ==
  LET i == module.code[k] IN
  /\ i.sym \in STRING \ {""} /\ TypeOf(i) \in Types
  /\ i.tile \in Seq(Nat \ {0}) /\ Len(i.tile) \in {0, Len(i.shape)}
  /\ i.args \in Seq(STRING) /\ Len(i.args) \in Operands(i.op)
  /\ \A a \in DOMAIN i.args : \E j \in 1 .. k - 1 : module.code[j].sym = i.args[a]
  /\ i.attr \in Seq(Nat) /\ i.text \in STRING
  /\ i.op \in {"parameter", "slice", "transpose", "concatenate", "reduce"} => i.attr # <<>>
  /\ i.op = "constant" => i.text # ""
  /\ i.op = "parameter" /\ i.attr[1] + 1 \in DOMAIN module.inputs =>
       Bytes(TypeOf(i)) = Bytes(module.inputs[i.attr[1] + 1])

WellFormed(module) ==
  /\ module.inputs \in Seq(Types)
  /\ Len(module.code) \in Nat \ {0} /\ DOMAIN module.code = 1 .. Len(module.code)
  /\ \A name \in DOMAIN module.regions : module.regions[name] \in Seq(STRING)
  /\ \A k \in DOMAIN module.code :
       /\ module.code[k].op \in Supported => InstructionOK(module, k)
       /\ \A j \in 1 .. k - 1 : module.code[j].sym # module.code[k].sym

\* The parser and add_expr_to_egraph panic at an operation or a region they
\* do not know, a root that is a parameter or a constant, a parameter with a
\* number that is taken or that the header does not list.
Accepted(module, i, is_root, offsets) ==
  /\ i.op \in Supported
  /\ i.op = "reduce" => i.text \in DOMAIN module.regions /\ Reduces(module.regions[i.text])
  /\ is_root => i.op \notin {"parameter", "constant"}
  /\ i.op = "parameter" => /\ i.attr[1] + 1 \in DOMAIN offsets
                           /\ offsets[i.attr[1] + 1].id = 0

\* add_expr_to_egraph: the e-graph, the class of the symbol, and the Var of
\* a parameter.
AddExpr(eg, module, i, is_root, table) ==
  IF i.op = "parameter"
  THEN LET var   == AddTyped(eg, Texted("var", i.sym, <<>>), Info(<<Bytes(TypeOf(i))>>, "U8"))
           chain == AddChain(var.eg, var.id, ParameterLinks(i))
       IN  [eg |-> chain.eg, id |-> chain.id, var |-> var.id]
  ELSE LET kids  == [k \in DOMAIN i.args |-> table[i.args[k]]]
           added == AddTyped(eg, Operation(i, module.regions, kids), TypeOf(i))
           chain == AddChain(added.eg, added.id, IF is_root THEN RootLinks(i) ELSE <<>>)
       IN  [eg |-> chain.eg, id |-> chain.id, var |-> 0]

-----------------------------------------------------------------------------
(* What HLO means.                                                         *)

\* Where an element is in memory, counted from 1: whole tiles, in order.
TiledPlace(i, index) ==
  LET grid == Quotients(i.shape, i.tile) IN
  IF i.tile = <<>> THEN Place(i.shape, index)
  ELSE (Place(grid, [k \in DOMAIN index |-> index[k] \div i.tile[k]]) - 1) * Product(i.tile)
       + Place(i.tile, [k \in DOMAIN index |-> index[k] % i.tile[k]])

ParameterMeaning(i) ==
  LET n == SizeInBytes(i.dtype) IN
  Tensor(i.shape, i.dtype,
    LAMBDA index : Word([k \in 1 .. n |->
                     <<"input", i.sym, (TiledPlace(i, index) - 1) * n + k - 1>>]))

Contracted(x, last, dim) == IF dim = last THEN x ELSE Transpose(x, <<2, 1>>)

Neutral == [add |-> "0", maximum |-> "-inf", minimum |-> "inf"]

\* Over every dimension that is listed, the last one first, and from the
\* initial value.
ReduceMeaning(region, x, init, dims) ==
  LET over[k \in 0 .. Len(dims)] ==
        IF k = 0 THEN x ELSE Reduce(ReduceKind(region), over[k - 1], dims[Len(dims) + 1 - k])
      all  == over[Len(dims)]
      kind == LastOperator(region)
  IN  IF init = <<"constant", Neutral[kind]>> THEN all
      ELSE [all EXCEPT !.elems = [n \in DOMAIN @ |-> Combined(kind, @[n], init)]]

Concatenated(args, dim) ==
  LET upto[k \in 1 .. Len(args)] ==
        IF k = 1 THEN args[1] ELSE Concat(upto[k - 1], args[k], dim)
  IN  upto[Len(args)]

Meaning(i, regions, args) ==
  LET x == args[1] IN
  CASE i.op = "parameter"   -> ParameterMeaning(i)
    [] i.op = "constant"    -> Scalar(<<"constant", i.text>>, i.dtype)
    [] i.op = "broadcast"   -> Broadcast(x, i.shape, i.attr)
    [] i.op = "slice"       -> Slice(x, i.attr, i.stride)
    [] i.op = "concatenate" -> Concatenated(args, i.attr[1])
    [] i.op = "reshape"     -> Reshape(x, i.shape)
    [] i.op = "transpose"   -> Transpose(x, [k \in DOMAIN i.attr |-> i.attr[k] + 1])
    [] i.op = "convert"     -> Convert(x, i.dtype)
    [] i.op = "reduce"      -> ReduceMeaning(regions[i.text], x, args[2].elems[1], i.attr)
    [] i.op = "dot"         -> Dot(Contracted(x, 1, i.attr[1]), Contracted(args[2], 0, i.attr[2]))
    [] i.op \in UnaryOps    -> Unary(i.op, x)
    [] OTHER                -> Binary(i.op, x, args[2])

Defining(code, sym) == CHOOSE k \in DOMAIN code : code[k].sym = sym

\* Of every instruction, by its number.
Meanings(code, regions) ==
  LET of[k \in 1 .. Len(code)] ==
        Meaning(code[k], regions,
                [a \in DOMAIN code[k].args |-> of[Defining(code, code[k].args[a])]])
  IN  of

\* The bytes of the entry computation's result in memory.
ModuleMeaning(module) ==
  LET code == module.code
      last == code[Len(code)]
      n    == SizeInBytes(last.dtype)
      result == Meanings(code, module.regions)[Len(code)]
      at(m) == CHOOSE e \in DOMAIN result.elems :
                 TiledPlace(last, Index(last.shape, e)) = 1 + (m - 1) \div n
  IN  [shape |-> <<Bytes(TypeOf(last))>>, dtype |-> "U8",
       elems |-> Tuple([m \in 1 .. Bytes(TypeOf(last)) |->
                          BytesOf(result.elems[at(m)], n)[1 + ((m - 1) % n)]])]

=============================================================================
