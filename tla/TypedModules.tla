---------------------------- MODULE TypedModules ----------------------------
(***************************************************************************)
(* HLO modules that lose nothing on their way into the e-graph.  The parser *)
(* does not infer types and keeps only a part of the attributes: for which *)
(* modules the e-graph can mean what HLO means is said here.               *)
(***************************************************************************)
EXTENDS Initializer

\* The instruction that defines a symbol.
Definer(module, sym) == module.code[Defining(module.code, sym)]

OperandType(module, i, a) == TypeOf(Definer(module, i.args[a]))

\* The shape is what HLO infers from the operands' types x and y, and from
\* the attribute; of this the initializer keeps enough to infer it again.
Inferred(i, x, y) ==
  /\ i.op = "constant" => i.shape = <<1>>
  /\ i.op = "broadcast" =>
       \/ Product(x.shape) = 1
       \/ /\ i.attr = [k \in DOMAIN x.shape |-> k - 1]
          /\ \A k \in DOMAIN x.shape : k \in DOMAIN i.shape /\ x.shape[k] = i.shape[k]
  /\ i.op = "slice" =>
       /\ i.stride = 1 /\ Len(i.attr) = 2 * Len(x.shape) /\ Len(i.shape) = Len(x.shape)
       /\ \A k \in DOMAIN x.shape : /\ i.shape[k] = i.attr[2 * k] - i.attr[2 * k - 1]
                                   /\ i.attr[2 * k] <= x.shape[k]
  /\ i.op = "dot" =>
       /\ Len(x.shape) = 2 /\ Len(y.shape) = 2 /\ x.shape[2] = y.shape[1]
       /\ i.shape = <<x.shape[1], y.shape[2]>>
  /\ i.op = "concatenate" =>
       /\ Len(i.args) = 2 /\ i.attr[1] + 1 \in DOMAIN x.shape /\ y.dtype = x.dtype
       /\ Len(y.shape) = Len(x.shape) /\ Len(i.shape) = Len(x.shape)
       /\ \A k \in DOMAIN x.shape :
            IF k = i.attr[1] + 1 THEN i.shape[k] = x.shape[k] + y.shape[k]
            ELSE i.shape[k] = x.shape[k] /\ y.shape[k] = x.shape[k]
  /\ i.op = "reshape" => Product(i.shape) = Product(x.shape)
  /\ i.op = "transpose" =>
       /\ Len(i.attr) = Len(x.shape) /\ Len(i.shape) = Len(x.shape)
       /\ \A k \in DOMAIN x.shape : \E j \in DOMAIN i.attr : i.attr[j] + 1 = k
       /\ \A k \in DOMAIN i.attr : /\ i.attr[k] + 1 \in DOMAIN x.shape
                                  /\ i.shape[k] = x.shape[i.attr[k] + 1]
  /\ i.op = "reduce" =>
       /\ Len(i.attr) = 1 /\ i.attr[1] + 1 \in DOMAIN x.shape
       /\ IF Len(x.shape) = 1 THEN i.shape = <<1>>
          ELSE /\ Len(i.shape) = Len(x.shape) - 1
               /\ \A k \in DOMAIN i.shape :
                    i.shape[k] = x.shape[IF k <= i.attr[1] THEN k ELSE k + 1]
  /\ i.op \in BinaryOps => x.shape = i.shape /\ y = x
  /\ i.op \in UnaryOps \cup {"convert"} => x.shape = i.shape

\* No tiles, no empty tensors, no two constants of one text and two types,
\* and every instruction has the type that HLO infers for it.
Typed(module) ==
  /\ \A k \in DOMAIN module.code :
       LET i == module.code[k] IN
       i.op \in Supported =>
       /\ i.tile = <<>>
       /\ \A d \in DOMAIN i.shape : i.shape[d] > 0
       /\ Inferred(i, OperandType(module, i, 1), OperandType(module, i, 2))
       /\ i.op \notin {"parameter", "constant", "convert"} =>
            i.dtype = OperandType(module, i, 1).dtype
  /\ \A j, k \in DOMAIN module.code :
       /\ module.code[j].op = "constant" /\ module.code[k].op = "constant"
       /\ module.code[j].text = module.code[k].text
       => module.code[j].dtype = module.code[k].dtype

\* What the initializer drops of the attributes says nothing: a dot is of
\* rows and columns, a reduction begins with what changes nothing.
AsKept(module) ==
  \A k \in DOMAIN module.code :
    LET i == module.code[k] IN
    /\ i.op = "dot" => i.attr = <<1, 0>>
    /\ i.op = "reduce" /\ i.text \in DOMAIN module.regions =>
         LET init == Definer(module, i.args[2]) IN
         init.op = "constant" /\ init.text = Neutral[LastOperator(module.regions[i.text])]

=============================================================================
