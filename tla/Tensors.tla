------------------------------ MODULE Tensors ------------------------------
(***************************************************************************)
(* Element types, shapes and tensors.  The elements of a tensor are terms  *)
(* over the bytes of the kernel's inputs, in row-major order, so that two  *)
(* ways to compute a tensor can be compared element by element.  A term is *)
(* a tuple that begins with the name of an operation; only the laws that   *)
(* the compiler's rewrites rely on are built in.  A scalar has shape <<1>>, *)
(* which is what the compiler makes of an empty shape.                     *)
(***************************************************************************)
EXTENDS Integers, Sequences

Dtypes == {"U8", "I8", "U16", "I16", "U32", "I32", "U64", "I64",
           "FP16", "FP32", "FP64", "BF16"}

SizeInBytes(dtype) ==
  CASE dtype \in {"U8", "I8"} -> 1
    [] dtype \in {"U16", "I16", "FP16", "BF16"} -> 2
    [] dtype \in {"U32", "I32", "FP32"} -> 4
    [] OTHER -> 8

\* How a type is written in HLO.
Text ==
  [U8 |-> "u8", I8 |-> "s8", U16 |-> "u16", I16 |-> "s16", U32 |-> "u32",
   I32 |-> "s32", U64 |-> "u64", I64 |-> "s64", FP16 |-> "f16",
   FP32 |-> "f32", FP64 |-> "f64", BF16 |-> "bf16"]

\* The type that HLO's text or the name of the variant stands for.
DtypeOf(text) == CHOOSE dtype \in Dtypes : text \in {dtype, Text[dtype]}

\* An e-class's TensorInfo.  is_const is left out: the extractors set it on
\* every class before they read it, and == ignores it.
Info(shape, dtype) == [shape |-> shape, dtype |-> dtype]

Product(s) ==
  LET upto[k \in 0 .. Len(s)] == IF k = 0 THEN 1 ELSE upto[k - 1] * s[k]
  IN  upto[Len(s)]

Bytes(info) == Product(info.shape) * SizeInBytes(info.dtype)

Stride(shape, k) == Product(SubSeq(shape, k + 1, Len(shape)))

\* The index, from 0, of the n-th element.
Index(shape, n) == [k \in DOMAIN shape |-> ((n - 1) \div Stride(shape, k)) % shape[k]]

Place(shape, index) ==
  LET upto[k \in 0 .. Len(shape)] ==
        IF k = 0 THEN 1 ELSE upto[k - 1] + index[k] * Stride(shape, k)
  IN  upto[Len(shape)]

-----------------------------------------------------------------------------
(* Terms.                                                                  *)

NegInf == <<"constant", "-inf">>

\* Narrowing is a ring homomorphism and undoes widening.
Narrowed(e, from, to) ==
  LET narrow(f) == IF f[1] = "convert" /\ f[2] = to /\ f[3] = from
                   THEN f[4] ELSE <<"convert", from, to, f>>
  IN  IF e[1] = "add" THEN <<"add", narrow(e[2]), narrow(e[3])>> ELSE narrow(e)

Converted(e, from, to) ==
  CASE from = to -> e
    [] from # to /\ SizeInBytes(to) < SizeInBytes(from) -> Narrowed(e, from, to)
    [] OTHER -> <<"convert", from, to, e>>

Combined(op, e, f) ==
  IF op = "maximum" /\ f = NegInf THEN e ELSE <<op, e, f>>

Zero == <<"zero">>
One  == <<"one">>

\* The sum of products of a row and a column.
InnerProduct(row, column) ==
  LET terms == {k \in DOMAIN row : column[k] # Zero}
      times(k) == IF column[k] = One THEN row[k] ELSE <<"multiply", row[k], column[k]>>
  IN  IF \E k \in terms : terms = {k} THEN times(CHOOSE k \in terms : TRUE)
      ELSE <<"sum", [k \in DOMAIN row |-> IF k \in terms THEN times(k) ELSE Zero]>>

\* The bytes of a scalar of n bytes, and the scalar of given bytes.
BytesOf(e, n) ==
  CASE n = 1 -> <<e>>
    [] n # 1 /\ e[1] = "word" -> e[2]
    [] OTHER -> [k \in 1 .. n |-> <<"byte", k, e>>]

Word(bytes) ==
  CASE Len(bytes) = 1 -> bytes[1]
    [] Len(bytes) # 1 /\ bytes[1][1] = "byte" /\ bytes = BytesOf(bytes[1][3], Len(bytes)) ->
         bytes[1][3]
    [] OTHER -> <<"word", bytes>>

-----------------------------------------------------------------------------
(* Tensors.                                                                *)

\* As a tuple, which TLC evaluates once.
Tuple(s) == s \o <<>>

Tensor(shape, dtype, element(_)) ==
  [shape |-> Tuple(shape), dtype |-> dtype,
   elems |-> Tuple([n \in 1 .. Product(shape) |-> element(Index(shape, n))])]

\* What an operation computes that its operands do not fit.
Nothing == [shape |-> <<0>>, dtype |-> "U8", elems |-> <<>>]

Element(x, index) == x.elems[Place(x.shape, index)]

Scalar(e, dtype) == [shape |-> <<1>>, dtype |-> dtype, elems |-> <<e>>]

Reshape(x, shape) ==
  IF Product(shape) # Len(x.elems) THEN Nothing ELSE [x EXCEPT !.shape = shape]

\* To bytes, which become the last dimension, or from bytes.
Bitcast(x, dtype) ==
  LET n == SizeInBytes(IF dtype = "U8" THEN x.dtype ELSE dtype)
      rank == Len(x.shape)
      bytes(m) == [k \in 1 .. n |-> x.elems[(m - 1) * n + k]]
  IN  CASE n = 1 -> [x EXCEPT !.dtype = dtype]
        [] n # 1 /\ dtype = "U8" ->
             [shape |-> Append(x.shape, n), dtype |-> dtype,
              elems |-> Tuple([m \in 1 .. Len(x.elems) * n |->
                           BytesOf(x.elems[1 + (m - 1) \div n], n)[1 + ((m - 1) % n)]])]
        [] n # 1 /\ x.dtype = "U8" /\ rank > 1 /\ x.shape[rank] = n ->
             [shape |-> SubSeq(x.shape, 1, rank - 1), dtype |-> dtype,
              elems |-> Tuple([m \in 1 .. Len(x.elems) \div n |-> Word(bytes(m))])]
        [] OTHER -> Nothing

\* order counts from 1.
Transpose(x, order) ==
  IF Len(order) # Len(x.shape) THEN Nothing
  ELSE Tensor([k \in DOMAIN order |-> x.shape[order[k]]], x.dtype,
         LAMBDA index : Element(x, [j \in DOMAIN order |->
                          index[CHOOSE k \in DOMAIN order : order[k] = j]]))

\* ranges is start, end, start, end, ...; dimensions without one are kept.
Slice(x, ranges, stride) ==
  LET from(k) == IF 2 * k <= Len(ranges) THEN ranges[2 * k - 1] ELSE 0
      to(k)   == IF 2 * k <= Len(ranges) THEN ranges[2 * k] ELSE x.shape[k]
  IN  IF \E k \in DOMAIN x.shape : to(k) > x.shape[k] THEN Nothing
      ELSE Tensor([k \in DOMAIN x.shape |-> (to(k) - from(k) + stride - 1) \div stride],
                  x.dtype,
                  LAMBDA index : Element(x, [k \in DOMAIN index |->
                                               from(k) + stride * index[k]]))

\* dim counts from 0.
Concat(x, y, dim) ==
  LET d == dim + 1 IN
  IF ~ /\ Len(x.shape) = Len(y.shape)
       /\ d \in DOMAIN x.shape
       /\ \A k \in DOMAIN x.shape : k # d => x.shape[k] = y.shape[k]
  THEN Nothing
  ELSE Tensor([x.shape EXCEPT ![d] = @ + y.shape[d]], x.dtype,
         LAMBDA index : IF index[d] < x.shape[d] THEN Element(x, index)
                        ELSE Element(y, [index EXCEPT ![d] = @ - x.shape[d]]))

\* Dimension k of x becomes dimension dims[k], from 0, of the result.
Broadcast(x, shape, dims) ==
  Tensor(shape, x.dtype,
    LAMBDA index : IF Len(x.elems) = 1 THEN x.elems[1]
                   ELSE Element(x, [k \in DOMAIN dims |-> index[dims[k] + 1]]))

Convert(x, dtype) ==
  [x EXCEPT !.dtype = dtype,
            !.elems = Tuple([n \in DOMAIN @ |-> Converted(@[n], x.dtype, dtype)])]

Reduce(kind, x, dim) ==
  LET d == dim + 1
      kept == [k \in 1 .. Len(x.shape) - 1 |-> x.shape[IF k < d THEN k ELSE k + 1]]
      at(index, j) == [k \in DOMAIN x.shape |->
                         CASE k = d -> j [] k < d -> index[k] [] OTHER -> index[k - 1]]
  IN  Tensor(IF kept = <<>> THEN <<1>> ELSE kept, x.dtype,
        LAMBDA index : <<kind, [j \in 1 .. x.shape[d] |-> Element(x, at(index, j - 1))]>>)

\* Rows of x with columns of y.
Dot(x, y) ==
  IF Len(x.shape) # 2 \/ Len(y.shape) # 2 \/ x.shape[2] # y.shape[1] THEN Nothing
  ELSE Tensor(<<x.shape[1], y.shape[2]>>, x.dtype,
         LAMBDA index : InnerProduct(
           [k \in 1 .. x.shape[2] |-> Element(x, <<index[1], k - 1>>)],
           [k \in 1 .. x.shape[2] |-> Element(y, <<k - 1, index[2]>>)]))

Eye(n, dtype) ==
  Tensor(<<n, n>>, dtype, LAMBDA index : IF index[1] = index[2] THEN One ELSE Zero)

Unary(op, x) == [x EXCEPT !.elems = Tuple([n \in DOMAIN @ |-> <<op, @[n]>>])]

Binary(op, x, y) ==
  IF x.shape # y.shape THEN Nothing
  ELSE [x EXCEPT !.elems = Tuple([n \in DOMAIN @ |-> Combined(op, @[n], y.elems[n])])]

=============================================================================
