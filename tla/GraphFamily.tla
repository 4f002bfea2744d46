---------------------------- MODULE GraphFamily -----------------------------
(***************************************************************************)
(* A family of e-graphs over an accelerator with two buffers: an input, a  *)
(* constant, two classes between them and the root, and the root, which is *)
(* in HBM.  A class between them has one or two forms, in either order: a  *)
(* load, an instruction on operands on chip, or a slice or concatenation;  *)
(* both may refer to each other and to themselves.  To these come a few    *)
(* e-graphs with instructions whose patterns are several operations deep,  *)
(* after load_rm, softmax and store_rm of examples/QKV.                    *)
(***************************************************************************)
EXTENDS EGraphs

CONSTANTS MaxForms  \* forms of a class

MCOnChip == {"D1", "D2"}
MCNames  == {"x", "value", "load", "unary", "gemm", "store", "add", "bias", "view",
             "reshape", "bitcvt", "exp", "sum", "divide", "softmax"}

Input    == 1
Constant == 2
Inner    == 3
Last     == 4
Root     == 5

Isa(name, out, in, kids) == ENode("isa", name, <<out>> \o in, kids)
Any(kids)  == ENode("any", "view", [k \in 1 .. 1 + Len(kids) |-> ANY], kids)
Op(name, kids) == ENode("op", name, <<>>, kids)

Load(out, k)   == Isa("load", out, <<HBM>>, <<k>>)
\* On its own class: a copy from D1 to D2.
Unary(k)       == Isa("unary", "D2", <<"D1">>, <<k>>)
Gemm(k, l)     == Isa("gemm", "D2", <<"D1", "D2">>, <<k, l>>)
Store(from, k) == Isa("store", HBM, <<from>>, <<k>>)
Add(k, l)      == Isa("add", HBM, <<HBM, "D1">>, <<k, l>>)
Bias(k, l)     == Isa("bias", HBM, <<HBM, "D2">>, <<k, l>>)

InnerForms ==
  {Load("D1", Input), Load("D2", Input), Load("D1", Constant),
   Unary(Inner), Unary(Last), Any(<<Input>>), Any(<<Last>>)}

LastForms ==
  {Load("D1", Input), Unary(Inner), Unary(Last), Gemm(Inner, Inner),
   Gemm(Inner, Last), Any(<<Inner>>), Any(<<Inner, Inner>>),
   Any(<<Inner, Constant>>)}

RootForms == {Store("D1", Last), Bias(Constant, Last), Add(Last, Inner)}

\* Instructions come first in a class, then operations, among them those the
\* instructions stand for; an instruction on its own class stands for a copy.
Class(c, forms) ==
  LET instrs == SelectSeq(forms, LAMBDA f : f.kind = "isa")
      anys   == SelectSeq(forms, LAMBDA f : f.kind = "any")
      others == SelectSeq(instrs, LAMBDA f : c \notin KidSet(f))
      ops    == [i \in DOMAIN others |-> Op(others[i].name, others[i].kids)]
      once   == IF Len(ops) = 2 /\ ops[1] = ops[2] THEN <<ops[1]>> ELSE ops
  IN  instrs \o anys \o once

Choices(forms) ==
  UNION {[1 .. n -> forms] : n \in 1 .. MaxForms}

MCGraph(inner, last, root) ==
  [root   |-> Root,
   inputs |-> {Input},
   nodes  |-> <<<<ENode("var", "x", <<HBM>>, <<>>)>>,
                <<Op("value", <<>>)>>,
                Class(Inner, inner), Class(Last, last), Class(Root, <<root>>)>>]

\* The input and the constant are loaded, divide(exp(n), sum(exp(d))) is
\* computed of them, and the quotient stored.  The instruction has the pattern
\* divide(exp(?n), sum(exp(?d))) and reads ?d: %a is used again.
Loaded(k, shaped) == <<Load("D1", k), Op("bitcvt", <<shaped>>)>>

LoadedInput    == 4
LoadedConstant == 6

Exp(n) == IF n = LoadedInput THEN 7 ELSE 8

Deep(n, d) ==
  [root   |-> 12,
   inputs |-> {Input},
   nodes  |-> <<<<ENode("var", "x", <<HBM>>, <<>>)>>,
                <<Op("value", <<>>)>>,
                <<Op("reshape", <<Input>>)>>, Loaded(Input, 3),
                <<Op("reshape", <<Constant>>)>>, Loaded(Constant, 5),
                <<Op("exp", <<LoadedInput>>)>>, <<Op("exp", <<LoadedConstant>>)>>,
                <<Op("sum", <<Exp(d)>>)>>,
                <<Isa("softmax", "D1", <<"D1">>, <<d>>), Op("divide", <<Exp(n), 9>>)>>,
                <<Op("bitcvt", <<10>>)>>,
                <<Store("D1", 10), Op("reshape", <<11>>)>>>>]

DeepGraphs ==
  {g \in {Deep(n, d) : n, d \in {LoadedInput, LoadedConstant}} : ValidGraph(g)}

MCGraphs ==
  DeepGraphs \cup
  {g \in {MCGraph(inner, last, root) : inner \in Choices(InnerForms),
             last \in Choices(LastForms), root \in RootForms} :
     ValidGraph(g)}

=============================================================================
