--------------------------- MODULE MCSlowExtract ---------------------------
(***************************************************************************)
(* A family of e-graphs with much to merge: an input is loaded into one    *)
(* buffer or both, sliced or concatenated, and its view goes, often twice, *)
(* into instructions that read operands from different buffers.            *)
(***************************************************************************)
EXTENDS SlowExtract, GraphFamily

Moved  == 3
View   == 4
Result == 5
Output == 6

MovedForms ==
  {<<Load("D1", Input)>>, <<Load("D1", Input), Load("D2", Input)>>,
   <<Load("D1", Input), Unary(Moved)>>}

ViewForms ==
  {<<Any(<<Moved>>)>>, <<Any(<<Moved, Moved>>)>>, <<Load("D1", Constant)>>,
   <<Any(<<Moved>>), Load("D2", Constant)>>}

ResultForms ==
  {Gemm(View, View), Gemm(View, Result), Gemm(Moved, View), Unary(View),
   Any(<<Result>>)}

OutputForms == {Bias(Constant, Result), Store("D2", Result), Add(Output, Moved)}

MCSlowGraph(moved, view, result, out) ==
  [root   |-> Output,
   inputs |-> {Input},
   nodes  |-> <<<<ENode("var", "x", <<HBM>>, <<>>)>>,
                <<Op("value", <<>>)>>,
                Class(Moved, moved), Class(View, view), Class(Result, result),
                Class(Output, out)>>]

MCSlowGraphs ==
  DeepGraphs \cup
  {g \in {MCSlowGraph(moved, view, result, out) :
            moved \in MovedForms, view \in ViewForms,
            result \in Choices(ResultForms),
            out \in {<<form>> : form \in OutputForms}
                    \cup {<<Bias(Constant, Result), Add(Output, Moved)>>}} :
     ValidGraph(g)}

=============================================================================
