------------------------------ MODULE EGraphs ------------------------------
(***************************************************************************)
(* The e-graphs that reach the extractors.  Classes are numbered; a class  *)
(* holds a sequence of e-nodes, in the order in which egg keeps them, and  *)
(* the kids of an e-node are classes.  The buffers of an e-node are        *)
(* buffer_assignment's answer, the result first:                           *)
(*                                                                         *)
(*   "isa"       an instruction, with the buffers of its operands          *)
(*   "any"       slice or concatenation: no instruction of the             *)
(*               accelerator, in whatever buffer its operands are          *)
(*   "op"        any other operation of the kernel: in no buffer (a copy   *)
(*               is on its own class, decides nothing, and is left out)    *)
(*   "var"       an input of the kernel, in HBM                            *)
(*   "detected"  the DetectedConst of a class, in HBM                      *)
(***************************************************************************)
EXTENDS Integers, Sequences, FiniteSets

CONSTANTS
  Graphs,   \* the e-graphs that may be extracted from
  OnChip,   \* the accelerator's own buffers
  Names     \* instructions and operations with their attributes

HBM     == "HBM"
ANY     == "ANY"
Buffers == OnChip \cup {HBM}

Kinds == {"isa", "any", "op", "var", "detected"}

\* The name of a DetectedConst; in the code, how to compute it.
Value == "value"

ENode(kind, name, bufs, kids) ==
  [kind |-> kind, name |-> name, bufs |-> bufs, kids |-> kids]

Classes(g) == DOMAIN g.nodes

KidSet(en) == {en.kids[k] : k \in DOMAIN en.kids}

\* An e-node is known by its class and its place there.
ENodes(g) == UNION {{<<c, i>> : i \in DOMAIN g.nodes[c]} : c \in Classes(g)}

At(g, n) == g.nodes[n[1]][n[2]]

\* Can en deliver its result in buffer b?
Supports(en, b) == en.bufs # <<>> /\ en.bufs[1] \in {ANY, b}

\* Mutant: the operands of a slice or concatenation as for an instruction.
ReadsFromAny(en, k, b) == en.bufs[1 + k]

\* Where en reads its k-th operand when it delivers its result in b.
ReadsFrom(en, k, b) == IF en.bufs[1] # ANY THEN en.bufs[1 + k] ELSE b

\* The classes that have a finite term in which no class of out occurs.
Derivable(g, out) ==
  LET round[k \in 0 .. Cardinality(Classes(g))] ==
        IF k = 0 THEN {}
        ELSE LET have == round[k - 1] IN
             have \cup {c \in Classes(g) \ out :
                          \E i \in DOMAIN g.nodes[c] : KidSet(g.nodes[c][i]) \subseteq have}
  IN  round[Cardinality(Classes(g))]

DetectedConst == ENode("detected", Value, <<HBM>>, <<>>)

\* union puts the DetectedConst behind the e-nodes of the class.
Annotated(g, consts) ==
  [root   |-> g.root,
   inputs |-> g.inputs,
   nodes  |-> [c \in Classes(g) |->
                 IF c \in consts THEN Append(g.nodes[c], DetectedConst)
                 ELSE g.nodes[c]]]

\* g with the classes of given as leaves, and of the others the operations.
Operations(g, given) ==
  [nodes |-> [c \in Classes(g) |->
     IF c \in given THEN <<DetectedConst>>
     ELSE [i \in {j \in DOMAIN g.nodes[c] : g.nodes[c][j].kind \in {"op", "any"}} |->
             g.nodes[c][i]]]]

\* The classes operations alone make of those of given.
Made(g, given) == Derivable(Operations(g, given), {})

\* Does en read all that operations need for its class c?  The generator gives
\* an operand that is used again a variable of its own, and the instruction
\* reads the first: what is in the place of the second need not be an operand.
ReadsAll(g, c, en) == c \in Made(g, KidSet(en))

\* The classes that need no input, but not by operations alone.
WithoutForm(g) == Derivable(g, g.inputs) \ Made(g, {})

ENodeSet(g) ==
  [kind : Kinds, name : Names, bufs : Seq(Buffers \cup {ANY}), kids : Seq(Classes(g))]

ENodesOK(g) ==
  \A n \in ENodes(g) :
    LET en == At(g, n) IN
    /\ en.kind # "detected"
    /\ en.kind = "op"  => en.bufs = <<>>
    /\ en.kind = "var" => en.bufs = <<HBM>> /\ en.kids = <<>>
    /\ en.kind = "isa" => en.bufs \in Seq(Buffers) /\ Len(en.bufs) = 1 + Len(en.kids)
    /\ en.kind = "any" => /\ en.kids # <<>>
                          /\ en.bufs = [k \in 1 .. 1 + Len(en.kids) |-> ANY]

\* Rebuilt by egg: a class has a term of operations, as instructions only
\* join classes that have one, and no e-node is in two classes.
Rebuilt(g) ==
  /\ Made(g, g.inputs) = Classes(g)
  /\ \A m, n \in ENodes(g) : At(g, m) = At(g, n) => m = n

ValidGraph(g) ==
  /\ g.nodes \in Seq(Seq(ENodeSet(g)))
  /\ g.root \in Classes(g)
  /\ g.inputs \subseteq Classes(g)
  /\ ENodesOK(g)
  /\ \A c \in Classes(g) :
       (c \in g.inputs) <=> (\E i \in DOMAIN g.nodes[c] : g.nodes[c][i].kind = "var")
  /\ \A c \in g.inputs : Len(g.nodes[c]) = 1
  /\ Rebuilt(g)

ASSUME GraphAssumption ==
  /\ IsFiniteSet(OnChip) /\ {HBM, ANY} \cap OnChip = {}
  /\ Value \in Names
  /\ \A g \in Graphs : ValidGraph(g)

=============================================================================
