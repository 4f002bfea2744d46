---------------------------- MODULE FastExtract ----------------------------
(***************************************************************************)
(* extract_fast: which classes are constants, the depth-first search for   *)
(* one e-node per class and buffer, and the conversion of what it selected *)
(* into a PII graph.  The recursion of get_pii_graph is the variable       *)
(* stack, with one frame per call:                                         *)
(*                                                                         *)
(*   class, target   the arguments                                         *)
(*   node            the e-node the loop is at                             *)
(*   kid             the operand of it that is being searched; 0 before    *)
(*                   the e-node was accepted                               *)
(*   snapshot        selected when the loop came to this e-node            *)
(*                                                                         *)
(* control is what happens next: "call" enters the frame on top, "try"     *)
(* looks at its e-node, "kids" goes on with its operands, "yes" and "no"   *)
(* are the answer of a call that has just returned.                        *)
(***************************************************************************)
EXTENDS EGraphs

VARIABLES
  phase,      \* what extract_fast is doing
  graph,      \* egraph
  work,       \* classes in the worklist, each perhaps many times
  constants,  \* constants
  control, stack, path,
  selected,   \* e-nodes, in the order in which they were inserted
  pii,        \* the lines of the PII graph
  eclass_map  \* class -> line, 0 when it is not in the map

detection == <<work, constants>>
search    == <<control, stack, path, selected>>
output    == <<pii, eclass_map>>
vars      == <<phase, graph, detection, search, output>>

Phases   == {"detect", "annotate", "search", "convert", "done", "none", "stuck", "panic"}
Controls == {"call", "try", "kids", "yes", "no"}

-----------------------------------------------------------------------------
(* Constants.                                                              *)

Init ==
  /\ graph \in Graphs
  /\ phase = "detect"
  /\ work = Classes(graph) /\ constants = {}
  /\ control = "call" /\ stack = <<>> /\ path = {} /\ selected = <<>>
  /\ pii = <<>> /\ eclass_map = [c \in Classes(graph) |-> 0]

\* Mutant: the parents are not queued again.
ParentsNone(g, c) == {}

Parents(g, c) ==
  {p \in Classes(g) : \E i \in DOMAIN g.nodes[p] : c \in KidSet(g.nodes[p][i])}

AllKidsConstant(c) ==
  \E i \in DOMAIN graph.nodes[c] : KidSet(graph.nodes[c][i]) \subseteq constants

\* Mutant: a class that is a constant already is not passed over.
DetectAgain(c) ==
  /\ phase = "detect"
  /\ c \in work
  /\ IF c \notin graph.inputs /\ AllKidsConstant(c)
     THEN /\ constants' = constants \cup {c}
          /\ work' = (work \ {c}) \cup Parents(graph, c)
     ELSE /\ work' = work \ {c}
          /\ UNCHANGED constants
  /\ UNCHANGED <<phase, graph, search, output>>

\* egg gives the classes in any order, so c may be any of them.
Detect(c) ==
  /\ phase = "detect"
  /\ c \in work
  /\ IF c \notin constants /\ c \notin graph.inputs /\ AllKidsConstant(c)
     THEN /\ constants' = constants \cup {c}
          /\ work' = (work \ {c}) \cup Parents(graph, c)
     ELSE /\ work' = work \ {c}
          /\ UNCHANGED constants
  /\ UNCHANGED <<phase, graph, search, output>>

DetectEnds ==
  /\ phase = "detect" /\ work = {}
  /\ phase' = "annotate"
  /\ UNCHANGED <<graph, detection, search, output>>

\* Mutant: the first e-node of the class decides.
OpReprFirst(g, c) ==
  LET repr[call \in Classes(g) \X SUBSET Classes(g)] ==
        LET x == call[1]  visited == call[2] IN
        /\ x \notin visited
        /\ g.nodes[x][1].kind \in {"op", "any"}
        /\ \A d \in KidSet(g.nodes[x][1]) : repr[<<d, visited \cup {x}>>]
  IN  repr[<<c, {}>>]

\* op_repr: can c be written with operations alone, no class inside itself?
OpRepr(g, c) ==
  LET repr[call \in Classes(g) \X SUBSET Classes(g)] ==
        LET x == call[1]  visited == call[2] IN
        /\ x \notin visited
        /\ \E i \in DOMAIN g.nodes[x] :
             /\ g.nodes[x][i].kind \in {"op", "any"}
             /\ \A d \in KidSet(g.nodes[x][i]) : repr[<<d, visited \cup {x}>>]
  IN  repr[<<c, {}>>]

Annotate ==
  /\ phase = "annotate"
  /\ IF \A c \in constants : OpRepr(graph, c)
     THEN /\ graph' = Annotated(graph, constants)
          /\ phase' = "search"
          /\ stack' = <<[class |-> graph.root, target |-> HBM, node |-> 1,
                         kid |-> 0, snapshot |-> selected]>>
     ELSE /\ phase' = "panic"
          /\ UNCHANGED <<graph, stack>>
  /\ UNCHANGED <<detection, control, path, selected, output>>

-----------------------------------------------------------------------------
(* The search.                                                             *)

Top   == stack[Len(stack)]
Below == SubSeq(stack, 1, Len(stack) - 1)

Searching(c) == phase = "search" /\ stack # <<>> /\ control = c

\* The e-node at which the loop of the call on top is, and its place.
AtEnd   == Top.node > Len(graph.nodes[Top.class])
Place   == <<Top.class, Top.node>>
Current == At(graph, Place)

SelectedSet == {selected[k] : k \in DOMAIN selected}

Insert(n) == IF n \in SelectedSet THEN selected ELSE Append(selected, n)

\* A call returns.
Return(answer) ==
  /\ control' = answer
  /\ stack' = Below

\* The call on top goes on to the next e-node of its class.
NextNode(sel) ==
  [class |-> Top.class, target |-> Top.target, node |-> Top.node + 1,
   kid |-> 0, snapshot |-> sel]

Search == UNCHANGED <<phase, graph, detection, output>>

OnPath == Top.class \in path

\* Mutant: a selected e-node will do in whatever buffer it is.
MemoizedAnywhere ==
  \E i \in DOMAIN graph.nodes[Top.class] :
    /\ graph.nodes[Top.class][i].bufs # <<>>
    /\ <<Top.class, i>> \in SelectedSet

\* Slices and concatenations are never found here: their buffer is ANY.
Memoized ==
  \E i \in DOMAIN graph.nodes[Top.class] :
    LET en == graph.nodes[Top.class][i] IN
    /\ en.bufs # <<>>
    /\ <<Top.class, i>> \in SelectedSet
    /\ en.bufs[1] = Top.target

Refuse ==
  /\ Searching("call") /\ OnPath
  /\ Return("no")
  /\ UNCHANGED <<path, selected>> /\ Search

Reuse ==
  /\ Searching("call") /\ ~OnPath /\ Memoized
  /\ Return("yes")
  /\ UNCHANGED <<path, selected>> /\ Search

EnterLoop ==
  /\ Searching("call") /\ ~OnPath /\ ~Memoized
  /\ control' = "try"
  /\ UNCHANGED <<stack, path, selected>> /\ Search

\* An input, or a constant: in HBM before the kernel starts.
IsBase ==
  /\ Top.target = HBM
  /\ \/ Top.class \in graph.inputs
     \/ Top.class \in constants /\ Current.kind = "detected"

Base ==
  /\ Searching("try") /\ ~AtEnd /\ IsBase
  /\ selected' = Insert(Place)
  /\ Return("yes")
  /\ UNCHANGED path /\ Search

\* Not an instruction, or one with its result elsewhere.
Skip ==
  /\ Searching("try") /\ ~AtEnd /\ ~IsBase /\ ~Supports(Current, Top.target)
  /\ stack' = Append(Below, NextNode(selected))
  /\ UNCHANGED <<control, path, selected>> /\ Search

Accept ==
  /\ Searching("try") /\ ~AtEnd /\ ~IsBase /\ Supports(Current, Top.target)
  /\ path' = path \cup {Top.class}
  /\ stack' = Append(Below, [Top EXCEPT !.kid = 1])
  /\ control' = "kids"
  /\ UNCHANGED selected /\ Search

CallKid ==
  /\ Searching("kids") /\ Top.kid <= Len(Current.kids)
  /\ stack' = Append(stack, [class    |-> Current.kids[Top.kid],
                             target   |-> ReadsFrom(Current, Top.kid, Top.target),
                             node     |-> 1,
                             kid      |-> 0,
                             snapshot |-> selected])
  /\ control' = "call"
  /\ UNCHANGED <<path, selected>> /\ Search

KidFound ==
  /\ Searching("yes")
  /\ stack' = Append(Below, [Top EXCEPT !.kid = @ + 1])
  /\ control' = "kids"
  /\ UNCHANGED <<path, selected>> /\ Search

\* Mutant: nothing is taken back.
RolledBackNothing == selected

\* Mutant: selected is cleared and not filled again.
RolledBackAll == <<>>

\* What selected becomes when an operand is not found.
RolledBack == Top.snapshot

\* Mutant: the class stays on the path.
KidFailedOnPath ==
  /\ Searching("no")
  /\ selected' = RolledBack
  /\ stack' = Append(Below, NextNode(RolledBack))
  /\ control' = "try"
  /\ UNCHANGED path /\ Search

\* What was selected for this e-node is taken back, and the next one is tried.
KidFailed ==
  /\ Searching("no")
  /\ selected' = RolledBack
  /\ path' = path \ {Top.class}
  /\ stack' = Append(Below, NextNode(RolledBack))
  /\ control' = "try"
  /\ Search

Complete ==
  /\ Searching("kids") /\ Top.kid > Len(Current.kids)
  /\ path' = path \ {Top.class}
  /\ selected' = Insert(Place)
  /\ Return("yes")
  /\ Search

Exhausted ==
  /\ Searching("try") /\ AtEnd
  /\ Return("no")
  /\ UNCHANGED <<path, selected>> /\ Search

SearchEnds ==
  /\ phase = "search" /\ stack = <<>>
  /\ phase' = IF control = "yes" THEN "convert" ELSE "none"
  /\ UNCHANGED <<graph, detection, search, output>>

-----------------------------------------------------------------------------
(* The conversion.                                                         *)

Converted == {pii[t].node : t \in DOMAIN pii}

Leaves == {n \in SelectedSet : At(graph, n).kids = <<>>}

Operands(n) ==
  LET kids == At(graph, n).kids IN [k \in DOMAIN kids |-> eclass_map[kids[k]]]

\* The buffers from which add_node may take that of n.
LineBuffers(n) ==
  LET en == At(graph, n) IN
  IF en.bufs = <<>> THEN {}
  ELSE IF en.bufs[1] # ANY THEN {en.bufs[1]}
  ELSE {pii[Operands(n)[k]].buffer : k \in DOMAIN en.kids}

\* It panics when there is none or there are several.
AddNode(n) ==
  IF \E b \in Buffers : LineBuffers(n) = {b}
  THEN /\ pii' = Append(pii, [node   |-> n,
                              buffer |-> CHOOSE b \in Buffers : LineBuffers(n) = {b},
                              rhs    |-> Operands(n)])
       /\ eclass_map' = [eclass_map EXCEPT ![n[1]] = Len(pii) + 1]
       /\ UNCHANGED phase
  ELSE /\ phase' = "panic"
       /\ UNCHANGED output

\* Both go over a HashMap, in any order.
ConvertLeaf(n) ==
  /\ phase = "convert" /\ n \in Leaves \ Converted
  /\ AddNode(n)
  /\ UNCHANGED <<graph, detection, search>>

\* Mutant: one operand is enough.
ReadySoon ==
  {n \in SelectedSet \ Converted : \E c \in KidSet(At(graph, n)) : eclass_map[c] # 0}

Ready ==
  {n \in SelectedSet \ Converted : \A c \in KidSet(At(graph, n)) : eclass_map[c] # 0}

ConvertNode(n) ==
  /\ phase = "convert" /\ Leaves \subseteq Converted
  /\ n \in Ready
  /\ AddNode(n)
  /\ UNCHANGED <<graph, detection, search>>

ConvertEnds ==
  /\ phase = "convert" /\ Leaves \subseteq Converted /\ Ready = {}
  /\ phase' = IF SelectedSet \subseteq Converted THEN "done" ELSE "stuck"
  /\ UNCHANGED <<graph, detection, search, output>>

Finished ==
  /\ phase \in {"done", "none", "stuck", "panic"}
  /\ UNCHANGED vars

Step ==
  \/ \E c \in work : Detect(c)
  \/ DetectEnds \/ Annotate
  \/ Refuse \/ Reuse \/ EnterLoop \/ Base \/ Skip \/ Accept
  \/ CallKid \/ KidFound \/ KidFailed \/ Complete \/ Exhausted \/ SearchEnds
  \/ \E n \in SelectedSet : ConvertLeaf(n) \/ ConvertNode(n)
  \/ ConvertEnds

Next == Step \/ Finished

Spec     == Init /\ [][Next]_vars
\* One thread, in which nothing blocks.
FairSpec == Spec /\ WF_vars(Step)

-----------------------------------------------------------------------------
(* Properties.                                                             *)

Frames(g) ==
  [class : Classes(g), target : Buffers, node : Nat, kid : Nat,
   snapshot : Seq(ENodes(g))]

Lines(g) == [node : ENodes(g), buffer : Buffers, rhs : Seq(Nat)]

\* Every variable has its type.
TypeOK ==
  /\ phase \in Phases /\ control \in Controls
  /\ work \subseteq Classes(graph) /\ constants \subseteq Classes(graph)
  /\ path \subseteq Classes(graph)
  /\ selected \in Seq(ENodes(graph))
  /\ stack \in Seq(Frames(graph))
  /\ pii \in Seq(Lines(graph))
  /\ eclass_map \in [Classes(graph) -> Nat]

\* In whatever order egg gives the classes, detect_constants finds the
\* classes with a term without an input, no more and no less.
ConstantsExact ==
  phase # "detect" => constants = Derivable(graph, graph.inputs)

\* annotate_constants panics for the constants that operations alone do not
\* make, and only for them; there is one among them whose instruction reads
\* less than its pattern does.
ConstantsHaveForms ==
  [][phase = "annotate" =>
       LET missing == constants \ Made(graph, {}) IN
       /\ phase' = "panic" <=> missing # {}
       /\ missing # {} =>
            \E c \in missing : \E i \in DOMAIN graph.nodes[c] :
              /\ graph.nodes[c][i].kind = "isa"
              /\ ~ReadsAll(graph, c, graph.nodes[c][i])]_vars

\* select2pii_graph never meets its "should not happen": what is selected can
\* be converted in some order, whatever was selected and taken back before.
NeverStuck == phase # "stuck"

\* The classes that can be had with the e-nodes of from, and in which buffers.
Available(g, from) ==
  LET Pairs == Classes(g) \X Buffers
      round[k \in 0 .. Cardinality(Pairs)] ==
        IF k = 0 THEN {}
        ELSE LET have == round[k - 1] IN
             have \cup
             {w \in Pairs : \E n \in from :
                LET en == At(g, n) IN
                /\ n[1] = w[1] /\ Supports(en, w[2])
                /\ \A j \in DOMAIN en.kids :
                     <<en.kids[j], ReadsFrom(en, j, w[2])>> \in have}
  IN  round[Cardinality(Pairs)]

\* A "yes" is worth something: the e-nodes selected by then, without those
\* taken back, compute the root in HBM from inputs and constants.
SelectionComputesRoot ==
  phase = "convert" => <<graph.root, HBM>> \in Available(graph, SelectedSet)

\* What the e-nodes selected for a class read to deliver it in a buffer.
Reads(w) ==
  UNION {LET en == At(graph, n) IN
         IF n[1] = w[1] /\ Supports(en, w[2])
         THEN {<<en.kids[k], ReadsFrom(en, k, w[2])>> : k \in DOMAIN en.kids}
         ELSE {}
         : n \in SelectedSet}

\* The classes the result needs, with the buffers from which they are read,
\* when each is computed by the e-nodes selected for it.
Wanted ==
  LET round[k \in 0 .. Len(selected)] ==
        IF k = 0 THEN {<<graph.root, HBM>>}
        ELSE LET have == round[k - 1] IN have \cup UNION {Reads(w) : w \in have}
  IN  round[Len(selected)]

\* No class has two e-nodes or is read from two buffers.
OneFormPerClass ==
  /\ \A m, n \in SelectedSet : m[1] = n[1] => m = n
  /\ \A v, w \in Wanted : v[1] = w[1] => v = w

\* Operands of a line are lines before it, and of the classes the e-node
\* names, whatever the order in which the conversion came across them.
LinesInOrder ==
  \A t \in DOMAIN pii : \A k \in DOMAIN pii[t].rhs :
    /\ pii[t].rhs[k] \in 1 .. t - 1
    /\ pii[pii[t].rhs[k]].node[1] = At(graph, pii[t].node).kids[k]

ReadsRight(t) ==
  \A k \in DOMAIN pii[t].rhs :
    pii[pii[t].rhs[k]].buffer = ReadsFrom(At(graph, pii[t].node), k, pii[t].buffer)

\* Then the graph is one the allocator reads rightly: no failed alternative
\* left a line behind, every line is used by a later one except the last, which is
\* the root in HBM, and every operand is in the buffer the instruction reads.
WellFormed ==
  phase \in {"done", "panic"} /\ selected # <<>> /\ OneFormPerClass =>
    /\ phase = "done"
    /\ \A t \in DOMAIN pii : ReadsRight(t)
    /\ \A t \in 1 .. Len(pii) - 1 :
         \E u \in t + 1 .. Len(pii) : \E k \in DOMAIN pii[u].rhs : pii[u].rhs[k] = t
    /\ pii[Len(pii)].node[1] = graph.root
    /\ pii[Len(pii)].buffer = HBM

\* The result of keeping only the e-nodes that can deliver their class in
\* the buffer that form gives it, from operands in those buffers.
Within(g, form) ==
  LET Fits(c, en) ==
        /\ Supports(en, form[c])
        /\ \A k \in DOMAIN en.kids : ReadsFrom(en, k, form[c]) = form[en.kids[k]]
  IN  [nodes |-> [c \in Classes(g) |->
         [i \in {j \in DOMAIN g.nodes[c] : Fits(c, g.nodes[c][j])} |->
            g.nodes[c][i]]]]

\* Backtracking and memoization lose nothing as long as one buffer per class
\* is enough: when the search gives up, no such extraction exists.
FindsOneBufferExtractions ==
  phase = "none" =>
    \A form \in [Classes(graph) -> Buffers] :
      form[graph.root] = HBM => graph.root \notin Derivable(Within(graph, form), {})

\* The search, cyclic as the e-graph may be, and the conversion come to an end.
Terminates == <>(phase \in {"done", "none", "stuck", "panic"})

(* What the code says of itself and does not keep.                         *)

\* README.md:18: the backend "will never generate invalid machine code": an
\* instruction's operands are in the buffers it reads.
OperandsInBuffer == \A t \in DOMAIN pii : ReadsRight(t)

=============================================================================
