---------------------------- MODULE SlowExtract ----------------------------
(***************************************************************************)
(* extract_slow: every tree of e-nodes of at most Limit e-nodes that       *)
(* computes the root, each turned into several PII graphs by merging equal *)
(* e-nodes one after the other.                                            *)
(*                                                                         *)
(* The trees are a pure function of the e-graph, Trees.  What is done with *)
(* a tree does not touch another one, so a behaviour follows one of them:  *)
(* get_edges reads its preorder back into parents and children, node by    *)
(* node; get_extractions merges equal leaves, then goes round the nodes    *)
(* and merges those whose children are done; each state of the children    *)
(* it kept is converted to a graph.                                        *)
(*                                                                         *)
(* The nodes of a tree are numbered from 1, and 0 is None.                 *)
(***************************************************************************)
EXTENDS EGraphs

CONSTANT Limit  \* SLOW_LIMIT_START to SLOW_LIMIT_CUTOFF

ASSUME LimitAssumption == Limit \in Nat

VARIABLES
  phase,
  graph,        \* egraph, with its constants annotated
  trees,        \* get_extraction_trees' answer, until one is picked
  tree,         \* the places of the e-nodes of one tree, in preorder
  cursor,       \* the node the loop is at
  stack,        \* of get_edges
  child,        \* child_map
  parent,       \* parent_map
  idx_map,      \* e-node -> the node that stands for it; the e-nodes of gvn_map
  processed,
  extractions,  \* the child maps that were kept
  line,         \* idx_map of the conversion, 0 when it is not in the map
  pii           \* lines of the graph of one of them

edges  == <<child, parent>>
gvn    == <<idx_map, processed, extractions>>
output == <<line, pii>>
vars   == <<phase, graph, trees, tree, cursor, stack, edges, gvn, output>>

Phases == {"pick", "edges", "leaves", "number", "choose", "convert", "done",
           "none", "panic"}

-----------------------------------------------------------------------------
(* get_extraction_trees.                                                   *)

\* multi_cartesian_product, each combination flattened.
Combinations(sets) ==
  LET upto[k \in 0 .. Len(sets)] ==
        IF k = 0 THEN {<<>>} ELSE UNION {{s \o t : t \in sets[k]} : s \in upto[k - 1]}
  IN  upto[Len(sets)]

\* Mutant: the e-node itself is counted twice.
ChildLimitLess(en, limit) == IF limit > Len(en.kids) THEN limit - Len(en.kids) - 1 ELSE 0

\* The other operands have a node each, and so has the e-node itself.
ChildLimit(en, limit) == limit - Len(en.kids)

\* The trees of at most n e-nodes under the i-th e-node of c, delivered in b,
\* when of is those of fewer e-nodes.
TreesUnder(of, g, n, c, i, b) ==
  LET en    == g.nodes[c][i]
      under == [k \in DOMAIN en.kids |->
                  of[ChildLimit(en, n)][<<en.kids[k], ReadsFrom(en, k, b)>>]]
  IN  IF ~Supports(en, b) \/ n < Len(en.kids) THEN {}
      ELSE {t \in {<< <<c, i>> >> \o ts : ts \in Combinations(under)} : Len(t) <= n}

\* An input in HBM is a tree; so is a constant, whose DetectedConst is the
\* last e-node of its class, so that the loop has seen the others.
Deliver(of, g, n, c, b) ==
  IF n = 0 THEN {}
  ELSE IF c \in g.inputs /\ b = HBM THEN {<< <<c, 1>> >>}
  ELSE UNION {TreesUnder(of, g, n, c, i, b) : i \in DOMAIN g.nodes[c]}

Trees(g, lim) ==
  LET of[n \in 0 .. lim] ==
        [w \in Classes(g) \X Buffers |-> Deliver(of, g, n, w[1], w[2])]
  IN  of[lim][<<g.root, HBM>>]

-----------------------------------------------------------------------------

Nodes   == DOMAIN tree
EN(i)   == At(graph, tree[i])
IsLeaf(i) == EN(i).kids = <<>>

\* extract_slow up to its loop.  detect_constants and annotate_constants are
\* FastExtract's, which shows what they find, and when the latter panics.
Init ==
  /\ graph \in {Annotated(g, Derivable(g, g.inputs)) :
                  g \in {h \in Graphs : WithoutForm(h) = {}}}
  /\ trees = Trees(graph, Limit)
  /\ phase = IF trees = {} THEN "none" ELSE "pick"
  /\ tree = <<>> /\ cursor = 1 /\ stack = <<>>
  /\ child = <<>> /\ parent = <<>> /\ idx_map = <<>>
  /\ processed = {} /\ extractions = <<>> /\ line = <<>> /\ pii = <<>>

\* Forgetting the other trees keeps equal states equal.
PickTree ==
  /\ phase = "pick"
  /\ \E t \in trees :
       /\ tree' = t
       /\ child' = [i \in DOMAIN t |-> <<>>]
       /\ parent' = [i \in DOMAIN t |-> 0]
  /\ phase' = "edges" /\ trees' = {}
  /\ UNCHANGED <<graph, cursor, stack, gvn, output>>

-----------------------------------------------------------------------------
(* get_edges.                                                              *)

Full(i, children) == Len(children[i]) = Len(EN(i).kids)

\* Mutant: one node is popped, full or not what is under it.
PoppedOnce(st, children) == SubSeq(st, 1, Len(st) - 1)

\* st without the nodes on top that have all their children.
Popped(st, children) ==
  SubSeq(st, 1, CHOOSE k \in 0 .. Len(st) :
                  /\ k # 0 => ~Full(st[k], children)
                  /\ \A j \in k + 1 .. Len(st) : Full(st[j], children))

\* The loop's body: the node is a child of the one on top.
Edge ==
  /\ phase = "edges" /\ cursor <= Len(tree)
  /\ LET top == IF stack = <<>> THEN 0 ELSE stack[Len(stack)] IN
     /\ parent' = [parent EXCEPT ![cursor] = top]
     /\ child' = IF top = 0 THEN child ELSE [child EXCEPT ![top] = Append(@, cursor)]
  /\ stack' = IF IsLeaf(cursor) THEN Popped(Append(stack, cursor), child')
              ELSE Append(stack, cursor)
  /\ cursor' = cursor + 1
  /\ UNCHANGED <<phase, graph, trees, tree, gvn, output>>

EdgesEnd ==
  /\ phase = "edges" /\ cursor > Len(tree)
  /\ phase' = "leaves" /\ cursor' = 1
  /\ UNCHANGED <<graph, trees, tree, stack, edges, gvn, output>>

-----------------------------------------------------------------------------
(* get_extractions.                                                        *)

\* Mutant: the first entry, whatever it is.
PositionFirst(s, i) == 1

\* The first entry of s that is i.
Position(s, i) == CHOOSE k \in DOMAIN s : s[k] = i /\ \A j \in 1 .. k - 1 : s[j] # i

\* Mutant: the node keeps its parent.
RedirectOneWay(i) ==
  /\ child' = [child EXCEPT ![parent[i]][Position(child[parent[i]], i)] = idx_map[tree[i]]]
  /\ UNCHANGED parent

\* The parent of i is given the node that stands for i's e-node.
Redirect(i) ==
  LET p == parent[i] IN
  /\ child' = [child EXCEPT ![p][Position(child[p], i)] = idx_map[tree[i]]]
  /\ parent' = [parent EXCEPT ![i] = 0]

IsNew(i) == tree[i] \notin DOMAIN idx_map

\* Mutant: the number of the e-node, as in gvn_map, and not its index.
InsertedNumber(map, key, i) ==
  [k \in DOMAIN map \cup {key} |-> IF k = key THEN Cardinality(DOMAIN map) ELSE map[k]]

Inserted(map, key, i) ==
  [k \in DOMAIN map \cup {key} |-> IF k = key THEN i ELSE map[k]]

\* Mutant: a duplicate is not marked.
DoneNew ==
  /\ processed' = IF IsNew(cursor) THEN processed \cup {cursor} ELSE processed
  /\ IF IsNew(cursor)
     THEN idx_map' = Inserted(idx_map, tree[cursor], cursor) /\ UNCHANGED edges
     ELSE /\ UNCHANGED idx_map
          /\ IF parent[cursor] # 0 THEN Redirect(cursor) ELSE UNCHANGED edges

\* The cursor's node is done; an equal e-node done before takes its place.
Done ==
  /\ processed' = processed \cup {cursor}
  /\ IF IsNew(cursor)
     THEN idx_map' = Inserted(idx_map, tree[cursor], cursor) /\ UNCHANGED edges
     ELSE /\ UNCHANGED idx_map
          /\ IF parent[cursor] # 0 THEN Redirect(cursor) ELSE UNCHANGED edges

\* Mutant: all nodes are taken for leaves.
LeafAny ==
  /\ phase = "leaves" /\ cursor <= Len(tree)
  /\ Done
  /\ cursor' = cursor + 1
  /\ UNCHANGED <<phase, graph, trees, tree, stack, extractions, output>>

Leaf ==
  /\ phase = "leaves" /\ cursor <= Len(tree)
  /\ IF IsLeaf(cursor) THEN Done ELSE UNCHANGED <<processed, idx_map, edges>>
  /\ cursor' = cursor + 1
  /\ UNCHANGED <<phase, graph, trees, tree, stack, extractions, output>>

LeavesEnd ==
  /\ phase = "leaves" /\ cursor > Len(tree)
  /\ phase' = "number" /\ cursor' = 1
  /\ extractions' = <<child>>
  /\ UNCHANGED <<graph, trees, tree, stack, edges, idx_map, processed, output>>

\* Mutant: a node is taken whatever has been done of its children.
IsReadyAtOnce(i) == i \notin processed

\* Mutant: a node waits for children of its own.
IsReadyOwn(i) ==
  i \notin processed /\ \A k \in DOMAIN child[i] : child[i][k] \in processed /\ parent[child[i][k]] = i

IsReady(i) == i \notin processed /\ \A k \in DOMAIN child[i] : child[i][k] \in processed

\* The body of the inner loop, which the outer one begins again at the first
\* node as long as one is left.
Number ==
  /\ phase = "number" /\ processed # Nodes
  /\ IF IsReady(cursor) THEN Done ELSE UNCHANGED <<processed, idx_map, edges>>
  /\ extractions' = IF edges' = edges THEN extractions ELSE Append(extractions, child')
  /\ cursor' = IF cursor = Len(tree) THEN 1 ELSE cursor + 1
  /\ UNCHANGED <<phase, graph, trees, tree, stack, output>>

NumberEnds ==
  /\ phase = "number" /\ processed = Nodes
  /\ phase' = "choose"
  /\ UNCHANGED <<graph, trees, tree, cursor, stack, edges, gvn, output>>

-----------------------------------------------------------------------------
(* extraction_to_piigraph.                                                 *)

\* The graphs are independent of each other: one of them is looked at.
PickExtraction ==
  /\ phase = "choose"
  /\ \E e \in DOMAIN extractions : cursor' = e
  /\ phase' = "convert"
  /\ stack' = <<1>>
  /\ line' = [i \in Nodes |-> 0]
  /\ UNCHANGED <<graph, trees, tree, edges, gvn, pii>>

Children(i) == extractions[cursor][i]

\* visited of dfs: what it is in, and what it has come out of.
Visited == {stack[k] : k \in DOMAIN stack} \cup {i \in Nodes : line[i] # 0}

\* The places of the children of i to which dfs has not been.
Unvisited(i) == {k \in DOMAIN Children(i) : Children(i)[k] \notin Visited}

\* dfs goes into the first child it has not visited.
Descend ==
  /\ phase = "convert" /\ stack # <<>>
  /\ LET top == stack[Len(stack)] IN
     \E k \in Unvisited(top) :
       /\ \A j \in Unvisited(top) : k <= j
       /\ stack' = Append(stack, Children(top)[k])
  /\ UNCHANGED <<phase, graph, trees, tree, cursor, edges, gvn, output>>

\* A child that has no line is passed over.
Rhs(i) ==
  LET upto[k \in 0 .. Len(Children(i))] ==
        IF k = 0 THEN <<>>
        ELSE IF line[Children(i)[k]] = 0 THEN upto[k - 1]
        ELSE Append(upto[k - 1], line[Children(i)[k]])
  IN  upto[Len(Children(i))]

\* add_node panics when there is none or there are several.
LineBuffers(i) ==
  IF EN(i).bufs[1] # ANY THEN {EN(i).bufs[1]}
  ELSE {pii[Rhs(i)[k]].buffer : k \in DOMAIN Rhs(i)}

\* dfs comes out of a node, which is the next line.
AddNode ==
  /\ phase = "convert" /\ stack # <<>>
  /\ LET i == stack[Len(stack)] IN
     /\ Unvisited(i) = {}
     /\ stack' = SubSeq(stack, 1, Len(stack) - 1)
     /\ IF \E b \in Buffers : LineBuffers(i) = {b}
        THEN /\ pii' = Append(pii, [node   |-> tree[i],
                                    buffer |-> CHOOSE b \in Buffers : LineBuffers(i) = {b},
                                    rhs    |-> Rhs(i)])
             /\ line' = [line EXCEPT ![i] = Len(pii) + 1]
             /\ UNCHANGED phase
        ELSE phase' = "panic" /\ UNCHANGED <<pii, line>>
  /\ UNCHANGED <<graph, trees, tree, cursor, edges, gvn>>

ConvertEnds ==
  /\ phase = "convert" /\ stack = <<>>
  /\ phase' = "done"
  /\ UNCHANGED <<graph, trees, tree, cursor, stack, edges, gvn, output>>

Finished ==
  /\ phase \in {"done", "none", "panic"}
  /\ UNCHANGED vars

Step ==
  \/ PickTree
  \/ Edge \/ EdgesEnd
  \/ Leaf \/ LeavesEnd \/ Number \/ NumberEnds
  \/ PickExtraction \/ Descend \/ AddNode \/ ConvertEnds

Next == Step \/ Finished

Spec     == Init /\ [][Next]_vars
\* One thread, in which nothing blocks.
FairSpec == Spec /\ WF_vars(Step)

-----------------------------------------------------------------------------
(* Properties.                                                             *)

HasEdges == phase \in {"leaves", "number", "choose", "convert", "done", "panic"}

\* Every variable has its type.
TypeOK ==
  /\ phase \in Phases
  /\ trees \subseteq Seq(ENodes(graph))
  /\ tree \in Seq(ENodes(graph)) /\ cursor \in Nat \ {0}
  /\ stack \in Seq(Nodes) /\ processed \subseteq Nodes
  /\ child \in Seq(Seq(Nodes)) /\ parent \in Seq(Nodes \cup {0})
  /\ DOMAIN idx_map \subseteq ENodes(graph)
  /\ \A n \in DOMAIN idx_map : idx_map[n] \in Nodes
  /\ extractions \in Seq(Seq(Seq(Nodes)))
  /\ line \in Seq(Nat)
  /\ pii \in Seq([node : ENodes(graph), buffer : Buffers, rhs : Seq(Nat)])

\* Of the known trees, each with the class and the buffer it delivers, those of
\* c in b.
TreesOf(known, c, b) == {w[3] : w \in {v \in known : v[1] = c /\ v[2] = b}}

\* The trees with n on top, delivered in b, of known trees of its operands.
OnTop(g, n, b, known) ==
  LET en == At(g, n) IN
  {<<n[1], b, <<n>> \o ts>> :
     ts \in Combinations([k \in DOMAIN en.kids |->
                            TreesOf(known, en.kids[k], ReadsFrom(en, k, b))])}

\* The inputs, and the trees of at most lim e-nodes on top of known ones.
Higher(g, lim, known) ==
  LET tops == {v \in ENodes(g) \X Buffers :
                 /\ Supports(At(g, v[1]), v[2])
                 /\ ~(v[1][1] \in g.inputs /\ v[2] = HBM)}
  IN  {<<c, HBM, << <<c, 1>> >> >> : c \in g.inputs}
      \cup {w \in UNION {OnTop(g, v[1], v[2], known) : v \in tops} : Len(w[3]) <= lim}

\* All trees of at most lim e-nodes, built from the leaves up.
AllTrees(g, lim) ==
  LET round[k \in 0 .. lim] ==
        IF k = 0 THEN {} ELSE Higher(g, lim, round[k - 1])
  IN  IF lim = 0 THEN {} ELSE TreesOf(round[lim], g.root, HBM)

\* What is taken off the limit on the way down is what the rest of the tree
\* needs at least: no tree within the limit is missed, round whatever cycle
\* of the e-graph it goes.
FindsEveryTree ==
  phase \in {"pick", "none"} => trees = AllTrees(graph, Limit)

\* A preorder is read back rightly, and merging keeps it so: each operand of
\* an e-node is a node of the class it names.
ChildrenAreOperands ==
  HasEdges => \A i \in Nodes :
    /\ Len(child[i]) = Len(EN(i).kids)
    /\ \A k \in DOMAIN child[i] : tree[child[i][k]][1] = EN(i).kids[k]

\* position(..).unwrap() never fails: a node that has a parent is among its
\* children, whatever was merged before.
ParentsKnowTheirChildren ==
  HasEdges => \A i \in Nodes :
    parent[i] # 0 => \E k \in DOMAIN child[parent[i]] : child[parent[i]][k] = i

\* The while loop ends: as long as a node is left, one of them has all its
\* children done.  (A merge may make a node wait for another one.)
SomeNodeIsReady ==
  phase = "number" /\ processed # Nodes => \E i \in Nodes : IsReady(i)

\* Each graph is complete: no operand was passed over because its line came
\* later, and the last line is the root.
GraphsComplete ==
  phase = "done" =>
    /\ \A t \in DOMAIN pii :
         LET en == At(graph, pii[t].node) IN
         /\ Len(pii[t].rhs) = Len(en.kids)
         /\ \A k \in DOMAIN pii[t].rhs : pii[pii[t].rhs[k]].node[1] = en.kids[k]
    /\ pii[Len(pii)].node[1] = graph.root

\* The buffer in which the tree needs each e-node that is not a leaf.
Target ==
  LET Users(i) == {u \in Nodes \X (1 .. Len(tree)) :
                     u[2] \in DOMAIN extractions[1][u[1]] /\ extractions[1][u[1]][u[2]] = i}
      at[i \in {j \in Nodes : ~IsLeaf(j)}] ==
        IF i = 1 THEN HBM
        ELSE LET u == CHOOSE u \in Users(i) : TRUE IN ReadsFrom(EN(u[1]), u[2], at[u[1]])
  IN  at

Converted == phase \in {"done", "panic"}

ReadsRight ==
  /\ phase # "panic"
  /\ \A t \in DOMAIN pii : \A k \in DOMAIN pii[t].rhs :
       pii[pii[t].rhs[k]].buffer = ReadsFrom(At(graph, pii[t].node), k, pii[t].buffer)

\* Equal leaves can be merged whatever their users: every tree gives at least
\* one graph whose instructions read their operands where these are.
FirstGraphReadsRight == Converted /\ cursor = 1 => ReadsRight

\* The same for every graph of a tree that needs no e-node in two buffers:
\* there, merging e-nodes with different trees under them is harmless.
OneBufferReadsRight ==
  Converted =>
    \/ ReadsRight
    \/ \E i, j \in DOMAIN Target : tree[i] = tree[j] /\ Target[i] # Target[j]

\* What is left of the tree in the end has every e-node once, but for the
\* root, which has no parent to redirect.  (A theorem, and in no run.)
LastGraphShares ==
  phase = "done" /\ cursor = Len(extractions) =>
    \A t, u \in 1 .. Len(pii) - 1 : pii[t].node = pii[u].node => t = u

\* The tree comes to its graphs.
Terminates == <>(phase \in {"done", "none", "panic"})

(* What the documentation says and the code does not keep.                 *)

\* README.md:18: the backend "will never generate invalid machine code".
EveryGraphReadsRight == Converted => ReadsRight

=============================================================================
