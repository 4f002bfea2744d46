----------------------------- MODULE Allocation -----------------------------
(***************************************************************************)
(* The constraint satisfaction problem of memory allocation                *)
(* (cpp/malloc/src/constraint.cc, include/instructions.h, tensor.h): for a *)
(* graph g whose instructions run in the given order, which assignments    *)
(* addr of first addresses to tensors the solver may return.               *)
(***************************************************************************)
EXTENDS PiiGraph

\* When tensor t's instruction runs; instructions count from 1.
Position(order, t) == CHOOSE k \in 1 .. Len(order) : order[k] = t

UsePositions(g, order, t) == {Position(order, i) : i \in Uses(g, t)}

\* compute_live_range gives up where a tensor has no use, or its instruction
\* is not among the ordered ones: the process aborts.
NoLiveRange(g, order, t) ==
  LET ordered == {order[k] : k \in 1 .. Len(order)} IN
  \/ /\ TensorType(g, t) \in {"CONSTANT", "INTERMEDIATE"}
     /\ Uses(g, t) = {} \/ ~(Uses(g, t) \subseteq ordered)
  \/ TensorType(g, t) = "INTERMEDIATE" /\ t \notin ordered

\* The end of a live range: the last of the instants in S.
Latest(S) == CHOOSE n \in S : \A m \in S : m <= n

LiveFrom(g, order, t) ==
  IF TensorType(g, t) \in {"INPUT", "CONSTANT"} THEN 0
  ELSE IF TensorType(g, t) = "INTERMEDIATE" THEN Position(order, t)
  ELSE Len(order)

\* Mutant: instructions counted from 0, as the indices of the vector are.
LiveToIndex(g, order, t) ==
  IF TensorType(g, t) = "CONSTANT" THEN Latest(UsePositions(g, order, t)) - 1
  ELSE IF TensorType(g, t) = "INTERMEDIATE"
  THEN Latest({Position(order, t)} \cup UsePositions(g, order, t)) - 1
  ELSE Len(order)

LiveTo(g, order, t) ==
  IF TensorType(g, t) = "CONSTANT" THEN Latest(UsePositions(g, order, t))
  ELSE IF TensorType(g, t) = "INTERMEDIATE"
  THEN Latest({Position(order, t)} \cup UsePositions(g, order, t))
  ELSE Len(order)

\* Ranges that only touch do not overlap: a result may take the place of an
\* operand that is read for the last time.
RangesOverlap(g, order, t, u) ==
  /\ LiveFrom(g, order, u) < LiveTo(g, order, t)
  /\ LiveFrom(g, order, t) < LiveTo(g, order, u)

\* Mutant: any result may lie on any operand.
SharesWithAny(g, t, u) == u \in Operands(g, t) /\ u \in Instrs(g)

\* A slice lies in its operand, and a concatenation on both of its operands;
\* the code looks for this only between results of instructions.
SharesWith(g, t, u) ==
  /\ g[t].op \in {"slice", "concat"} /\ u \in Operands(g, t)
  /\ u \in Instrs(g)

Interfere(g, order, t, u) ==
  /\ t # u /\ g[t].buffer = g[u].buffer
  /\ RangesOverlap(g, order, t, u)
  /\ ~SharesWith(g, t, u) /\ ~SharesWith(g, u, t)

InterferenceGraph(g, order) ==
  {e \in Tensors(g) \X Tensors(g) : Interfere(g, order, e[1], e[2])}

\* No address belongs to both; addresses are of one dimension.
Separate(g, addr, t, u) ==
  \/ addr[t] + g[t].size <= addr[u]
  \/ addr[u] + g[u].size <= addr[t]

\* The last value of the first address of a tensor, at least 0.
LastOffset(g, t) ==
  IF g[t].size <= Capacity[g[t].buffer]
  THEN Capacity[g[t].buffer] - g[t].size
  ELSE 0

\* Every tensor is as large as its buffer at most.
AllFit(g) == \A t \in Tensors(g) : g[t].size <= Capacity[g[t].buffer]

\* Mutant: a slice lies where its operand begins.
PlacedAtStart(g, addr, t) ==
  LET x == g[t].rhs IN
  /\ g[t].op = "slice" => addr[t] = addr[x[1]]
  /\ g[t].op = "concat" => /\ addr[t] = addr[x[1]]
                           /\ addr[x[2]] = addr[x[1]] + g[x[1]].size
  /\ g[t].op = "inplace" => addr[t] = addr[x[1]]

\* Where the instruction that computes t says its operands and its result are.
PlacedByInstruction(g, addr, t) ==
  LET x == g[t].rhs IN
  /\ g[t].op = "slice" => addr[t] = addr[x[1]] + g[t].start
  /\ g[t].op = "concat" => /\ addr[t] = addr[x[1]]
                           /\ addr[x[2]] = addr[x[1]] + g[x[1]].size
  /\ g[t].op = "inplace" => addr[t] = addr[x[1]]

\* The constraint satisfaction problem, edges being the interference graph.
Solution(g, edges, addr) ==
  /\ addr \in [Tensors(g) -> Nat]
  /\ \A t \in Tensors(g) :
       /\ addr[t] \in 0 .. LastOffset(g, t)
       /\ g[t].offset # NoOffset => addr[t] = g[t].offset
       /\ PlacedByInstruction(g, addr, t)
  /\ \A e \in edges : Separate(g, addr, e[1], e[2])

\* The bounds of the first address of t before the search.
Low(g, t)  == IF g[t].offset # NoOffset THEN g[t].offset ELSE 0
High(g, t) == IF g[t].offset # NoOffset THEN g[t].offset ELSE LastOffset(g, t)

\* The assignments within these bounds, one tensor after the other.
Assignments(g) ==
  LET first[n \in 0 .. Len(g)] ==
        IF n = 0 THEN {<<>>}
        ELSE {Append(ad, a) : ad \in first[n - 1], a \in Low(g, n) .. High(g, n)}
  IN  first[Len(g)]

Solutions(g, order) ==
  LET edges == InterferenceGraph(g, order)
  IN  {ad \in Assignments(g) : Solution(g, edges, ad)}

\* Propagation alone refutes the problem: two interfering tensors fit neither
\* one before the other nor the other way round.
Refuted(g, order) ==
  \E e \in InterferenceGraph(g, order) :
    LET t == e[1] u == e[2] IN
    /\ Low(g, t) + g[t].size > High(g, u)
    /\ Low(g, u) + g[u].size > High(g, t)

=============================================================================
