----------------------------- MODULE Scheduler -----------------------------
(***************************************************************************)
(* The topological ordering generator (cpp/malloc/src/scheduler.cc): a     *)
(* depth-first walk from the root that emits an instruction after its      *)
(* operands, the operands with the larger memory footprint first.  The     *)
(* recursion is the variable stack: one frame per call of dfs, with the    *)
(* candidates it has still to visit.                                       *)
(***************************************************************************)
EXTENDS PiiGraph, FiniteSets, Functions

CONSTANT INT64_MAX   \* a number no footprint reaches

ASSUME SchedulerAssumption == INT64_MAX \in Nat

VARIABLES pii,      \* the graph being scheduled
          stack,    \* the calls of dfs under way, innermost last
          visited,  \* instructions dfs was called for
          order     \* instructions in the order they will run

svars == <<pii, stack, visited, order>>

-----------------------------------------------------------------------------
(* The cost that orders the operands: extended Sethi-Ullman numbers.       *)

Mem(g, t, d) == IF g[t].buffer = d THEN g[t].size ELSE 0

\* The number goes through a variable of type int.
Narrow(n) == IF n = INT64_MAX THEN -1 ELSE n

Larger(a, b)  == IF a >= b THEN a ELSE b
Smaller(a, b) == IF a <= b THEN a ELSE b

\* What computing tensor t takes of buffer d, when the operands are computed
\* one after the other and the last one is the cheapest to have left.
Esun(g, d) ==
  LET esun[t \in Tensors(g)] ==
        IF g[t].op \in Declarations THEN 0
        ELSE LET mem == [k \in 1 .. Len(g[t].rhs) |-> Mem(g, g[t].rhs[k], d)]
                 sum == FoldFunction(+, 0, mem)
                 tau == [k \in DOMAIN mem |->
                           Narrow(esun[g[t].rhs[k]]) + sum - mem[k]]
             IN  Larger(Mem(g, t, d), FoldFunction(Smaller, INT64_MAX, tau))
  IN  esun

\* cost() divides by the size of the buffer and takes the largest quotient;
\* here all quotients are over the product of the sizes.
Scale(d) ==
  FoldFunctionOnSet(LAMBDA a, b : a * b, 1, Capacity, OnChip \ {d})

Cost(g, t) ==
  FoldFunctionOnSet(Larger, 0, [d \in OnChip |-> Esun(g, d)[t] * Scale(d)],
                    OnChip)

-----------------------------------------------------------------------------

\* Mutant: only the first operand is looked at.
CandidatesFirst(g, t, seen) ==
  {k \in 1 .. Len(g[t].rhs) : k = 1 /\ g[t].rhs[k] \in Instrs(g) \ seen}

\* The operands of t, by their places, that are results of instructions dfs
\* was not called for yet.
Candidates(g, t, seen) ==
  {k \in 1 .. Len(g[t].rhs) : g[t].rhs[k] \in Instrs(g) \ seen}

\* std::sort by descending cost, which may put equal costs in any order.
Sorted(g, t, places) ==
  {p \in [1 .. Cardinality(places) -> places] :
     /\ \A k \in places : \E i \in DOMAIN p : p[i] = k
     /\ \A i, j \in DOMAIN p :
          i < j => Cost(g, g[t].rhs[p[i]]) >= Cost(g, g[t].rhs[p[j]])}

\* A call of dfs has marked t as visited and sorted its candidates.
Frames(g, t, seen) ==
  {[instr |-> t, todo |-> [i \in DOMAIN p |-> g[t].rhs[p[i]]]] :
     p \in Sorted(g, t, Candidates(g, t, seen))}

Top  == stack[Len(stack)]
Rest == SubSeq(stack, 1, Len(stack) - 1)

\* topological: dfs is called for the root of graph g.
Start(g) ==
  /\ pii' = g
  /\ visited' = {Root(g)}
  /\ order' = <<>>
  /\ \E f \in Frames(g, Root(g), {Root(g)}) : stack' = <<f>>

\* The innermost call, with the candidate it looks at taken off its list.
Advanced == [Top EXCEPT !.todo = Tail(Top.todo)]

\* The next candidate has been visited since the candidates were collected.
Skip ==
  /\ stack # <<>> /\ Top.todo # <<>>
  /\ Head(Top.todo) \in visited
  /\ stack' = Append(Rest, Advanced)
  /\ UNCHANGED <<pii, visited, order>>

\* Mutant: dfs does not return at once from an instruction it was called for.
DescendAgain ==
  /\ stack # <<>> /\ Top.todo # <<>>
  /\ visited' = visited \cup {Head(Top.todo)}
  /\ \E f \in Frames(pii, Head(Top.todo), visited') :
       stack' = Append(Append(Rest, Advanced), f)
  /\ UNCHANGED <<pii, order>>

Descend ==
  /\ stack # <<>> /\ Top.todo # <<>>
  /\ Head(Top.todo) \notin visited
  /\ visited' = visited \cup {Head(Top.todo)}
  /\ \E f \in Frames(pii, Head(Top.todo), visited') :
       stack' = Append(Append(Rest, Advanced), f)
  /\ UNCHANGED <<pii, order>>

\* All operands are done: the instruction is next.
Emit ==
  /\ stack # <<>> /\ Top.todo = <<>>
  /\ order' = Append(order, Top.instr)
  /\ stack' = Rest
  /\ UNCHANGED <<pii, visited>>

ScheduleStep == Skip \/ Descend \/ Emit

-----------------------------------------------------------------------------

Ordered == {order[k] : k \in 1 .. Len(order)}

\* An instruction is ordered once, after the instructions that compute its
\* operands, wherever std::sort puts equal costs and whatever other branches
\* of the graph dfs has been through meanwhile.
TopologicalOrder ==
  \A j \in 1 .. Len(order) :
    /\ \A i \in 1 .. Len(order) : order[i] = order[j] => i = j
    /\ \A x \in Operands(pii, order[j]) \cap Instrs(pii) :
         \E i \in 1 .. j - 1 : order[i] = x

\* A set of instructions with the root and with all it needs of its members.
HasWhatRootNeeds(g, S) ==
  /\ Root(g) \in S
  /\ \A i \in S : Operands(g, i) \cap Instrs(g) \subseteq S

\* When dfs has returned from the root, the order holds the instructions the
\* root needs and no others: act_malloc.cc:45 takes any other length for a
\* graph with dead lines.
OrdersWhatRootNeeds ==
  stack = <<>> /\ order # <<>> =>
    /\ HasWhatRootNeeds(pii, Ordered)
    /\ \A S \in SUBSET Instrs(pii) :
         HasWhatRootNeeds(pii, S) => Ordered \subseteq S

=============================================================================
