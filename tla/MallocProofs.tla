---------------------------- MODULE MallocProofs ----------------------------
(***************************************************************************)
(* Proofs about Malloc and what it extends, for all graphs, buffers, costs *)
(* and numbers of calls.                                                   *)
(*                                                                         *)
(* Scheduler: dfs orders each instruction once and after its operands, and *)
(* orders what the root needs and nothing else.  These theorems are about  *)
(* the actions Start and ScheduleStep, for any module that takes them.     *)
(*                                                                         *)
(* KernelRun: a kernel whose instructions run in the order of dfs, at      *)
(* addresses that solve the constraint problem of Allocation, finds every  *)
(* operand unharmed.  The argument: an instruction writes its result's     *)
(* addresses only, and a tensor that was there before and is read later    *)
(* has a live range that overlaps the result's in more than an instant; so *)
(* the two interfere and are separate, unless one is a slice or a          *)
(* concatenation of the other, which the result of a machine instruction   *)
(* is not, and which a tensor computed before the result cannot be.        *)
(*                                                                         *)
(* Malloc: the inductive invariant joins the one of dfs and the one of a   *)
(* running kernel: between them stands that the constraints are stated     *)
(* only over a complete order, and that the addresses of the kernel solve  *)
(* them.                                                                   *)
(***************************************************************************)
EXTENDS Malloc, FiniteSetTheorems, SequenceTheorems, WellFoundedInduction,
        TLAPS

-----------------------------------------------------------------------------
(* Graphs.                                                                 *)

\* A set of numbers with an upper bound has a greatest element.
LEMMA GreatestElement ==
  ASSUME NEW n \in Nat, NEW S \in SUBSET (0 .. n), S # {}
  PROVE  \E m \in S : \A k \in S : k <= m
<1> DEFINE T == {n - k : k \in S}
<1>1. T \subseteq Nat /\ T # {}
  <2>1. \A k \in S : k \in 0 .. n
    OBVIOUS
  <2>2. \A k \in S : n - k \in Nat
    BY <2>1
  <2> QED
    BY <2>2
<1>2. PICK d \in T : \A y \in T : ~(<<y, d>> \in OpToRel(<, Nat))
  BY <1>1, NatLessThanWellFounded, WFMin
<1>3. \A y \in T : ~(y < d)
  BY <1>1, <1>2 DEF OpToRel
<1>4. PICK m \in S : d = n - m
  BY <1>2
<1>5. ASSUME NEW k \in S PROVE k <= m
  <2>1. k \in 0 .. n /\ m \in 0 .. n
    OBVIOUS
  <2>2. ~(n - k < n - m)
    BY <1>3, <1>4
  <2> QED
    BY <2>1, <2>2
<1> QED
  BY <1>5

\* What an allocator may rely on in a parsed graph: the operands of a line are
\* lines before it.
LEMMA GraphFacts ==
  ASSUME NEW g \in Graphs
  PROVE  /\ Len(g) \in Nat /\ Tensors(g) = 1 .. Len(g)
         /\ Instrs(g) \subseteq Tensors(g) /\ Instrs(g) # {}
         /\ \A t \in Tensors(g) :
              /\ ValidLine(g, t)
              /\ g[t].rhs \in Seq(Nat)
              /\ g[t].size \in Nat \ {0} /\ g[t].start \in Nat
              /\ Operands(g, t) \subseteq 1 .. t - 1
<1>1. ValidGraph(g)
  BY GraphAssumption
<1>2. Len(g) \in Nat
  BY <1>1 DEF ValidGraph
<1>3. ASSUME NEW t \in Tensors(g)
      PROVE  /\ ValidLine(g, t)
             /\ g[t].rhs \in Seq(Nat)
             /\ g[t].size \in Nat \ {0} /\ g[t].start \in Nat
             /\ Operands(g, t) \subseteq 1 .. t - 1
  <2>1. ValidLine(g, t)
    BY <1>1 DEF ValidGraph
  <2>2. t \in Nat
    BY <1>2 DEF Tensors
  <2>3. g[t].rhs \in Seq(1 .. t - 1) /\ g[t].size \in Nat \ {0} /\ g[t].start \in Nat
    BY <2>1 DEF ValidLine
  <2>4. g[t].rhs \in Seq(Nat)
    BY <2>2, <2>3
  <2>5. Operands(g, t) \subseteq 1 .. t - 1
    <3> DEFINE x == g[t].rhs
               earlier == 1 .. t - 1
    <3>1. x \in Seq(earlier)
      BY <2>3
    <3>2. Operands(g, t) = {x[k] : k \in 1 .. Len(x)}
      BY DEF Operands
    <3> HIDE DEF x, earlier
    <3>3. \A k \in 1 .. Len(x) : x[k] \in earlier
      BY <3>1
    <3>4. Operands(g, t) \subseteq earlier
      BY <3>2, <3>3
    <3> QED
      BY <3>4 DEF earlier
  <2> QED
    BY <2>1, <2>3, <2>4, <2>5
<1> QED
  BY <1>1, <1>2, <1>3 DEF ValidGraph, Tensors, Instrs

\* The root is an instruction, and the last one.
LEMMA RootIsLast ==
  ASSUME NEW g \in Graphs
  PROVE  Root(g) \in Instrs(g) /\ \A i \in Instrs(g) : i <= Root(g)
<1>1. Instrs(g) \in SUBSET (0 .. Len(g)) /\ Instrs(g) # {} /\ Len(g) \in Nat
  BY GraphFacts
<1>2. \E r \in Instrs(g) : \A i \in Instrs(g) : i <= r
  BY <1>1, GreatestElement
<1> QED
  BY <1>2 DEF Root

\* Nothing uses the result of the root.
LEMMA RootUnused ==
  ASSUME NEW g \in Graphs, NEW i \in Instrs(g)
  PROVE  Root(g) \notin Operands(g, i)
<1>1. i \in Nat /\ Root(g) \in Nat /\ i <= Root(g)
  BY RootIsLast, GraphFacts
<1>2. Operands(g, i) \subseteq 1 .. i - 1
  BY GraphFacts
<1> QED
  BY <1>1, <1>2

-----------------------------------------------------------------------------
(* Frames.                                                                 *)

\* The candidates of a call of dfs are the operands still to be visited, in
\* whatever order their costs put them.
LEMMA FrameFacts ==
  ASSUME NEW g \in Graphs, NEW t \in Instrs(g), NEW seen,
         NEW f \in Frames(g, t, seen)
  PROVE  /\ f \in [instr : Instrs(g), todo : Seq(Instrs(g))]
         /\ f.instr = t
         /\ {f.todo[k] : k \in 1 .. Len(f.todo)}
              = (Operands(g, t) \cap Instrs(g)) \ seen
<1> DEFINE c == Candidates(g, t, seen)
           x == g[t].rhs
<1>1. x \in Seq(Nat) /\ Len(x) \in Nat
  BY GraphFacts
<1>2. c \subseteq 1 .. Len(x) /\ c = {k \in 1 .. Len(x) : x[k] \in Instrs(g) \ seen}
  BY DEF Candidates
<1>3. Cardinality(c) \in Nat
  <2>1. IsFiniteSet(1 .. Len(x))
    BY <1>1, FS_Interval
  <2> QED
    BY <1>2, <2>1, FS_Subset, FS_CardinalityType
<1>4. PICK p \in Sorted(g, t, c) :
        f = [instr |-> t, todo |-> [i \in DOMAIN p |-> x[p[i]]]]
  BY DEF Frames
<1>5. p \in [1 .. Cardinality(c) -> c] /\ \A k \in c : \E i \in DOMAIN p : p[i] = k
  BY <1>4 DEF Sorted
<1> HIDE DEF c, x
<1>6. f.todo = [i \in 1 .. Cardinality(c) |-> x[p[i]]]
  BY <1>4, <1>5
<1>7. \A i \in 1 .. Cardinality(c) : x[p[i]] \in Instrs(g) \ seen /\ p[i] \in 1 .. Len(x)
  BY <1>2, <1>5
<1>8. f.todo \in Seq(Instrs(g)) /\ Len(f.todo) = Cardinality(c)
  BY <1>3, <1>6, <1>7
<1>9. Operands(g, t) = {x[k] : k \in 1 .. Len(x)}
  BY DEF Operands, x
<1>10. {f.todo[k] : k \in 1 .. Len(f.todo)} = (Operands(g, t) \cap Instrs(g)) \ seen
  <2>1. ASSUME NEW y \in (Operands(g, t) \cap Instrs(g)) \ seen
        PROVE  \E k \in 1 .. Len(f.todo) : f.todo[k] = y
    <3>1. PICK k \in 1 .. Len(x) : x[k] = y
      BY <1>9
    <3>2. k \in c
      BY <1>2, <2>1, <3>1
    <3>3. PICK i \in 1 .. Cardinality(c) : p[i] = k
      BY <1>5, <3>2
    <3> QED
      BY <1>6, <1>8, <3>1, <3>3
  <2>2. ASSUME NEW k \in 1 .. Len(f.todo)
        PROVE  f.todo[k] \in (Operands(g, t) \cap Instrs(g)) \ seen
    BY <1>6, <1>7, <1>8, <1>9
  <2> QED
    BY <2>1, <2>2
<1> QED
  BY <1>4, <1>8, <1>10

-----------------------------------------------------------------------------
(* The invariant of dfs.                                                   *)

Frame == [instr : Instrs(pii), todo : Seq(Instrs(pii))]

OnStack == {stack[k].instr : k \in 1 .. Len(stack)}

SchedType ==
  /\ pii \in Graphs
  /\ stack \in Seq(Frame)
  /\ order \in Seq(Instrs(pii))
  /\ visited \subseteq Instrs(pii)

\* An instruction dfs was called for is ordered, or its call is under way.
VisitedIsOrderedOrOnStack ==
  visited = Ordered \cup OnStack /\ Ordered \cap OnStack = {}

\* The calls under way are for earlier and earlier lines: no instruction on
\* the stack is an operand of a later frame.
StackDescends ==
  \A i, j \in 1 .. Len(stack) : i < j => stack[j].instr < stack[i].instr

\* A frame has yet to visit only operands of its instruction.
TodoAreOperands ==
  \A i \in 1 .. Len(stack) : \A k \in 1 .. Len(stack[i].todo) :
    stack[i].todo[k] \in Operands(pii, stack[i].instr)

\* Operand x of frame i is done, or to be visited, or being visited.
OperandCovered(i, x) ==
  \/ x \in Ordered
  \/ \E k \in 1 .. Len(stack[i].todo) : stack[i].todo[k] = x
  \/ i + 1 \in 1 .. Len(stack) /\ x = stack[i + 1].instr

OperandsCovered ==
  \A i \in 1 .. Len(stack) :
    \A x \in Operands(pii, stack[i].instr) \cap Instrs(pii) : OperandCovered(i, x)

\* The root's call is the outermost: the root is ordered last.
RootOutermost ==
  IF stack = <<>>
  THEN order # <<>> /\ order[Len(order)] = Root(pii)
  ELSE stack[1].instr = Root(pii)

\* dfs is called for nothing but what the root needs.
OnlyNeeded ==
  \A S \in SUBSET Instrs(pii) : HasWhatRootNeeds(pii, S) => visited \subseteq S

SchedInv ==
  /\ SchedType
  /\ VisitedIsOrderedOrOnStack
  /\ StackDescends
  /\ TodoAreOperands
  /\ OperandsCovered
  /\ RootOutermost
  /\ OnlyNeeded
  /\ TopologicalOrder

\* Every call of act_malloc starts dfs in a state of the invariant.
LEMMA StartInv == ASSUME NEW g \in Graphs, Start(g) PROVE SchedInv'
<1>1. PICK f \in Frames(g, Root(g), {Root(g)}) : stack' = <<f>>
  BY DEF Start
<1>2. pii' = g /\ visited' = {Root(g)} /\ order' = <<>>
  BY DEF Start
<1>3. Root(g) \in Instrs(g) /\ Root(g) \in Nat
  BY RootIsLast, GraphFacts
<1>4. /\ f \in [instr : Instrs(g), todo : Seq(Instrs(g))] /\ f.instr = Root(g)
      /\ {f.todo[k] : k \in 1 .. Len(f.todo)}
           = (Operands(g, Root(g)) \cap Instrs(g)) \ {Root(g)}
  BY <1>3, FrameFacts
<1>5. Len(stack') = 1 /\ stack'[1] = f /\ stack' # <<>> /\ Len(order') = 0
  BY <1>1, <1>2
<1>6. SchedType'
  BY <1>1, <1>2, <1>3, <1>4 DEF SchedType, Frame
<1>7. Ordered' = {} /\ OnStack' = {Root(g)}
  BY <1>4, <1>5 DEF Ordered, OnStack
<1>8. VisitedIsOrderedOrOnStack'
  BY <1>2, <1>7 DEF VisitedIsOrderedOrOnStack
<1>9. StackDescends'
  BY <1>5 DEF StackDescends
<1>10. TodoAreOperands'
  BY <1>2, <1>4, <1>5 DEF TodoAreOperands
<1>11. OperandsCovered'
  <2> SUFFICES ASSUME NEW x \in Operands(g, Root(g)) \cap Instrs(g)
               PROVE  \E k \in 1 .. Len(f.todo) : f.todo[k] = x
    BY <1>2, <1>4, <1>5 DEF OperandsCovered, OperandCovered
  <2>1. x # Root(g)
    BY <1>3, RootUnused
  <2> QED
    BY <1>4, <2>1
<1>12. RootOutermost'
  BY <1>2, <1>4, <1>5 DEF RootOutermost
<1>13. OnlyNeeded'
  BY <1>2 DEF OnlyNeeded, HasWhatRootNeeds
<1>14. TopologicalOrder'
  BY <1>5 DEF TopologicalOrder
<1> QED
  BY <1>6, <1>8, <1>9, <1>10, <1>11, <1>12, <1>13, <1>14 DEF SchedInv

\* The frames of a stack whose top has been replaced by f.
LEMMA ReplacedTop ==
  ASSUME SchedType, stack # <<>>,
         NEW f \in Frame
  PROVE  /\ Len(stack) \in Nat \ {0}
         /\ Top = stack[Len(stack)]
         /\ Top \in Frame
         /\ Len(Rest) = Len(stack) - 1
         /\ \A i \in 1 .. Len(stack) - 1 : Rest[i] = stack[i]
         /\ Rest \in Seq(Frame)
         /\ Append(Rest, f) \in Seq(Frame)
         /\ Len(Append(Rest, f)) = Len(stack)
         /\ \A i \in 1 .. Len(stack) - 1 : Append(Rest, f)[i] = stack[i]
         /\ Append(Rest, f)[Len(stack)] = f
<1>1. Len(stack) \in Nat \ {0} /\ \A i \in 1 .. Len(stack) : stack[i] \in Frame
  BY DEF SchedType
<1>2. Top = stack[Len(stack)] /\ Top \in Frame
  BY <1>1 DEF Top
<1>3. /\ Rest \in Seq(Frame) /\ Len(Rest) = Len(stack) - 1
      /\ \A i \in 1 .. Len(stack) - 1 : Rest[i] = stack[i]
  <2> DEFINE n == Len(stack) - 1
  <2>1. n \in Nat /\ \A i \in 1 .. n : stack[i] \in Frame
    BY <1>1
  <2> HIDE DEF n
  <2>2. /\ SubSeq(stack, 1, n) \in Seq(Frame)
        /\ Len(SubSeq(stack, 1, n)) = IF 1 <= n THEN n - 1 + 1 ELSE 0
        /\ \A i \in 1 .. n - 1 + 1 : SubSeq(stack, 1, n)[i] = stack[1 + i - 1]
    BY <2>1, SubSeqProperties
  <2>3. \A i \in 1 .. n : SubSeq(stack, 1, n)[i] = stack[i]
    BY <2>1, <2>2
  <2>4. Len(SubSeq(stack, 1, n)) = n
    BY <2>1, <2>2
  <2> QED
    BY <2>2, <2>3, <2>4 DEF Rest, n
<1>4. /\ Append(Rest, f) \in Seq(Frame) /\ Len(Append(Rest, f)) = Len(stack)
      /\ \A i \in 1 .. Len(stack) - 1 : Append(Rest, f)[i] = stack[i]
      /\ Append(Rest, f)[Len(stack)] = f
  BY <1>1, <1>3, AppendProperties
<1> QED
  BY <1>1, <1>2, <1>3, <1>4

\* The innermost call takes the next candidate off its list.
LEMMA AdvancedTop ==
  ASSUME SchedType, TodoAreOperands, stack # <<>>, Top.todo # <<>>
  PROVE  /\ Advanced \in Frame
         /\ Advanced.instr = Top.instr
         /\ Head(Top.todo) \in Operands(pii, Top.instr) \cap Instrs(pii)
         /\ \A k \in 1 .. Len(Advanced.todo) : Advanced.todo[k] \in Operands(pii, Top.instr)
         /\ \A k \in 1 .. Len(Top.todo) :
              \/ Top.todo[k] = Head(Top.todo)
              \/ \E l \in 1 .. Len(Advanced.todo) : Advanced.todo[l] = Top.todo[k]
<1>1. Top = stack[Len(stack)] /\ Len(stack) \in 1 .. Len(stack)
      /\ Top \in Frame
  BY DEF SchedType, Top
<1> DEFINE c == Top.todo
<1>2. c \in Seq(Instrs(pii)) /\ c # <<>>
  BY <1>1 DEF Frame
<1>3. \A k \in 1 .. Len(c) : c[k] \in Operands(pii, Top.instr)
  BY <1>1 DEF TodoAreOperands
<1>4. Advanced = [instr |-> Top.instr, todo |-> Tail(c)]
  BY <1>1 DEF Advanced, Frame
<1> HIDE DEF c
<1>5. /\ Len(c) \in Nat \ {0} /\ Head(c) = c[1] /\ c[1] \in Instrs(pii)
      /\ Tail(c) \in Seq(Instrs(pii)) /\ Len(Tail(c)) = Len(c) - 1
      /\ \A l \in 1 .. Len(c) - 1 : Tail(c)[l] = c[l + 1]
  BY <1>2
<1>6. Advanced \in Frame
      /\ Advanced.instr = Top.instr /\ Advanced.todo = Tail(c)
  BY <1>1, <1>4, <1>5 DEF Frame
<1>7. \A k \in 1 .. Len(Advanced.todo) : Advanced.todo[k] \in Operands(pii, Top.instr)
  BY <1>3, <1>5, <1>6
<1>8. ASSUME NEW k \in 1 .. Len(c)
      PROVE  c[k] = Head(c) \/ \E l \in 1 .. Len(Advanced.todo) : Advanced.todo[l] = c[k]
  <2>1. CASE k = 1
    BY <1>5, <2>1
  <2>2. CASE k # 1
    <3>1. k - 1 \in 1 .. Len(c) - 1
      BY <1>5, <2>2
    <3>2. Advanced.todo[k - 1] = c[k]
      BY <1>5, <1>6, <3>1
    <3> QED
      BY <1>5, <1>6, <3>1, <3>2
  <2> QED
    BY <2>1, <2>2
<1> QED
  BY <1>3, <1>5, <1>6, <1>7, <1>8 DEF c

\* Nothing under way is as early in the graph as an operand of the innermost
\* call's instruction.
LEMMA BelowStack ==
  ASSUME SchedType, StackDescends, stack # <<>>, NEW x \in Nat, x < Top.instr
  PROVE  x \notin OnStack
<1>1. /\ Len(stack) \in Nat \ {0} /\ Top = stack[Len(stack)]
      /\ \A i \in 1 .. Len(stack) : stack[i].instr \in Nat
  <2>1. Instrs(pii) \subseteq Nat
    BY GraphFacts DEF SchedType
  <2>2. Len(stack) \in Nat \ {0} /\ \A i \in 1 .. Len(stack) : stack[i] \in Frame
    BY DEF SchedType
  <2> QED
    BY <2>1, <2>2 DEF Top, Frame
<1> SUFFICES ASSUME NEW k \in 1 .. Len(stack), stack[k].instr = x PROVE FALSE
  BY DEF OnStack
<1>2. k = Len(stack) \/ Top.instr < stack[k].instr
  BY <1>1 DEF StackDescends
<1> QED
  BY <1>1, <1>2

-----------------------------------------------------------------------------
(* The steps of dfs.                                                       *)

\* A candidate visited in the meantime is ordered: it is not under way.
LEMMA SkipInv == ASSUME SchedInv, Skip PROVE SchedInv'
<1> DEFINE n == Len(stack)
           h == Head(Top.todo)
<1>1. /\ stack # <<>> /\ Top.todo # <<>> /\ h \in visited
      /\ stack' = Append(Rest, Advanced)
      /\ pii' = pii /\ visited' = visited /\ order' = order
  BY DEF Skip
<1>2. SchedType /\ TodoAreOperands /\ StackDescends
  BY DEF SchedInv
<1>3. /\ Advanced \in Frame /\ Advanced.instr = Top.instr
      /\ h \in Operands(pii, Top.instr) \cap Instrs(pii)
      /\ \A k \in 1 .. Len(Advanced.todo) : Advanced.todo[k] \in Operands(pii, Top.instr)
      /\ \A k \in 1 .. Len(Top.todo) :
           \/ Top.todo[k] = h
           \/ \E l \in 1 .. Len(Advanced.todo) : Advanced.todo[l] = Top.todo[k]
  BY <1>1, <1>2, AdvancedTop
<1>4. /\ n \in Nat \ {0} /\ Top = stack[n] /\ Top \in Frame
      /\ stack' \in Seq(Frame) /\ Len(stack') = n
      /\ \A i \in 1 .. n - 1 : stack'[i] = stack[i]
      /\ stack'[n] = Advanced
  BY <1>1, <1>2, <1>3, ReplacedTop
<1> HIDE DEF n, h
<1>5. n \in 1 .. n /\ stack' # <<>> /\ (\A i \in 1 .. n : i = n \/ i \in 1 .. n - 1)
  BY <1>4
<1>6. \A i \in 1 .. n : stack'[i].instr = stack[i].instr
  BY <1>3, <1>4, <1>5
<1>7. SchedType'
  BY <1>1, <1>2, <1>4 DEF SchedType, Frame
<1>8. OnStack' = OnStack /\ Ordered' = Ordered
  BY <1>1, <1>4, <1>6 DEF OnStack, Ordered, n
<1>9. VisitedIsOrderedOrOnStack'
  BY <1>1, <1>8 DEF SchedInv, VisitedIsOrderedOrOnStack
<1>10. StackDescends'
  BY <1>4, <1>6 DEF SchedInv, StackDescends, n
<1>11. TodoAreOperands'
  <2> SUFFICES ASSUME NEW i \in 1 .. n, NEW k \in 1 .. Len(stack'[i].todo)
               PROVE  stack'[i].todo[k] \in Operands(pii, stack[i].instr)
    BY <1>1, <1>4, <1>6 DEF TodoAreOperands
  <2>1. CASE i = n
    BY <1>3, <1>4, <2>1
  <2>2. CASE i # n
    BY <1>2, <1>4, <1>5, <2>2 DEF TodoAreOperands, n
  <2> QED
    BY <2>1, <2>2
<1>12. h \in Ordered
  <2>1. h \in Nat /\ h < Top.instr
    BY <1>2, <1>3, <1>4, GraphFacts DEF SchedType, Frame
  <2>2. h \notin OnStack
    BY <1>1, <1>2, <2>1, BelowStack
  <2> QED
    BY <1>1, <2>2 DEF SchedInv, VisitedIsOrderedOrOnStack
<1>13. OperandsCovered'
  <2> SUFFICES ASSUME NEW i \in 1 .. n,
                      NEW x \in Operands(pii, stack[i].instr) \cap Instrs(pii)
               PROVE  OperandCovered(i, x)'
    BY <1>1, <1>4, <1>6 DEF OperandsCovered
  <2>1. OperandCovered(i, x)
    BY DEF SchedInv, OperandsCovered, n
  <2>2. CASE i = n
    <3>1. x \in Ordered \/ \E k \in 1 .. Len(Top.todo) : Top.todo[k] = x
      BY <1>4, <2>1, <2>2 DEF OperandCovered, n
    <3>2. x \in Ordered' \/ \E l \in 1 .. Len(Advanced.todo) : Advanced.todo[l] = x
      BY <1>3, <1>8, <1>12, <3>1
    <3> QED
      BY <1>4, <2>2, <3>2 DEF OperandCovered
  <2>3. CASE i # n
    <3>1. i \in 1 .. n - 1 /\ stack'[i] = stack[i]
      BY <1>4, <1>5, <2>3
    <3>2. i + 1 \in 1 .. n => stack'[i + 1].instr = stack[i + 1].instr
      BY <1>6
    <3> QED
      BY <1>4, <1>8, <2>1, <3>1, <3>2 DEF OperandCovered, n
  <2> QED
    BY <2>2, <2>3
<1>14. RootOutermost'
  <2>1. 1 \in 1 .. n
    BY <1>4
  <2> QED
    BY <1>1, <1>5, <1>6, <2>1 DEF SchedInv, RootOutermost
<1>15. OnlyNeeded' /\ TopologicalOrder'
  BY <1>1 DEF SchedInv, OnlyNeeded, TopologicalOrder
<1> QED
  BY <1>7, <1>9, <1>10, <1>11, <1>13, <1>14, <1>15 DEF SchedInv

\* A new call: the operands of its instruction that are not its candidates
\* have been visited, and being earlier lines than all under way, are ordered.
LEMMA DescendInv == ASSUME SchedInv, Descend PROVE SchedInv'
<1> DEFINE n == Len(stack)
           h == Head(Top.todo)
           R == Append(Rest, Advanced)
<1>1. /\ stack # <<>> /\ Top.todo # <<>> /\ h \notin visited
      /\ visited' = visited \cup {h}
      /\ pii' = pii /\ order' = order
  BY DEF Descend
<1>2. PICK f \in Frames(pii, h, visited') : stack' = Append(R, f)
  BY DEF Descend
<1>3. SchedType /\ TodoAreOperands /\ StackDescends
  BY DEF SchedInv
<1>4. /\ Advanced \in Frame /\ Advanced.instr = Top.instr
      /\ h \in Operands(pii, Top.instr) \cap Instrs(pii)
      /\ \A k \in 1 .. Len(Advanced.todo) : Advanced.todo[k] \in Operands(pii, Top.instr)
      /\ \A k \in 1 .. Len(Top.todo) :
           \/ Top.todo[k] = h
           \/ \E l \in 1 .. Len(Advanced.todo) : Advanced.todo[l] = Top.todo[k]
  BY <1>1, <1>3, AdvancedTop
<1>5. /\ n \in Nat \ {0} /\ Top = stack[n] /\ Top \in Frame
      /\ R \in Seq(Frame) /\ Len(R) = n
      /\ \A i \in 1 .. n - 1 : R[i] = stack[i]
      /\ R[n] = Advanced
  BY <1>1, <1>3, <1>4, ReplacedTop
<1>6. /\ f \in Frame /\ f.instr = h
      /\ {f.todo[k] : k \in 1 .. Len(f.todo)} = (Operands(pii, h) \cap Instrs(pii)) \ visited'
  BY <1>2, <1>3, <1>4, FrameFacts DEF SchedType, Frame
<1> HIDE DEF n, h, R
<1>7. /\ stack' \in Seq(Frame) /\ Len(stack') = n + 1
      /\ \A i \in 1 .. n : stack'[i] = R[i]
      /\ stack'[n + 1] = f
  BY <1>2, <1>5, <1>6, AppendProperties
<1>8. n \in 1 .. n /\ (\A i \in 1 .. n : i = n \/ i \in 1 .. n - 1)
      /\ (\A i \in 1 .. n + 1 : i = n + 1 \/ i \in 1 .. n)
  BY <1>5
<1>9. \A i \in 1 .. n : stack'[i].instr = stack[i].instr
  BY <1>4, <1>5, <1>7, <1>8
<1>10. /\ Top.instr \in Instrs(pii) /\ Top.instr \in Nat /\ h \in Nat /\ h < Top.instr
       /\ Operands(pii, h) \subseteq 1 .. h - 1
  <2>1. Top.instr \in Instrs(pii) /\ h \in Instrs(pii)
    BY <1>4, <1>5 DEF Frame
  <2>2. Top.instr \in Nat /\ h \in Nat
        /\ Operands(pii, h) \subseteq 1 .. h - 1
        /\ Operands(pii, Top.instr) \subseteq 1 .. Top.instr - 1
    BY <1>3, <2>1, GraphFacts DEF SchedType
  <2> QED
    BY <1>4, <2>1, <2>2
<1>11. SchedType'
  BY <1>1, <1>3, <1>4, <1>7 DEF SchedType, Frame
<1>12. OnStack' = OnStack \cup {h} /\ Ordered' = Ordered
  <2>1. Ordered' = Ordered
    BY <1>1 DEF Ordered
  <2>2. OnStack' \subseteq OnStack \cup {h}
    <3> SUFFICES ASSUME NEW i \in 1 .. n + 1
                 PROVE  stack'[i].instr \in OnStack \cup {h}
      BY <1>7 DEF OnStack
    <3> QED
      BY <1>6, <1>7, <1>8, <1>9 DEF OnStack, n
  <2>3. OnStack \cup {h} \subseteq OnStack'
    <3>1. \A i \in 1 .. n : i \in 1 .. Len(stack')
      BY <1>5, <1>7
    <3>2. n + 1 \in 1 .. Len(stack')
      BY <1>5, <1>7
    <3>3. h \in OnStack'
      BY <1>6, <1>7, <3>2 DEF OnStack
    <3>4. \A i \in 1 .. n : stack[i].instr \in OnStack'
      BY <1>9, <3>1 DEF OnStack
    <3> QED
      BY <3>3, <3>4 DEF OnStack, n
  <2> QED
    BY <2>1, <2>2, <2>3
<1>13. VisitedIsOrderedOrOnStack'
  BY <1>1, <1>12 DEF SchedInv, VisitedIsOrderedOrOnStack
<1>14. StackDescends'
  <2> SUFFICES ASSUME NEW i \in 1 .. n + 1, NEW j \in 1 .. n + 1, i < j
               PROVE  stack'[j].instr < stack'[i].instr
    BY <1>7 DEF StackDescends
  <2>1. i \in 1 .. n
    BY <1>5
  <2>2. CASE j \in 1 .. n
    BY <1>3, <1>9, <2>1, <2>2 DEF StackDescends, n
  <2>3. CASE j = n + 1
    <3>1. i = n \/ Top.instr < stack[i].instr
      BY <1>3, <1>5, <1>8, <2>1 DEF StackDescends, n
    <3>2. stack[i].instr \in Nat
      <4>1. stack[i] \in Frame
        BY <1>3, <2>1 DEF SchedType, n
      <4> QED
        BY <1>3, <4>1, GraphFacts DEF Frame, SchedType
    <3>3. h < stack[i].instr
      BY <1>5, <1>10, <3>1, <3>2
    <3> QED
      BY <1>6, <1>7, <1>9, <2>1, <2>3, <3>3
  <2> QED
    BY <1>8, <2>2, <2>3
<1>15. TodoAreOperands'
  <2> SUFFICES ASSUME NEW i \in 1 .. n + 1, NEW k \in 1 .. Len(stack'[i].todo)
               PROVE  stack'[i].todo[k] \in Operands(pii, stack'[i].instr)
    BY <1>1, <1>7 DEF TodoAreOperands
  <2>1. CASE i = n + 1
    BY <1>6, <1>7, <2>1
  <2>2. CASE i = n
    BY <1>4, <1>5, <1>7, <1>8, <2>2
  <2>3. CASE i \in 1 .. n - 1
    BY <1>3, <1>5, <1>7, <1>8, <2>3 DEF TodoAreOperands, n
  <2> QED
    BY <1>8, <2>1, <2>2, <2>3
<1>16. OperandsCovered'
  <2> SUFFICES ASSUME NEW i \in 1 .. n + 1,
                      NEW x \in Operands(pii, stack'[i].instr) \cap Instrs(pii)
               PROVE  OperandCovered(i, x)'
    BY <1>1, <1>7 DEF OperandsCovered
  <2>1. CASE i = n + 1
    <3>1. x \in Nat /\ x < h /\ x < Top.instr /\ x \in Operands(pii, h)
      BY <1>6, <1>7, <1>10, <2>1
    <3>2. x \notin OnStack
      BY <1>1, <1>3, <3>1, BelowStack
    <3>3. CASE x \in visited'
      <4>1. x \in Ordered
        BY <1>1, <1>10, <3>1, <3>2, <3>3 DEF SchedInv, VisitedIsOrderedOrOnStack
      <4> QED
        BY <1>12, <4>1 DEF OperandCovered
    <3>4. CASE x \notin visited'
      BY <1>6, <1>7, <2>1, <3>1, <3>4 DEF OperandCovered
    <3> QED
      BY <3>3, <3>4
  <2>2. CASE i \in 1 .. n
    <3>1. OperandCovered(i, x)
      BY <1>9, <2>2 DEF SchedInv, OperandsCovered, n
    <3>2. i + 1 \in 1 .. Len(stack')
      BY <1>5, <1>7, <2>2
    <3>3. CASE i = n
      <4>1. x \in Ordered \/ \E k \in 1 .. Len(Top.todo) : Top.todo[k] = x
        BY <1>5, <3>1, <3>3 DEF OperandCovered, n
      <4>2. \/ x \in Ordered' \/ x = h
            \/ \E l \in 1 .. Len(Advanced.todo) : Advanced.todo[l] = x
        BY <1>4, <1>12, <4>1
      <4>3. stack'[i] = Advanced /\ stack'[i + 1].instr = h
        BY <1>5, <1>6, <1>7, <1>8, <3>3
      <4> QED
        BY <3>2, <4>2, <4>3 DEF OperandCovered
    <3>4. CASE i # n
      <4>1. i \in 1 .. n - 1 /\ stack'[i] = stack[i]
        BY <1>5, <1>7, <1>8, <2>2, <3>4
      <4>2. i + 1 \in 1 .. n => stack'[i + 1].instr = stack[i + 1].instr
        BY <1>9
      <4> QED
        BY <1>12, <3>1, <3>2, <4>1, <4>2 DEF OperandCovered, n
    <3> QED
      BY <3>3, <3>4
  <2> QED
    BY <1>8, <2>1, <2>2
<1>17. RootOutermost'
  <2>1. 1 \in 1 .. n /\ stack' # <<>>
    BY <1>5, <1>7
  <2> QED
    BY <1>1, <1>9, <2>1 DEF SchedInv, RootOutermost
<1>18. OnlyNeeded'
  <2> SUFFICES ASSUME NEW S \in SUBSET Instrs(pii), HasWhatRootNeeds(pii, S)
               PROVE  visited' \subseteq S
    BY <1>1 DEF OnlyNeeded
  <2>1. visited \subseteq S
    BY DEF SchedInv, OnlyNeeded
  <2>2. Top.instr \in visited
    BY <1>5, <1>8 DEF SchedInv, VisitedIsOrderedOrOnStack, OnStack, n
  <2>3. h \in S
    BY <1>4, <2>1, <2>2 DEF HasWhatRootNeeds
  <2> QED
    BY <1>1, <2>1, <2>3
<1>19. TopologicalOrder'
  BY <1>1 DEF SchedInv, TopologicalOrder
<1> QED
  BY <1>11, <1>13, <1>14, <1>15, <1>16, <1>17, <1>18, <1>19 DEF SchedInv

\* The innermost call ends: its instruction is ordered after its operands.
LEMMA EmitInv == ASSUME SchedInv, Emit PROVE SchedInv'
<1> DEFINE n == Len(stack)
           t == Top.instr
<1>1. /\ stack # <<>> /\ Top.todo = <<>>
      /\ order' = Append(order, t) /\ stack' = Rest
      /\ pii' = pii /\ visited' = visited
  BY DEF Emit
<1>2. SchedType /\ TodoAreOperands /\ StackDescends
  BY DEF SchedInv
<1>3. n \in Nat \ {0} /\ n \in 1 .. n /\ Top = stack[n] /\ Top \in Frame
  BY <1>1, <1>2 DEF SchedType, Top
<1>4. /\ stack' \in Seq(Frame) /\ Len(stack') = n - 1
      /\ \A i \in 1 .. n - 1 : stack'[i] = stack[i]
  BY <1>1, <1>2, <1>3, ReplacedTop
<1>5. t \in Instrs(pii)
  BY <1>3 DEF Frame
<1> HIDE DEF n, t
<1>6. /\ order \in Seq(Instrs(pii)) /\ Len(order) \in Nat
      /\ order' \in Seq(Instrs(pii)) /\ Len(order') = Len(order) + 1
      /\ \A k \in 1 .. Len(order) : order'[k] = order[k]
      /\ order'[Len(order) + 1] = t
  BY <1>1, <1>2, <1>5, AppendProperties DEF SchedType
<1>7. /\ \A i \in 1 .. n : i = n \/ i \in 1 .. n - 1
      /\ \A i \in 1 .. n - 1 : i \in 1 .. n
      /\ \A k \in 1 .. Len(order') : k = Len(order) + 1 \/ k \in 1 .. Len(order)
      /\ \A k \in 1 .. Len(order) : k \in 1 .. Len(order')
      /\ Len(order') \in 1 .. Len(order')
  BY <1>3, <1>6
<1>8. SchedType'
  BY <1>1, <1>2, <1>4, <1>6 DEF SchedType, Frame
<1>9. Ordered' = Ordered \cup {t}
  BY <1>6, <1>7 DEF Ordered
<1>10. OnStack = OnStack' \cup {t}
  BY <1>3, <1>4, <1>7 DEF OnStack, n, t
<1>11. t \notin OnStack'
  <2>1. t \in Nat
    BY <1>2, <1>5, GraphFacts DEF SchedType
  <2>2. \A i \in 1 .. n - 1 : t < stack[i].instr
    BY <1>2, <1>3, <1>7 DEF StackDescends, n, t
  <2>3. \A i \in 1 .. n - 1 : stack[i].instr # t
    BY <2>1, <2>2
  <2> QED
    BY <1>4, <2>3 DEF OnStack
<1>12. t \notin Ordered
  BY <1>10 DEF SchedInv, VisitedIsOrderedOrOnStack
<1>13. VisitedIsOrderedOrOnStack'
  BY <1>1, <1>9, <1>10, <1>11 DEF SchedInv, VisitedIsOrderedOrOnStack
<1>14. StackDescends'
  BY <1>2, <1>4, <1>7 DEF StackDescends, n
<1>15. TodoAreOperands'
  BY <1>1, <1>2, <1>4, <1>7 DEF TodoAreOperands, n
<1>16. OperandsCovered'
  <2> SUFFICES ASSUME NEW i \in 1 .. n - 1,
                      NEW x \in Operands(pii, stack[i].instr) \cap Instrs(pii)
               PROVE  OperandCovered(i, x)'
    BY <1>1, <1>4 DEF OperandsCovered
  <2>1. OperandCovered(i, x)
    BY <1>7 DEF SchedInv, OperandsCovered, n
  <2>2. i + 1 \in 1 .. n - 1 \/ i + 1 = n
    BY <1>3
  <2>3. CASE i + 1 = n
    BY <1>3, <1>4, <1>9, <2>1, <2>3 DEF OperandCovered, n, t
  <2>4. CASE i + 1 \in 1 .. n - 1
    BY <1>4, <1>9, <2>1, <2>4 DEF OperandCovered, n
  <2> QED
    BY <2>2, <2>3, <2>4
<1>17. RootOutermost'
  <2>1. CASE n = 1
    <3>1. stack' = <<>>
      BY <1>4, <2>1, EmptySeq
    <3>2. t = Root(pii)
      BY <1>1, <1>3, <2>1 DEF SchedInv, RootOutermost, t
    <3>3. order' # <<>> /\ order'[Len(order')] = t
      BY <1>6
    <3> QED
      BY <1>1, <3>1, <3>2, <3>3 DEF RootOutermost
  <2>2. CASE n # 1
    <3>1. 1 \in 1 .. n - 1 /\ stack' # <<>>
      BY <1>3, <1>4, <2>2
    <3> QED
      BY <1>1, <1>4, <3>1 DEF SchedInv, RootOutermost
  <2> QED
    BY <2>1, <2>2
<1>18. OnlyNeeded'
  BY <1>1 DEF SchedInv, OnlyNeeded
<1>19. \A x \in Operands(pii, t) \cap Instrs(pii) : x \in Ordered
  <2>1. n + 1 \notin 1 .. n /\ 1 .. Len(Top.todo) = {}
    BY <1>1, <1>3
  <2>2. \A x \in Operands(pii, t) \cap Instrs(pii) : OperandCovered(n, x)
    BY <1>3 DEF SchedInv, OperandsCovered, n, t
  <2> QED
    BY <1>3, <2>1, <2>2 DEF OperandCovered, n
<1>20. TopologicalOrder'
  <2>1. TopologicalOrder
    BY DEF SchedInv
  <2>2. ASSUME NEW j \in 1 .. Len(order'), NEW i \in 1 .. Len(order'),
               order'[i] = order'[j]
        PROVE  i = j
    <3>1. \A k \in 1 .. Len(order) : order'[k] # t
      BY <1>6, <1>12 DEF Ordered
    <3>2. CASE i \in 1 .. Len(order) /\ j \in 1 .. Len(order)
      BY <1>6, <2>1, <2>2, <3>2 DEF TopologicalOrder
    <3>3. CASE i = Len(order) + 1 \/ j = Len(order) + 1
      BY <1>6, <1>7, <2>2, <3>1, <3>3
    <3> QED
      BY <1>7, <3>2, <3>3
  <2>3. ASSUME NEW j \in 1 .. Len(order'),
               NEW x \in Operands(pii, order'[j]) \cap Instrs(pii)
        PROVE  \E i \in 1 .. j - 1 : order'[i] = x
    <3>1. CASE j = Len(order) + 1
      <4>1. x \in Ordered
        BY <1>6, <1>19, <3>1
      <4>2. PICK i \in 1 .. Len(order) : order[i] = x
        BY <4>1 DEF Ordered
      <4> QED
        BY <1>6, <3>1, <4>2
    <3>2. CASE j \in 1 .. Len(order)
      <4>1. PICK i \in 1 .. j - 1 : order[i] = x
        BY <1>6, <2>1, <3>2 DEF TopologicalOrder
      <4>2. i \in 1 .. Len(order)
        BY <1>6, <3>2
      <4> QED
        BY <1>6, <4>1, <4>2
    <3> QED
      BY <1>7, <3>1, <3>2
  <2> QED
    BY <1>1, <2>2, <2>3 DEF TopologicalOrder
<1> QED
  BY <1>8, <1>13, <1>14, <1>15, <1>16, <1>17, <1>18, <1>20 DEF SchedInv

\* dfs keeps its invariant, and so does whatever leaves its variables alone.
LEMMA ScheduleStepInv ==
  ASSUME SchedInv, ScheduleStep \/ UNCHANGED svars PROVE SchedInv'
<1>1. CASE UNCHANGED svars
  <2>1. pii' = pii /\ stack' = stack /\ visited' = visited /\ order' = order
    BY <1>1 DEF svars
  <2>2. SchedType' /\ VisitedIsOrderedOrOnStack'
    BY <2>1 DEF SchedInv, SchedType, Frame, VisitedIsOrderedOrOnStack, Ordered, OnStack
  <2>3. StackDescends' /\ TodoAreOperands'
    BY <2>1 DEF SchedInv, StackDescends, TodoAreOperands
  <2>4. OperandsCovered'
    BY <2>1 DEF SchedInv, OperandsCovered, OperandCovered, Ordered
  <2>5. RootOutermost' /\ OnlyNeeded' /\ TopologicalOrder'
    BY <2>1 DEF SchedInv, RootOutermost, OnlyNeeded, TopologicalOrder
  <2> QED
    BY <2>2, <2>3, <2>4, <2>5 DEF SchedInv
<1> QED
  BY <1>1, SkipInv, DescendInv, EmitInv DEF ScheduleStep

\* What the invariant says when dfs is done: the order is closed under
\* operands and minimal.
LEMMA SchedInvCovers == SchedInv => OrdersWhatRootNeeds
<1> SUFFICES ASSUME SchedInv, stack = <<>>, order # <<>>
             PROVE  /\ HasWhatRootNeeds(pii, Ordered)
                    /\ \A S \in SUBSET Instrs(pii) :
                         HasWhatRootNeeds(pii, S) => Ordered \subseteq S
  BY DEF OrdersWhatRootNeeds
<1>1. order \in Seq(Instrs(pii)) /\ Len(order) \in 1 .. Len(order) /\ Len(order) \in Nat
  BY DEF SchedInv, SchedType
<1>2. Root(pii) \in Ordered
  BY <1>1 DEF SchedInv, RootOutermost, Ordered
<1>3. ASSUME NEW i \in Ordered PROVE Operands(pii, i) \cap Instrs(pii) \subseteq Ordered
  <2>1. PICK j \in 1 .. Len(order) : order[j] = i
    BY DEF Ordered
  <2> SUFFICES ASSUME NEW x \in Operands(pii, i) \cap Instrs(pii) PROVE x \in Ordered
    OBVIOUS
  <2>2. PICK k \in 1 .. j - 1 : order[k] = x
    BY <2>1 DEF SchedInv, TopologicalOrder
  <2>3. k \in 1 .. Len(order)
    BY <1>1, <2>1, <2>2
  <2> QED
    BY <2>2, <2>3 DEF Ordered
<1>4. visited = Ordered
  <2>1. OnStack = {}
    BY DEF OnStack
  <2> QED
    BY <2>1 DEF SchedInv, VisitedIsOrderedOrOnStack
<1> QED
  BY <1>2, <1>3, <1>4 DEF SchedInv, OnlyNeeded, HasWhatRootNeeds

-----------------------------------------------------------------------------
(* Memory.                                                                 *)

\* The addresses of a tensor are the size many from its first one on.
LEMMA RegionFacts ==
  ASSUME NEW g \in Graphs, NEW t \in Tensors(g), NEW ad \in [Tensors(g) -> Nat],
         NEW b, NEW a \in Nat
  PROVE  <<b, a>> \in Region(g, ad, t)
           <=> b = g[t].buffer /\ ad[t] <= a /\ a < ad[t] + g[t].size
<1>1. g[t].size \in Nat /\ ad[t] \in Nat
  BY GraphFacts
<1>2. ASSUME <<b, a>> \in Region(g, ad, t)
      PROVE  b = g[t].buffer /\ ad[t] <= a /\ a < ad[t] + g[t].size
  <2>1. PICK k \in 1 .. g[t].size : <<b, a>> = <<g[t].buffer, ad[t] + k - 1>>
    BY <1>2 DEF Region, Loc
  <2> QED
    BY <1>1, <2>1
<1>3. ASSUME b = g[t].buffer, ad[t] <= a, a < ad[t] + g[t].size
      PROVE  <<b, a>> \in Region(g, ad, t)
  <2>1. a - ad[t] + 1 \in 1 .. g[t].size /\ ad[t] + (a - ad[t] + 1) - 1 = a
    BY <1>1, <1>3
  <2> QED
    BY <1>3, <2>1 DEF Region, Loc
<1> QED
  BY <1>2, <1>3

\* Tensor t lies within its buffer.
Fits(g, ad, t) == ad[t] + g[t].size <= Capacity[g[t].buffer]

LEMMA AddressInBuffer ==
  ASSUME NEW g \in Graphs, NEW t \in Tensors(g), NEW ad \in [Tensors(g) -> Nat],
         Fits(g, ad, t), NEW k \in 1 .. g[t].size
  PROVE  /\ g[t].buffer \in Buffers /\ Capacity[g[t].buffer] \in Nat
         /\ ad[t] + k - 1 \in 0 .. Capacity[g[t].buffer] - 1
         /\ ad[t] + k - 1 < Capacity[g[t].buffer]
<1>1. g[t].size \in Nat /\ ad[t] \in Nat /\ g[t].buffer \in Buffers
  BY GraphFacts DEF ValidLine
<1>2. Capacity[g[t].buffer] \in Nat
  BY <1>1, GraphAssumption
<1> QED
  BY <1>1, <1>2 DEF Fits

\* What has been written is read.
LEMMA ReadWhatWasWritten ==
  ASSUME NEW g \in Graphs, NEW t \in Tensors(g), NEW ad \in [Tensors(g) -> Nat],
         Fits(g, ad, t), NEW m, NEW v
  PROVE  Read(g, ad, Written(g, ad, m, t, v), t) = [k \in 1 .. g[t].size |-> v[k]]
<1> DEFINE W == Written(g, ad, m, t, v)
<1> SUFFICES ASSUME NEW k \in 1 .. g[t].size
             PROVE  (IF ad[t] + k - 1 < Capacity[g[t].buffer]
                     THEN W[g[t].buffer][ad[t] + k - 1] ELSE Junk) = v[k]
  BY DEF Read
<1>1. /\ g[t].buffer \in Buffers
      /\ ad[t] + k - 1 \in 0 .. Capacity[g[t].buffer] - 1
      /\ ad[t] + k - 1 < Capacity[g[t].buffer]
      /\ Capacity[g[t].buffer] \in Nat
  BY AddressInBuffer
<1>2. ad[t] \in Nat /\ g[t].size \in Nat /\ ad[t] + k - 1 \in Nat
  BY <1>1, GraphFacts
<1>3. <<g[t].buffer, ad[t] + k - 1>> \in Region(g, ad, t)
  BY <1>2, RegionFacts
<1>4. (ad[t] + k - 1) - ad[t] + 1 = k
  BY <1>2
<1>5. W[g[t].buffer][ad[t] + k - 1] = v[(ad[t] + k - 1) - ad[t] + 1]
  BY <1>1, <1>3 DEF Written
<1> QED
  BY <1>1, <1>4, <1>5

\* Tensors that share no address.
Apart(g, ad, t, u) == g[t].buffer = g[u].buffer => Separate(g, ad, t, u)

\* Writing a tensor leaves those apart from it alone.
LEMMA ReadWhatWasNotWritten ==
  ASSUME NEW g \in Graphs, NEW t \in Tensors(g), NEW u \in Tensors(g),
         NEW ad \in [Tensors(g) -> Nat], Apart(g, ad, t, u), Fits(g, ad, u),
         NEW m, NEW v
  PROVE  Read(g, ad, Written(g, ad, m, t, v), u) = Read(g, ad, m, u)
<1> DEFINE W == Written(g, ad, m, t, v)
<1> SUFFICES ASSUME NEW k \in 1 .. g[u].size
             PROVE  W[g[u].buffer][ad[u] + k - 1] = m[g[u].buffer][ad[u] + k - 1]
  BY DEF Read
<1>1. /\ g[u].buffer \in Buffers
      /\ ad[u] + k - 1 \in 0 .. Capacity[g[u].buffer] - 1
      /\ Capacity[g[u].buffer] \in Nat
  BY AddressInBuffer
<1>2. /\ ad[u] \in Nat /\ g[u].size \in Nat /\ ad[u] + k - 1 \in Nat
      /\ ad[t] \in Nat /\ g[t].size \in Nat
  BY <1>1, GraphFacts
<1>3. <<g[u].buffer, ad[u] + k - 1>> \notin Region(g, ad, t)
  <2>1. ASSUME g[u].buffer = g[t].buffer, ad[t] <= ad[u] + k - 1,
               ad[u] + k - 1 < ad[t] + g[t].size
        PROVE  FALSE
    BY <1>2, <2>1 DEF Apart, Separate
  <2> QED
    BY <1>2, <2>1, RegionFacts
<1> QED
  BY <1>1, <1>3 DEF Written

-----------------------------------------------------------------------------
(* Live ranges.                                                            *)

\* dfs is done, and every live range is defined.
Ranged ==
  /\ SchedInv /\ stack = <<>>
  /\ \A t \in Tensors(pii) : ~NoLiveRange(pii, order, t)

LEMMA OrderFacts ==
  ASSUME Ranged
  PROVE  /\ pii \in Graphs /\ order \in Seq(Instrs(pii))
         /\ Len(order) \in Nat \ {0} /\ order[Len(order)] = Root(pii)
         /\ \A k \in 1 .. Len(order) : order[k] \in Instrs(pii)
         /\ TopologicalOrder
<1>1. /\ pii \in Graphs /\ order \in Seq(Instrs(pii)) /\ order # <<>>
      /\ order[Len(order)] = Root(pii) /\ TopologicalOrder
  BY DEF Ranged, SchedInv, SchedType, RootOutermost
<1> QED
  BY <1>1

\* An ordered instruction has one position.
LEMMA PositionFacts ==
  ASSUME Ranged, NEW k \in 1 .. Len(order)
  PROVE  Position(order, order[k]) = k
<1>1. \A i \in 1 .. Len(order) : order[i] = order[k] => i = k
  BY OrderFacts DEF TopologicalOrder
<1> QED
  BY <1>1 DEF Position

\* The latest of some instants not after n.
LEMMA LatestFacts ==
  ASSUME NEW n \in Nat, NEW S \in SUBSET (0 .. n), S # {}
  PROVE  Latest(S) \in S /\ \A m \in S : m <= Latest(S)
<1>1. \E m \in S : \A k \in S : k <= m
  BY GreatestElement
<1> QED
  BY <1>1 DEF Latest

\* An instruction that uses a constant or an intermediate result is ordered.
LEMMA UsesAreOrdered ==
  ASSUME Ranged, NEW t \in Tensors(pii),
         TensorType(pii, t) \in {"CONSTANT", "INTERMEDIATE"}
  PROVE  /\ Uses(pii, t) # {}
         /\ \A i \in Uses(pii, t) : \E k \in 1 .. Len(order) : order[k] = i
         /\ UsePositions(pii, order, t) # {}
         /\ UsePositions(pii, order, t) \subseteq 1 .. Len(order)
<1>1. Uses(pii, t) # {} /\ Uses(pii, t) \subseteq {order[k] : k \in 1 .. Len(order)}
  BY DEF Ranged, NoLiveRange
<1>2. \A i \in Uses(pii, t) : \E k \in 1 .. Len(order) : order[k] = i
  BY <1>1
<1>3. \A i \in Uses(pii, t) : Position(order, i) \in 1 .. Len(order)
  BY <1>2, PositionFacts
<1> QED
  BY <1>1, <1>2, <1>3 DEF UsePositions

\* A tensor that is used lives until then, and is not the output.
LEMMA LivesUntilUsed ==
  ASSUME Ranged, NEW k \in 1 .. Len(order), NEW u \in Operands(pii, order[k])
  PROVE  /\ u \in Tensors(pii) /\ u # Root(pii)
         /\ LiveTo(pii, order, u) \in Nat /\ k <= LiveTo(pii, order, u)
<1> DEFINE i == order[k]
           P == UsePositions(pii, order, u)
           N == Len(order)
<1>1. pii \in Graphs /\ i \in Instrs(pii) /\ N \in Nat /\ k \in Nat /\ k <= N
  BY OrderFacts
<1>2. u \in Tensors(pii) /\ u # Root(pii)
  <2>1. i \in Tensors(pii) /\ Operands(pii, i) \subseteq 1 .. i - 1
        /\ Len(pii) \in Nat /\ Tensors(pii) = 1 .. Len(pii)
    BY <1>1, GraphFacts
  <2>2. u \in Tensors(pii)
    BY <2>1
  <2> QED
    BY <1>1, <2>2, RootUnused
<1>3. i \in Uses(pii, u)
  BY <1>1 DEF Uses
<1>4. k \in P
  BY <1>3, PositionFacts DEF UsePositions
<1>5. CASE TensorType(pii, u) = "INPUT"
  BY <1>1, <1>2, <1>5 DEF LiveTo
<1>6. CASE TensorType(pii, u) = "CONSTANT"
  <2>1. P \subseteq 0 .. N /\ P # {}
    BY <1>1, <1>2, <1>6, UsesAreOrdered
  <2>2. Latest(P) \in P /\ k <= Latest(P)
    BY <1>1, <1>4, <2>1, LatestFacts
  <2> QED
    BY <1>2, <1>6, <2>1, <2>2 DEF LiveTo
<1>7. CASE TensorType(pii, u) = "INTERMEDIATE"
  <2> DEFINE Q == {Position(order, u)} \cup P
  <2>1. P \subseteq 0 .. N
    BY <1>1, <1>2, <1>7, UsesAreOrdered
  <2>2. u \in {order[j] : j \in 1 .. N}
    BY <1>2, <1>7 DEF Ranged, NoLiveRange
  <2>3. Position(order, u) \in 1 .. N
    BY <2>2, PositionFacts
  <2>4. Q \subseteq 0 .. N /\ Q # {} /\ k \in Q
    BY <1>1, <1>4, <2>1, <2>3
  <2> HIDE DEF Q
  <2>5. Latest(Q) \in Q /\ k <= Latest(Q)
    BY <1>1, <2>4, LatestFacts
  <2>6. LiveTo(pii, order, u) = Latest(Q)
    BY <1>7 DEF LiveTo, Q
  <2>7. Latest(Q) \in 0 .. N
    BY <2>4, <2>5
  <2>8. Latest(Q) \in Nat
    BY <1>1, <2>7
  <2> QED
    BY <1>2, <2>5, <2>6, <2>8
<1> QED
  BY <1>2, <1>5, <1>6, <1>7 DEF TensorType

\* A tensor that has been computed after pc instructions lives by then, the
\* output excepted, which lives at the end only.
LEMMA LivesFromComputed ==
  ASSUME Ranged, pc \in 0 .. Len(order),
         NEW u \in Tensors(pii), Computed(u), u # Root(pii)
  PROVE  LiveFrom(pii, order, u) \in Nat /\ LiveFrom(pii, order, u) <= pc
<1>1. CASE u \in Declared(pii)
  <2>1. pii[u].op \in {"Var", "DCC"}
    BY <1>1 DEF Declared, Instrs, Declarations
  <2>2. LiveFrom(pii, order, u) = 0
    BY <2>1 DEF LiveFrom, TensorType
  <2> QED
    BY <2>2
<1>2. CASE u \notin Declared(pii)
  <2>1. PICK k \in 1 .. pc : order[k] = u
    BY <1>2 DEF Computed
  <2>5. k \in 1 .. Len(order)
    BY OrderFacts
  <2>2. pii[u].op \notin {"Var", "DCC"}
    BY <1>2 DEF Declared, Instrs, Declarations
  <2>3. TensorType(pii, u) = "INTERMEDIATE"
    BY <2>2 DEF TensorType
  <2>4. Position(order, u) = k
    BY <2>1, <2>5, PositionFacts
  <2> QED
    BY <2>3, <2>4 DEF LiveFrom
<1> QED
  BY <1>1, <1>2

\* Every live range of a declared tensor begins before the first instruction
\* and includes it.
LEMMA DeclaredLiveFromTheStart ==
  ASSUME Ranged, NEW t \in Declared(pii)
  PROVE  /\ t \in Tensors(pii) /\ pii[t].op \in {"Var", "DCC"}
         /\ LiveFrom(pii, order, t) = 0 /\ 0 < LiveTo(pii, order, t)
<1>1. t \in Tensors(pii) /\ pii[t].op \in {"Var", "DCC"}
  BY DEF Declared, Instrs, Declarations
<1>2. LiveFrom(pii, order, t) = 0
  BY <1>1 DEF LiveFrom, TensorType
<1>3. Len(order) \in Nat \ {0}
  BY OrderFacts
<1>4. CASE pii[t].op = "Var"
  <2>1. LiveTo(pii, order, t) = Len(order)
    BY <1>4 DEF LiveTo, TensorType
  <2> QED
    BY <1>1, <1>2, <1>3, <2>1
<1>5. CASE pii[t].op = "DCC"
  <2> DEFINE P == UsePositions(pii, order, t)
  <2>1. TensorType(pii, t) = "CONSTANT"
    BY <1>5 DEF TensorType
  <2>2. P # {} /\ P \subseteq 1 .. Len(order)
    BY <1>1, <2>1, UsesAreOrdered
  <2> HIDE DEF P
  <2>3. P \subseteq 0 .. Len(order)
    BY <1>3, <2>2
  <2>4. Latest(P) \in P
    BY <1>3, <2>2, <2>3, LatestFacts
  <2>5. LiveTo(pii, order, t) = Latest(P)
    BY <2>1 DEF LiveTo, P
  <2>6. Latest(P) \in 1 .. Len(order)
    BY <2>2, <2>4
  <2>7. 0 < Latest(P)
    BY <1>3, <2>6
  <2> QED
    BY <1>1, <1>2, <2>5, <2>7
<1> QED
  BY <1>1, <1>2, <1>4, <1>5

-----------------------------------------------------------------------------
(* Solutions.                                                              *)

\* ad solves the constraint problem of the graph, whose tensors all fit.
Placed(ad) ==
  /\ Ranged
  /\ Solution(pii, InterferenceGraph(pii, order), ad)
  /\ AllFit(pii)

LEMMA PlacedFacts ==
  ASSUME NEW ad, Placed(ad)
  PROVE  /\ pii \in Graphs /\ ad \in [Tensors(pii) -> Nat]
         /\ \A t \in Tensors(pii) : Fits(pii, ad, t) /\ PlacedByInstruction(pii, ad, t)
         /\ \A t, u \in Tensors(pii) :
              Interfere(pii, order, t, u) => Separate(pii, ad, t, u)
<1>1. pii \in Graphs /\ ad \in [Tensors(pii) -> Nat]
  BY OrderFacts DEF Placed, Solution
<1>2. ASSUME NEW t \in Tensors(pii) PROVE Fits(pii, ad, t) /\ PlacedByInstruction(pii, ad, t)
  <2>1. pii[t].size \in Nat /\ pii[t].buffer \in Buffers
    BY <1>1, GraphFacts DEF ValidLine
  <2>2. Capacity[pii[t].buffer] \in Nat
    BY <2>1, GraphAssumption
  <2>3. pii[t].size <= Capacity[pii[t].buffer]
    BY DEF Placed, AllFit
  <2>4. ad[t] \in 0 .. LastOffset(pii, t) /\ PlacedByInstruction(pii, ad, t)
    BY DEF Placed, Solution
  <2> QED
    BY <1>1, <2>1, <2>2, <2>3, <2>4 DEF LastOffset, Fits
<1>3. ASSUME NEW t \in Tensors(pii), NEW u \in Tensors(pii), Interfere(pii, order, t, u)
      PROVE  Separate(pii, ad, t, u)
  <2>1. <<t, u>> \in InterferenceGraph(pii, order)
    BY <1>3 DEF InterferenceGraph
  <2> QED
    BY <2>1 DEF Placed, Solution
<1> QED
  BY <1>1, <1>2, <1>3

\* Two tensors the host has loaded share no address.
LEMMA DeclaredApart ==
  ASSUME NEW ad, Placed(ad), NEW t \in Declared(pii), NEW u \in Declared(pii), t # u
  PROVE  Apart(pii, ad, t, u)
<1>1. /\ t \in Tensors(pii) /\ pii[t].op \in {"Var", "DCC"}
      /\ u \in Tensors(pii) /\ pii[u].op \in {"Var", "DCC"}
      /\ RangesOverlap(pii, order, t, u)
  BY DeclaredLiveFromTheStart DEF Placed, RangesOverlap
<1>2. ~SharesWith(pii, t, u) /\ ~SharesWith(pii, u, t)
  BY <1>1 DEF SharesWith
<1>3. pii[t].buffer = pii[u].buffer => Interfere(pii, order, t, u)
  BY <1>1, <1>2 DEF Interfere
<1> QED
  BY <1>1, <1>3, PlacedFacts DEF Apart

\* The result of the next instruction, if it is one of the machine, shares no
\* address with a tensor computed before and read after it.
LEMMA ResultApart ==
  ASSUME Placed(addr), NEW n \in 1 .. Len(order), n = pc + 1, pc \in Nat,
         NEW r, r = order[n], pii[r].op \notin {"slice", "concat"},
         NEW u \in Tensors(pii), u # r, Computed(u),
         NEW k \in 1 .. Len(order), n < k, u \in Operands(pii, order[k])
  PROVE  Apart(pii, addr, r, u)
<1>1. /\ Ranged /\ Len(order) \in Nat \ {0} /\ pii \in Graphs
      /\ order[Len(order)] = Root(pii) /\ TopologicalOrder
      /\ r \in Instrs(pii) /\ r \in Tensors(pii)
  <2>1. Ranged
    BY DEF Placed
  <2>2. r \in Instrs(pii) /\ pii \in Graphs
    BY <2>1, OrderFacts
  <2>3. r \in Tensors(pii)
    BY <2>2 DEF Instrs
  <2> QED
    BY <2>1, <2>2, <2>3, OrderFacts
<1>2. n # Len(order) /\ n \in Nat /\ k \in Nat
  BY <1>1
<1>3. /\ u # Root(pii)
      /\ LiveTo(pii, order, u) \in Nat /\ k <= LiveTo(pii, order, u)
  BY <1>1, LivesUntilUsed
<1>c. pc \in 0 .. Len(order)
  BY <1>1
<1>4. LiveFrom(pii, order, u) \in Nat /\ LiveFrom(pii, order, u) <= pc
  BY <1>1, <1>c, <1>3, LivesFromComputed
<1>5. Position(order, r) = n
  BY <1>1, PositionFacts
<1>6. TensorType(pii, r) = "INTERMEDIATE"
  <2>1. \A a, b \in 1 .. Len(order) : a # b => order[a] # order[b]
    BY <1>1 DEF TopologicalOrder
  <2>2. Len(order) \in 1 .. Len(order)
    BY <1>1
  <2>3. r # Root(pii)
    BY <1>1, <1>2, <2>1, <2>2
  <2>4. pii[r].op \notin {"Var", "DCC"}
    BY <1>1 DEF Instrs, Declarations
  <2> QED
    BY <2>3, <2>4 DEF TensorType
<1>7. LiveFrom(pii, order, r) = n
  BY <1>5, <1>6 DEF LiveFrom
<1>8. LiveTo(pii, order, r) \in Nat /\ n <= LiveTo(pii, order, r)
  <2> DEFINE P == UsePositions(pii, order, r)
             Q == {Position(order, r)} \cup P
  <2>1. P \subseteq 1 .. Len(order)
    BY <1>1, <1>6, UsesAreOrdered
  <2>2. LiveTo(pii, order, r) = Latest(Q)
    BY <1>6 DEF LiveTo
  <2> HIDE DEF P
  <2>3. Q = {n} \cup P
    BY <1>5
  <2>4. n \in Q
    BY <2>3
  <2>5. 1 .. Len(order) \subseteq 0 .. Len(order)
    BY <1>1
  <2>6. Q \subseteq 0 .. Len(order)
    BY <2>1, <2>3, <2>5
  <2> HIDE DEF Q
  <2>7. Latest(Q) \in Q /\ \A m \in Q : m <= Latest(Q)
    BY <1>1, <2>4, <2>6, LatestFacts
  <2>8. Latest(Q) \in 0 .. Len(order)
    BY <2>6, <2>7
  <2>9. Latest(Q) \in Nat
    BY <1>1, <2>8
  <2> QED
    BY <2>2, <2>4, <2>7, <2>9
<1>9. RangesOverlap(pii, order, r, u)
  <2>1. LiveFrom(pii, order, u) < LiveTo(pii, order, r)
    BY <1>2, <1>4, <1>8
  <2>2. LiveFrom(pii, order, r) < LiveTo(pii, order, u)
    BY <1>2, <1>3, <1>7
  <2> QED
    BY <2>1, <2>2 DEF RangesOverlap
<1>10. ~SharesWith(pii, r, u)
  BY DEF SharesWith
<1>11. ASSUME r \in Operands(pii, u), u \in Instrs(pii) PROVE FALSE
  <2>1. PICK j \in 1 .. pc : order[j] = u
    BY <1>11 DEF Computed, Declared
  <2>2. j \in 1 .. Len(order) /\ j \in Nat /\ j <= pc
    BY <1>1, <1>2, <2>1
  <2>3. PICK i \in 1 .. j - 1 : order[i] = r
    BY <1>11, <2>1, <2>2, <1>1 DEF TopologicalOrder
  <2>4. i \in 1 .. Len(order) /\ i # n
    BY <1>1, <1>2, <2>2, <2>3
  <2>5. \A a, b \in 1 .. Len(order) : a # b => order[a] # order[b]
    BY <1>1 DEF TopologicalOrder
  <2> QED
    BY <2>3, <2>4, <2>5
<1>12. ~SharesWith(pii, u, r)
  <2>1. SharesWith(pii, u, r) => r \in Operands(pii, u) /\ u \in Instrs(pii)
    BY DEF SharesWith, Instrs, Declarations
  <2> QED
    BY <2>1, <1>11
<1>13. pii[r].buffer = pii[u].buffer => Interfere(pii, order, r, u)
  BY <1>9, <1>10, <1>12 DEF Interfere
<1> QED
  BY <1>1, <1>13, PlacedFacts DEF Apart

-----------------------------------------------------------------------------
(* The run.                                                                *)

\* The host has put every input and constant where it is looked for.
LEMMA ReadWhatWasLoaded ==
  ASSUME NEW ad, Placed(ad), NEW t \in Declared(pii)
  PROVE  Read(pii, ad, Loaded(pii, ad), t) = Own(pii, t)
<1> DEFINE L == Loaded(pii, ad)
           b == pii[t].buffer
<1>1. /\ pii \in Graphs /\ t \in Tensors(pii) /\ ad \in [Tensors(pii) -> Nat]
      /\ Fits(pii, ad, t)
      /\ \A u \in Declared(pii) : u \in Tensors(pii) /\ Fits(pii, ad, u)
  BY PlacedFacts DEF Declared
<1> SUFFICES ASSUME NEW k \in 1 .. pii[t].size
             PROVE  (IF ad[t] + k - 1 < Capacity[b] THEN L[b][ad[t] + k - 1] ELSE Junk)
                      = <<t, k>>
  BY DEF Read, Own
<1>2. /\ b \in Buffers /\ Capacity[b] \in Nat
      /\ ad[t] + k - 1 \in 0 .. Capacity[b] - 1 /\ ad[t] + k - 1 < Capacity[b]
  BY <1>1, AddressInBuffer
<1>3. ad[t] \in Nat /\ pii[t].size \in Nat /\ ad[t] + k - 1 \in Nat
  BY <1>1, <1>2, GraphFacts
<1>4. <<b, ad[t] + k - 1>> \in Region(pii, ad, t)
  BY <1>1, <1>3, RegionFacts
<1>5. ASSUME NEW u \in Declared(pii), <<b, ad[t] + k - 1>> \in Region(pii, ad, u)
      PROVE  u = t
  <2>1. ad[u] \in Nat /\ pii[u].size \in Nat
    BY <1>1, GraphFacts
  <2>2. b = pii[u].buffer /\ ad[u] <= ad[t] + k - 1 /\ ad[t] + k - 1 < ad[u] + pii[u].size
    BY <1>1, <1>3, <1>5, RegionFacts
  <2>3. u # t => Separate(pii, ad, t, u)
    BY <2>2, DeclaredApart DEF Apart
  <2> QED
    BY <1>3, <2>1, <2>2, <2>3 DEF Separate
<1>6. L[b][ad[t] + k - 1]
        = Own(pii, t)[(ad[t] + k - 1) - ad[t] + 1]
  BY <1>2, <1>4, <1>5 DEF Loaded
<1>7. (ad[t] + k - 1) - ad[t] + 1 = k
  BY <1>3
<1> QED
  BY <1>2, <1>6, <1>7 DEF Own

\* A tensor within its buffer is what the memory holds at its addresses.
LEMMA ReadCells ==
  ASSUME NEW g \in Graphs, NEW t \in Tensors(g), NEW ad \in [Tensors(g) -> Nat],
         Fits(g, ad, t), NEW m
  PROVE  Read(g, ad, m, t) = [k \in 1 .. g[t].size |-> m[g[t].buffer][ad[t] + k - 1]]
<1>1. \A k \in 1 .. g[t].size : ad[t] + k - 1 < Capacity[g[t].buffer]
  BY AddressInBuffer
<1> QED
  BY <1>1 DEF Read

\* A slice whose operand is in place is in place.
LEMMA SliceInPlace ==
  ASSUME NEW g \in Graphs, NEW t \in Tensors(g), NEW x \in Tensors(g),
         NEW ad \in [Tensors(g) -> Nat], Fits(g, ad, t), Fits(g, ad, x),
         g[t].buffer = g[x].buffer, ad[t] = ad[x] + g[t].start,
         g[t].start \in Nat, g[t].start + g[t].size <= g[x].size,
         NEW m, NEW v, Read(g, ad, m, x) = v
  PROVE  Read(g, ad, m, t) = [k \in 1 .. g[t].size |-> v[g[t].start + k]]
<1>1. /\ g[t].size \in Nat /\ g[x].size \in Nat
      /\ ad[t] \in Nat /\ ad[x] \in Nat
  BY GraphFacts
<1>2. v = [k \in 1 .. g[x].size |-> m[g[x].buffer][ad[x] + k - 1]]
  BY ReadCells
<1>3. ASSUME NEW k \in 1 .. g[t].size
      PROVE  m[g[t].buffer][ad[t] + k - 1] = v[g[t].start + k]
  <2>1. g[t].start + k \in 1 .. g[x].size
    BY <1>1
  <2>2. ad[x] + (g[t].start + k) - 1 = ad[t] + k - 1
    BY <1>1
  <2> QED
    BY <1>2, <2>1, <2>2
<1>4. Read(g, ad, m, t) = [k \in 1 .. g[t].size |-> m[g[t].buffer][ad[t] + k - 1]]
  BY ReadCells
<1> QED
  BY <1>3, <1>4

\* The value of concatenation t of x, whose value is v, and another one.
Joined(g, t, x, v, w) ==
  [k \in 1 .. g[t].size |-> IF k <= g[x].size THEN v[k] ELSE w[k - g[x].size]]

\* Tensor t takes the addresses of x and those of y, which follow them.
Beside(g, ad, t, x, y) ==
  /\ g[t].buffer = g[x].buffer /\ g[t].buffer = g[y].buffer
  /\ ad[t] = ad[x] /\ ad[y] = ad[x] + g[x].size
  /\ g[t].size = g[x].size + g[y].size

\* A concatenation whose operands are in place is in place.
LEMMA ConcatInPlace ==
  ASSUME NEW g \in Graphs, NEW t \in Tensors(g), NEW x \in Tensors(g),
         NEW y \in Tensors(g), NEW ad \in [Tensors(g) -> Nat],
         Fits(g, ad, t), Fits(g, ad, x), Fits(g, ad, y), Beside(g, ad, t, x, y),
         NEW m
  PROVE  Read(g, ad, m, t) = Joined(g, t, x, Read(g, ad, m, x), Read(g, ad, m, y))
<1> DEFINE v == Read(g, ad, m, x)
           w == Read(g, ad, m, y)
<1>1. /\ g[t].size \in Nat /\ g[x].size \in Nat /\ g[y].size \in Nat
      /\ ad[t] \in Nat /\ ad[x] \in Nat /\ ad[y] \in Nat
  BY GraphFacts
<1>6. /\ g[t].buffer = g[x].buffer /\ g[t].buffer = g[y].buffer
      /\ ad[t] = ad[x] /\ ad[y] = ad[x] + g[x].size
      /\ g[t].size = g[x].size + g[y].size
  BY DEF Beside
<1>2. v = [k \in 1 .. g[x].size |-> m[g[x].buffer][ad[x] + k - 1]]
  BY ReadCells
<1>5. w = [k \in 1 .. g[y].size |-> m[g[y].buffer][ad[y] + k - 1]]
  BY ReadCells
<1> HIDE DEF v, w
<1>3. ASSUME NEW k \in 1 .. g[t].size
      PROVE  m[g[t].buffer][ad[t] + k - 1]
               = IF k <= g[x].size THEN v[k] ELSE w[k - g[x].size]
  <2>1. CASE k <= g[x].size
    <3>1. k \in 1 .. g[x].size
      BY <1>1, <2>1
    <3> QED
      BY <1>2, <1>6, <2>1, <3>1
  <2>2. CASE ~(k <= g[x].size)
    <3>1. k - g[x].size \in 1 .. g[y].size
      BY <1>1, <1>6, <2>2
    <3>2. ad[y] + (k - g[x].size) - 1 = ad[t] + k - 1
      BY <1>1, <1>6
    <3> QED
      BY <1>5, <1>6, <2>2, <3>1, <3>2
  <2> QED
    BY <2>1, <2>2
<1>4. Read(g, ad, m, t) = [k \in 1 .. g[t].size |-> m[g[t].buffer][ad[t] + k - 1]]
  BY ReadCells
<1> QED
  BY <1>3, <1>4 DEF Joined, v, w

\* The invariant of the run.
RunInv ==
  /\ pc \in 0 .. Len(order)
  /\ DOMAIN env = Tensors(pii)
  /\ NeededTensorsIntact

LEMMA LoadIntact ==
  ASSUME NEW ad, Placed(ad), Load(ad),
         pii' = pii, order' = order
  PROVE  RunInv'
<1>1. /\ addr' = ad /\ pc' = 0 /\ mem' = Loaded(pii, ad)
      /\ env' = [t \in Tensors(pii) |->
                   IF t \in Declared(pii) THEN Own(pii, t) ELSE <<>>]
  BY DEF Load
<1>2. Len(order) \in Nat
  BY OrderFacts DEF Placed
<1>3. ASSUME NEW t \in Tensors(pii), Computed(t)'
      PROVE  Read(pii, ad, mem', t) = env'[t]
  <2>1. t \in Declared(pii)
    BY <1>1, <1>3 DEF Computed
  <2> QED
    BY <1>1, <2>1, ReadWhatWasLoaded
<1>4. NeededTensorsIntact'
  BY <1>1, <1>3 DEF NeededTensorsIntact
<1>5. pc' \in 0 .. Len(order')
  BY <1>1, <1>2
<1>6. DOMAIN env' = Tensors(pii')
  BY <1>1
<1> QED
  BY <1>4, <1>5, <1>6 DEF RunInv

\* The next instruction finds its operands as the graph has them.
LEMMA OperandsReady ==
  ASSUME Placed(addr), RunInv, NEW n \in 1 .. Len(order), n = pc + 1, pc \in Nat
  PROVE  OperandsRight(order[n])
<1>1. Ranged
  BY DEF Placed
<1>2. /\ Len(order) \in Nat /\ pii \in Graphs /\ order[n] \in Instrs(pii)
      /\ TopologicalOrder
  BY <1>1, OrderFacts
<1>3. ASSUME NEW x \in Operands(pii, order[n])
      PROVE  Read(pii, addr, mem, x) = env[x]
  <2>1. x \in Tensors(pii)
    BY <1>1, LivesUntilUsed
  <2>2. Computed(x)
    <3>1. CASE x \in Instrs(pii)
      <4>1. PICK i \in 1 .. n - 1 : order[i] = x
        BY <1>2, <3>1 DEF TopologicalOrder
      <4>2. i \in 1 .. pc
        BY <4>1
      <4> QED
        BY <4>1, <4>2 DEF Computed
    <3> QED
      BY <2>1, <3>1 DEF Computed, Declared
  <2>3. Needed(x)
    <3>1. n \in pc + 1 .. Len(order)
      BY <1>2
    <3> QED
      BY <3>1 DEF Needed
  <2> QED
    BY <2>1, <2>2, <2>3 DEF RunInv, NeededTensorsIntact
<1> QED
  BY <1>3 DEF OperandsRight

\* Slices and concatenations are where their operands are.
LEMMA ValueInPlace ==
  ASSUME Placed(addr), NEW t \in Instrs(pii), OperandsRight(t),
         pii[t].op \in {"slice", "concat"}
  PROVE  Read(pii, addr, mem, t) = Value(pii, t)
<1>1. /\ pii \in Graphs /\ addr \in [Tensors(pii) -> Nat] /\ t \in Tensors(pii)
      /\ \A u \in Tensors(pii) : Fits(pii, addr, u)
      /\ PlacedByInstruction(pii, addr, t)
  BY PlacedFacts DEF Instrs
<1>2. /\ ValidLine(pii, t) /\ Operands(pii, t) \subseteq Tensors(pii)
      /\ pii[t].start \in Nat
  <2>1. /\ ValidLine(pii, t) /\ Operands(pii, t) \subseteq 1 .. t - 1
        /\ t \in 1 .. Len(pii) /\ Len(pii) \in Nat /\ Tensors(pii) = 1 .. Len(pii)
        /\ pii[t].start \in Nat
    BY <1>1, GraphFacts
  <2>2. 1 .. t - 1 \subseteq 1 .. Len(pii)
    BY <2>1
  <2> QED
    BY <2>1, <2>2
<1> DEFINE x == pii[t].rhs[1]
           y == pii[t].rhs[2]
<1>3. CASE pii[t].op = "slice"
  <2>1. /\ Len(pii[t].rhs) = 1 /\ pii[t].buffer = pii[x].buffer
        /\ pii[t].start + pii[t].size <= pii[x].size
    BY <1>2, <1>3 DEF ValidLine
  <2>2. x \in Operands(pii, t)
    BY <2>1 DEF Operands
  <2>3. x \in Tensors(pii) /\ Read(pii, addr, mem, x) = env[x]
    BY <1>2, <2>2 DEF OperandsRight
  <2>4. addr[t] = addr[x] + pii[t].start
    BY <1>1, <1>3 DEF PlacedByInstruction
  <2> HIDE DEF x
  <2>5. Read(pii, addr, mem, t)
          = [k \in 1 .. pii[t].size |-> env[x][pii[t].start + k]]
    BY <1>1, <1>2, <2>1, <2>3, <2>4, SliceInPlace
  <2> QED
    BY <1>3, <2>5 DEF Value, ValueFrom, x
<1>4. CASE pii[t].op = "concat"
  <2>1. /\ Len(pii[t].rhs) = 2
        /\ pii[t].buffer = pii[x].buffer /\ pii[t].buffer = pii[y].buffer
        /\ pii[t].size = pii[x].size + pii[y].size
    BY <1>2, <1>4 DEF ValidLine
  <2>2. x \in Operands(pii, t) /\ y \in Operands(pii, t)
    BY <2>1 DEF Operands
  <2>3. /\ x \in Tensors(pii) /\ Read(pii, addr, mem, x) = env[x]
        /\ y \in Tensors(pii) /\ Read(pii, addr, mem, y) = env[y]
    BY <1>2, <2>2 DEF OperandsRight
  <2>4. addr[t] = addr[x] /\ addr[y] = addr[x] + pii[x].size
    BY <1>1, <1>4 DEF PlacedByInstruction
  <2> HIDE DEF x, y
  <2>5. Read(pii, addr, mem, t) = Joined(pii, t, x, env[x], env[y])
    <3>1. Read(pii, addr, mem, t)
            = Joined(pii, t, x, Read(pii, addr, mem, x), Read(pii, addr, mem, y))
      <4>1. Fits(pii, addr, t) /\ Fits(pii, addr, x) /\ Fits(pii, addr, y)
        BY <1>1, <2>3
      <4>2. Beside(pii, addr, t, x, y)
        BY <2>1, <2>4 DEF Beside
      <4> QED
        BY <1>1, <2>3, <4>1, <4>2, ConcatInPlace
    <3> QED
      BY <2>3, <3>1
  <2> QED
    BY <1>4, <2>5 DEF Value, ValueFrom, Joined, x, y
<1> QED
  BY <1>3, <1>4

\* A kernel at addresses that solve its constraints keeps every value that is
\* still needed, whatever the next instruction is.
LEMMA RunIntact ==
  ASSUME Placed(addr), RunInv, Run, pii' = pii, order' = order
  PROVE  RunInv'
<1>1. /\ Ranged /\ Len(order) \in Nat \ {0} /\ pii \in Graphs
      /\ order[Len(order)] = Root(pii) /\ TopologicalOrder
      /\ addr \in [Tensors(pii) -> Nat]
      /\ \A u \in Tensors(pii) : Fits(pii, addr, u)
  BY OrderFacts, PlacedFacts DEF Placed
<1>2. pc \in 0 .. Len(order) /\ pc < Len(order) /\ DOMAIN env = Tensors(pii)
  BY DEF Run, RunInv
<1> DEFINE n == pc + 1
<1>3. n \in 1 .. Len(order) /\ pc \in Nat /\ n \in Nat
  BY <1>1, <1>2
<1> DEFINE t == order[n]
<1>4. /\ pc' = n /\ addr' = addr /\ env' = [env EXCEPT ![t] = Value(pii, t)]
      /\ mem' = IF Str(pii, t) = "" THEN mem
                ELSE Written(pii, addr, mem, t,
                             IF OperandsRight(t) THEN Own(pii, t)
                             ELSE [k \in 1 .. pii[t].size |-> Junk])
  BY DEF Run
<1>5. OperandsRight(t) /\ t \in Instrs(pii) /\ t \in Tensors(pii)
  <2>1. OperandsRight(t)
    BY <1>3, OperandsReady
  <2> QED
    BY <1>1, <1>3, <2>1, OrderFacts DEF Instrs
<1> HIDE DEF n, t
<1>6. ASSUME NEW u \in Tensors(pii), Computed(u)', Needed(u)', u # t
      PROVE  Read(pii, addr, mem', u) = env'[u]
  <2>1. Computed(u)
    <3>1. CASE u \in Declared(pii)
      BY <3>1 DEF Computed
    <3>2. CASE u \notin Declared(pii)
      <4>1. PICK j \in 1 .. n : order[j] = u
        BY <1>4, <1>6, <3>2 DEF Computed
      <4>2. j # n
        BY <1>6, <4>1 DEF t
      <4>3. j \in 1 .. pc
        BY <1>3, <4>1, <4>2 DEF n
      <4> QED
        BY <4>1, <4>3 DEF Computed
    <3> QED
      BY <3>1, <3>2
  <2>2. PICK k \in n + 1 .. Len(order) : u \in Operands(pii, order[k])
    <3>1. u # Root(pii)
      <4>1. ASSUME u = Root(pii) PROVE FALSE
        <5>1. u \in Instrs(pii)
          BY <1>1, <4>1, RootIsLast
        <5>2. PICK j \in 1 .. pc : order[j] = u
          BY <2>1, <5>1 DEF Computed, Declared
        <5>3. j \in 1 .. Len(order) /\ j # Len(order) /\ Len(order) \in 1 .. Len(order)
          BY <1>1, <1>2, <1>3
        <5> QED
          BY <1>1, <4>1, <5>2, <5>3 DEF TopologicalOrder
      <4> QED
        BY <4>1
    <3> QED
      BY <1>4, <1>6, <3>1 DEF Needed
  <2>3. k \in 1 .. Len(order) /\ n < k /\ k \in pc + 1 .. Len(order)
    BY <1>1, <1>3 DEF n
  <2>4. Read(pii, addr, mem, u) = env[u]
    BY <2>1, <2>2, <2>3 DEF RunInv, NeededTensorsIntact, Needed
  <2>5. env'[u] = env[u]
    BY <1>2, <1>4, <1>6
  <2>6. CASE Str(pii, t) = ""
    BY <1>4, <2>4, <2>5, <2>6
  <2>7. CASE Str(pii, t) # ""
    <3>1. pii[t].op \notin {"slice", "concat"}
      BY <2>7, Zenon DEF Str
    <3>2. Apart(pii, addr, t, u)
      BY <1>3, <1>6, <2>1, <2>2, <2>3, <3>1, ResultApart DEF n, t
    <3>3. mem' = Written(pii, addr, mem, t, Own(pii, t))
      BY <1>4, <1>5, <2>7
    <3>4. Read(pii, addr, mem', u) = Read(pii, addr, mem, u)
      BY <1>1, <1>5, <3>2, <3>3, ReadWhatWasNotWritten
    <3> QED
      BY <2>4, <2>5, <3>4
  <2> QED
    BY <2>6, <2>7
<1>7. Read(pii, addr, mem', t) = env'[t]
  <2>1. env'[t] = Value(pii, t)
    BY <1>2, <1>4, <1>5
  <2>2. CASE pii[t].op \in {"slice", "concat"}
    <3>1. mem' = mem
      BY <1>4, <2>2, Zenon DEF Str
    <3> QED
      BY <1>5, <2>1, <2>2, <3>1, ValueInPlace
  <2>3. CASE pii[t].op \notin {"slice", "concat"}
    <3>1. CASE pii[t].op = ""
      BY <1>1, <1>5, <3>1, GraphFacts DEF ValidLine, Operations, Declarations
    <3>2. CASE pii[t].op # ""
      <4>1. Str(pii, t) # ""
        BY <2>3, <3>2, Zenon DEF Str
      <4>2. mem' = Written(pii, addr, mem, t, Own(pii, t))
        BY <1>4, <1>5, <4>1
      <4>3. Read(pii, addr, mem', t) = [k \in 1 .. pii[t].size |-> Own(pii, t)[k]]
        BY <1>1, <1>5, <4>2, ReadWhatWasWritten
      <4>4. Read(pii, addr, mem', t) = Own(pii, t)
        BY <4>3 DEF Own
      <4>5. Value(pii, t) = Own(pii, t)
        BY <2>3 DEF Value, ValueFrom
      <4> QED
        BY <2>1, <4>4, <4>5
    <3> QED
      BY <3>1, <3>2
  <2> QED
    BY <2>2, <2>3
<1>8. NeededTensorsIntact'
  <2>1. ASSUME NEW u \in Tensors(pii), Computed(u)', Needed(u)'
        PROVE  Read(pii, addr, mem', u) = env'[u]
    BY <1>6, <1>7, <2>1
  <2> QED
    BY <1>4, <2>1 DEF NeededTensorsIntact
<1>9. pc' \in 0 .. Len(order')
  <2>1. n \in 0 .. Len(order)
    BY <1>1, <1>3
  <2> QED
    BY <1>4, <2>1
<1>10. DOMAIN env' = Tensors(pii')
  BY <1>2, <1>4
<1> QED
  BY <1>8, <1>9, <1>10 DEF RunInv


-----------------------------------------------------------------------------
(* The meaning of a graph.                                                 *)

\* The value of a line depends on those of its operands only.
LEMMA ValueOfOperands ==
  ASSUME NEW g \in Graphs, NEW t \in Tensors(g), NEW f, NEW h,
         \A x \in Operands(g, t) : f[x] = h[x]
  PROVE  ValueFrom(g, t, f) = ValueFrom(g, t, h)
<1> DEFINE x == g[t].rhs
<1>1. ValidLine(g, t)
  BY GraphFacts
<1>2. CASE g[t].op = "slice"
  <2>1. Len(x) = 1
    BY <1>1, <1>2 DEF ValidLine
  <2>2. x[1] \in Operands(g, t)
    BY <2>1 DEF Operands
  <2>3. f[x[1]] = h[x[1]]
    BY <2>2
  <2> QED
    BY <1>2, <2>3 DEF ValueFrom
<1>3. CASE g[t].op = "concat"
  <2>1. Len(x) = 2
    BY <1>1, <1>3 DEF ValidLine
  <2>2. x[1] \in Operands(g, t) /\ x[2] \in Operands(g, t)
    BY <2>1 DEF Operands
  <2>3. f[x[1]] = h[x[1]] /\ f[x[2]] = h[x[2]]
    BY <2>2
  <2> QED
    BY <1>3, <2>3 DEF ValueFrom
<1>4. CASE g[t].op \notin {"slice", "concat"}
  BY <1>4 DEF ValueFrom
<1> QED
  BY <1>2, <1>3, <1>4

\* The lines of a graph have values: those up to any line have, since operands
\* stand before the lines that use them.
LEMMA ValuesFacts ==
  ASSUME NEW g \in Graphs
  PROVE  /\ DOMAIN Values(g) = Tensors(g)
         /\ \A t \in Tensors(g) : Values(g)[t] = ValueFrom(g, t, Values(g))
<1> DEFINE N == Len(g)
           UpTo(n, f) == /\ f = [t \in Tensors(g) |-> f[t]]
                         /\ \A t \in 1 .. n : f[t] = ValueFrom(g, t, f)
           S == {n \in 0 .. N : \E f : UpTo(n, f)}
<1>1. N \in Nat /\ Tensors(g) = 1 .. N
  BY GraphFacts DEF Tensors
<1>2. 0 \in S
  <2> DEFINE f == [t \in Tensors(g) |-> <<>>]
  <2>1. UpTo(0, f)
    OBVIOUS
  <2>2. 0 \in 0 .. N
    BY <1>1
  <2> QED
    BY <2>1, <2>2, Zenon
<1>3. PICK m \in S : \A n \in S : n <= m
  <2>1. S \in SUBSET (0 .. N) /\ S # {}
    BY <1>2
  <2> HIDE DEF S
  <2> QED
    BY <1>1, <2>1, GreatestElement
<1>4. PICK f : UpTo(m, f)
  BY <1>3
<1>5. m = N
  <2> SUFFICES ASSUME m # N PROVE FALSE
    OBVIOUS
  <2>1. m \in 0 .. N - 1 /\ m + 1 \in 1 .. N /\ m + 1 \in 0 .. N /\ m \in Nat
    BY <1>1, <1>3
  <2> DEFINE h == [f EXCEPT ![m + 1] = ValueFrom(g, m + 1, f)]
  <2>2. /\ h = [t \in Tensors(g) |-> h[t]]
        /\ h[m + 1] = ValueFrom(g, m + 1, f)
        /\ \A x \in Tensors(g) : x # m + 1 => h[x] = f[x]
    BY <1>1, <1>4, <2>1
  <2> HIDE DEF h
  <2>3. ASSUME NEW t \in 1 .. m + 1 PROVE h[t] = ValueFrom(g, t, h)
    <3>1. t \in Tensors(g) /\ Operands(g, t) \subseteq 1 .. t - 1
      <4>1. t \in 1 .. N
        BY <1>1, <2>1
      <4> QED
        BY <1>1, <4>1, GraphFacts
    <3>2. \A x \in Operands(g, t) : f[x] = h[x]
      BY <1>1, <2>1, <2>2, <3>1
    <3>3. ValueFrom(g, t, f) = ValueFrom(g, t, h)
      BY <3>1, <3>2, ValueOfOperands
    <3>4. t # m + 1 => t \in 1 .. m
      BY <2>1
    <3> QED
      BY <1>4, <2>2, <3>1, <3>3, <3>4
  <2>4. m + 1 \in S
    BY <2>1, <2>2, <2>3
  <2> QED
    BY <1>3, <2>1, <2>4
<1>6. f = [t \in Tensors(g) |-> ValueFrom(g, t, f)]
  BY <1>1, <1>4, <1>5
<1>7. Values(g) = [t \in Tensors(g) |-> ValueFrom(g, t, Values(g))]
  BY <1>6 DEF Values
<1> QED
  BY <1>7

\* A tensor that has been computed has the value its line means.
EnvMeans ==
  /\ DOMAIN env = Tensors(pii)
  /\ \A t \in Tensors(pii) : Computed(t) => env[t] = Values(pii)[t]

LEMMA LoadMeans ==
  ASSUME pii \in Graphs, NEW ad, Load(ad), pii' = pii, order' = order
  PROVE  EnvMeans'
<1>1. /\ pc' = 0
      /\ env' = [t \in Tensors(pii) |->
                   IF t \in Declared(pii) THEN Own(pii, t) ELSE <<>>]
  BY DEF Load
<1>2. ASSUME NEW t \in Tensors(pii), Computed(t)'
      PROVE  env'[t] = Values(pii)[t]
  <2>1. t \in Declared(pii)
    BY <1>1, <1>2 DEF Computed
  <2>2. pii[t].op \in {"Var", "DCC"}
    BY <2>1 DEF Declared, Instrs, Declarations
  <2>3. Values(pii)[t] = Own(pii, t)
    BY <2>2, ValuesFacts DEF ValueFrom
  <2> QED
    BY <1>1, <2>1, <2>3
<1> QED
  BY <1>1, <1>2 DEF EnvMeans

\* The schedule brings every instruction after what computes its operands.
LEMMA OperandsComputed ==
  ASSUME Ranged, NEW n \in 1 .. Len(order), n = pc + 1, pc \in Nat,
         NEW x \in Operands(pii, order[n])
  PROVE  x \in Tensors(pii) /\ Computed(x)
<1>1. x \in Tensors(pii)
  BY LivesUntilUsed
<1>2. CASE x \in Instrs(pii)
  <2>1. PICK i \in 1 .. n - 1 : order[i] = x
    BY <1>2, OrderFacts DEF TopologicalOrder
  <2>2. i \in 1 .. pc
    BY <2>1
  <2> QED
    BY <1>1, <2>1, <2>2 DEF Computed
<1> QED
  BY <1>1, <1>2 DEF Computed, Declared

LEMMA RunMeans ==
  ASSUME Ranged, pc \in 0 .. Len(order), EnvMeans, Run,
         pii' = pii, order' = order
  PROVE  EnvMeans'
<1> DEFINE n == pc + 1
           t == order[n]
<1>1. pii \in Graphs /\ Len(order) \in Nat /\ DOMAIN env = Tensors(pii)
  BY OrderFacts DEF EnvMeans
<1>2. n \in 1 .. Len(order) /\ pc \in Nat
  <2>1. pc < Len(order)
    BY DEF Run
  <2> QED
    BY <1>1, <2>1
<1>3. pc' = n /\ env' = [env EXCEPT ![t] = ValueFrom(pii, t, env)]
  BY DEF Run, Value
<1>4. t \in Tensors(pii)
  BY <1>2, OrderFacts DEF Instrs
<1>5. ValueFrom(pii, t, env) = Values(pii)[t]
  <2>1. \A x \in Operands(pii, t) : env[x] = Values(pii)[x]
    BY <1>2, OperandsComputed DEF EnvMeans
  <2>2. ValueFrom(pii, t, env) = ValueFrom(pii, t, Values(pii))
    BY <1>1, <1>4, <2>1, ValueOfOperands
  <2> QED
    BY <1>1, <1>4, <2>2, ValuesFacts
<1> HIDE DEF t
<1>6. ASSUME NEW u \in Tensors(pii), Computed(u)', u # t
      PROVE  env'[u] = Values(pii)[u]
  <2>1. Computed(u)
    <3>1. ASSUME NEW j \in 1 .. n, order[j] = u PROVE j \in 1 .. pc
      BY <1>2, <1>6, <3>1 DEF t
    <3> QED
      BY <1>3, <1>6, <3>1 DEF Computed
  <2> QED
    BY <1>1, <1>3, <1>6, <2>1 DEF EnvMeans
<1>7. env'[t] = Values(pii)[t]
  BY <1>1, <1>3, <1>4, <1>5
<1> QED
  BY <1>1, <1>3, <1>6, <1>7 DEF EnvMeans

-----------------------------------------------------------------------------
(* The inductive invariant.                                                *)

Phases == {"idle", "schedule", "solve", "loaded", "abort", "refused"}

Control ==
  /\ phase \in Phases /\ ret \in {-1, 0, 1} /\ poisoned \in BOOLEAN
  /\ calls \in 0 .. MaxCalls

\* Before the first call there is no graph.
NoGraphYet ==
  calls = 0 => /\ phase = "idle" /\ pii = <<>>
               /\ stack = <<>> /\ visited = {} /\ order = <<>>

GraphScheduled == calls > 0 => SchedInv

\* Constraints are stated when dfs is done and every live range is defined.
ConstraintsMeaningful == phase \in {"solve", "loaded"} => Ranged

AddressesSolve ==
  phase = "loaded" => Solution(pii, InterferenceGraph(pii, order), addr)

PcInKernel ==
  IF phase = "loaded" THEN pc \in 0 .. Len(order) ELSE pc = 0

KernelRuns == phase = "loaded" /\ AllFit(pii) => RunInv

IInv ==
  /\ Control
  /\ NoGraphYet
  /\ GraphScheduled
  /\ ConstraintsMeaningful
  /\ AddressesSolve
  /\ PcInKernel
  /\ KernelRuns
  /\ AbortOnlyOnUnusedConstant

LEMMA InitInv == Init => IInv
<1> SUFFICES ASSUME Init PROVE IInv
  OBVIOUS
<1>1. Control
  <2>1. phase \in Phases /\ poisoned \in BOOLEAN
    BY DEF Init, Phases
  <2>2. ret \in {-1, 0, 1}
    BY DEF Init
  <2>3. calls \in 0 .. MaxCalls
    BY MallocAssumption DEF Init
  <2> QED
    BY <2>1, <2>2, <2>3 DEF Control
<1>2. NoGraphYet /\ GraphScheduled
  BY DEF Init, NoGraphYet, GraphScheduled
<1>3. phase = "idle" /\ pc = 0
  BY DEF Init
<1>4. ConstraintsMeaningful /\ AddressesSolve /\ PcInKernel /\ KernelRuns
      /\ AbortOnlyOnUnusedConstant
  BY <1>3 DEF ConstraintsMeaningful, AddressesSolve, PcInKernel, KernelRuns,
              AbortOnlyOnUnusedConstant
<1> QED
  BY <1>1, <1>2, <1>4 DEF IInv

\* A step that leaves the schedule alone leaves what is known of it alone.
LEMMA ScheduleKept ==
  ASSUME UNCHANGED svars
  PROVE  /\ pii' = pii /\ stack' = stack /\ visited' = visited /\ order' = order
         /\ SchedInv => SchedInv'
         /\ Ranged => Ranged'
<1>1. pii' = pii /\ stack' = stack /\ visited' = visited /\ order' = order
  BY DEF svars
<1>2. SchedInv => SchedInv'
  BY ScheduleStepInv
<1>3. Ranged => Ranged'
  BY <1>1, <1>2 DEF Ranged
<1> QED
  BY <1>1, <1>2, <1>3

\* Where no kernel is loaded, after a call that has begun.
LEMMA NotLoaded ==
  ASSUME Control', calls' > 0, SchedInv', pc' = 0,
         phase' \in {"idle", "schedule", "solve", "refused"},
         phase' = "solve" => Ranged'
  PROVE  IInv'
<1>1. NoGraphYet' /\ GraphScheduled' /\ ConstraintsMeaningful'
  BY DEF Control, NoGraphYet, GraphScheduled, ConstraintsMeaningful
<1>2. AddressesSolve' /\ PcInKernel' /\ KernelRuns' /\ AbortOnlyOnUnusedConstant'
  BY DEF AddressesSolve, PcInKernel, KernelRuns, AbortOnlyOnUnusedConstant
<1> QED
  BY <1>1, <1>2 DEF IInv

\* A phase other than idle belongs to a call.
LEMMA InACall ==
  ASSUME IInv, phase # "idle"
  PROVE  /\ calls \in Nat /\ calls > 0 /\ SchedInv /\ Control
         /\ pii \in Graphs
<1>1. Control /\ calls \in Nat /\ calls # 0
  BY MallocAssumption DEF IInv, Control, NoGraphYet
<1>2. SchedInv
  BY <1>1 DEF IInv, GraphScheduled
<1> QED
  BY <1>1, <1>2 DEF SchedInv, SchedType

LEMMA CallInv == ASSUME IInv, Call PROVE IInv'
<1>1. PICK g \in Graphs : Start(g)
  BY DEF Call
<1>2. SchedInv'
  BY <1>1, StartInv
<1>3. /\ phase' = "schedule" /\ ret' = -1 /\ calls' = calls + 1
      /\ poisoned' = poisoned /\ pc' = 0 /\ calls < MaxCalls
  BY DEF Call, Unloaded
<1>4. Control' /\ calls' > 0
  BY <1>3, MallocAssumption DEF IInv, Control, Phases
<1> QED
  BY <1>2, <1>3, <1>4, NotLoaded

LEMMA ScheduleInv == ASSUME IInv, Schedule PROVE IInv'
<1>1. /\ phase = "schedule" /\ phase' = phase /\ ret' = ret /\ calls' = calls
      /\ poisoned' = poisoned /\ pc' = pc /\ ScheduleStep
  BY DEF Schedule, kvars
<1>2. calls > 0 /\ SchedInv /\ Control
  BY <1>1, InACall
<1>3. SchedInv'
  BY <1>1, <1>2, ScheduleStepInv
<1>4. Control' /\ calls' > 0
  BY <1>1, <1>2 DEF Control
<1>5. pc' = 0
  BY <1>1 DEF IInv, PcInKernel
<1> QED
  BY <1>1, <1>3, <1>4, <1>5, NotLoaded

\* A call fails: dead lines, or no solution.
LEMMA FailInv ==
  ASSUME IInv, phase \in {"schedule", "solve"}, Return(1),
         UNCHANGED <<svars, kvars, poisoned, calls>>
  PROVE  IInv'
<1>1. /\ phase' = "idle" /\ ret' = 1 /\ calls' = calls
      /\ poisoned' = poisoned /\ pc' = pc /\ UNCHANGED svars
  BY DEF Return, kvars
<1>2. calls > 0 /\ SchedInv /\ Control
  BY InACall
<1>3. SchedInv'
  BY <1>1, <1>2, ScheduleKept
<1>4. Control' /\ calls' > 0
  BY <1>1, <1>2 DEF Control, Phases
<1>5. pc' = 0
  BY <1>1 DEF IInv, PcInKernel
<1> QED
  BY <1>1, <1>3, <1>4, <1>5, NotLoaded

LEMMA RefuseConstantInv == ASSUME IInv, RefuseConstant PROVE IInv'
<1>1. /\ phase = "solve" /\ phase' = "refused" /\ ret' = ret /\ calls' = calls
      /\ poisoned' = poisoned /\ pc' = pc /\ UNCHANGED svars
  BY DEF RefuseConstant, kvars
<1>2. calls > 0 /\ SchedInv /\ Control
  BY <1>1, InACall
<1>3. SchedInv'
  BY <1>1, <1>2, ScheduleKept
<1>4. Control' /\ calls' > 0
  BY <1>1, <1>2 DEF Control, Phases
<1>5. pc' = 0
  BY <1>1 DEF IInv, PcInKernel
<1> QED
  BY <1>1, <1>3, <1>4, <1>5, NotLoaded

\* An order as long as there are instructions holds all of them.
LEMMA CompleteOrder ==
  ASSUME SchedInv, Len(order) = Cardinality(Instrs(pii))
  PROVE  Ordered = Instrs(pii)
<1>1. /\ pii \in Graphs /\ order \in Seq(Instrs(pii)) /\ Len(order) \in Nat
      /\ TopologicalOrder
  BY DEF SchedInv, SchedType
<1>2. IsFiniteSet(Instrs(pii))
  <2>1. Len(pii) \in Nat /\ Instrs(pii) \subseteq 1 .. Len(pii)
    BY <1>1, GraphFacts
  <2>2. IsFiniteSet(1 .. Len(pii))
    BY <2>1, FS_Interval
  <2> QED
    BY <2>1, <2>2, FS_Subset
<1>3. order \in Injection(1 .. Len(order), Instrs(pii))
  <2>1. order \in [1 .. Len(order) -> Instrs(pii)]
    BY <1>1
  <2>2. \A i, j \in 1 .. Len(order) : order[i] = order[j] => i = j
    BY <1>1 DEF TopologicalOrder
  <2> QED
    BY <2>1, <2>2 DEF Injection, IsInjective
<1>4. Cardinality(1 .. Len(order)) = Len(order)
  BY <1>1, FS_Interval
<1>5. order \in Surjection(1 .. Len(order), Instrs(pii))
  BY <1>2, <1>3, <1>4, FS_Injection
<1> QED
  BY <1>1, <1>5 DEF Surjection, Ordered

\* An instruction that is ordered, and not the root, is used.
LEMMA OrderedIsUsed ==
  ASSUME SchedInv, stack = <<>>, NEW t \in Ordered, t # Root(pii)
  PROVE  Uses(pii, t) # {}
<1>1. /\ pii \in Graphs /\ visited = Ordered /\ visited \subseteq Instrs(pii)
      /\ OnlyNeeded
  BY DEF SchedInv, SchedType, VisitedIsOrderedOrOnStack, OnStack
<1> SUFFICES ASSUME Uses(pii, t) = {} PROVE FALSE
  OBVIOUS
<1> DEFINE S == Instrs(pii) \ {t}
<1>2. HasWhatRootNeeds(pii, S)
  <2>1. Root(pii) \in S
    BY <1>1, RootIsLast
  <2>2. \A i \in S : t \notin Operands(pii, i)
    BY DEF Uses
  <2> QED
    BY <2>1, <2>2 DEF HasWhatRootNeeds
<1>3. visited \subseteq S
  BY <1>1, <1>2 DEF OnlyNeeded
<1> QED
  BY <1>1, <1>3

LEMMA ConstrainInv == ASSUME IInv, Constrain PROVE IInv'
<1>1. /\ phase = "schedule" /\ ret' = ret /\ calls' = calls /\ pc' = pc
      /\ UNCHANGED svars /\ stack = <<>> /\ Len(order) = Cardinality(Instrs(pii))
  BY DEF Constrain, kvars
<1>2. calls > 0 /\ SchedInv /\ Control /\ pii \in Graphs
  BY <1>1, InACall
<1>3. SchedInv' /\ pii' = pii /\ stack' = stack /\ order' = order
  BY <1>1, <1>2, ScheduleKept
<1>4. pc' = 0
  BY <1>1 DEF IInv, PcInKernel
<1>5. CASE \E t \in Tensors(pii) : NoLiveRange(pii, order, t)
  <2>1. phase' = "abort" /\ poisoned' = poisoned
    BY <1>5 DEF Constrain
  <2>2. PICK t \in Tensors(pii) : NoLiveRange(pii, order, t)
    BY <1>5
  <2>3. Ordered = Instrs(pii)
    BY <1>1, <1>2, CompleteOrder
  <2>4. TensorType(pii, t) = "INTERMEDIATE" => t \in Instrs(pii) /\ t # Root(pii)
    BY DEF TensorType, Instrs, Declarations
  <2>5. TensorType(pii, t) = "INTERMEDIATE" => Uses(pii, t) # {}
    BY <1>1, <1>2, <2>3, <2>4, OrderedIsUsed
  <2>6. Uses(pii, t) \subseteq Instrs(pii)
    BY DEF Uses
  <2>7. TensorType(pii, t) = "CONSTANT" /\ Uses(pii, t) = {}
    BY <2>2, <2>3, <2>4, <2>5, <2>6 DEF NoLiveRange, Ordered
  <2>8. AbortOnlyOnUnusedConstant'
    BY <1>3, <2>7 DEF AbortOnlyOnUnusedConstant
  <2>9. Control' /\ calls' > 0
    BY <1>1, <1>2, <2>1 DEF Control, Phases
  <2>10. NoGraphYet' /\ GraphScheduled' /\ ConstraintsMeaningful'
    BY <1>3, <2>1, <2>9 DEF NoGraphYet, GraphScheduled, ConstraintsMeaningful
  <2>11. AddressesSolve' /\ PcInKernel' /\ KernelRuns'
    BY <1>4, <2>1 DEF AddressesSolve, PcInKernel, KernelRuns
  <2> QED
    BY <2>8, <2>9, <2>10, <2>11 DEF IInv
<1>6. CASE ~\E t \in Tensors(pii) : NoLiveRange(pii, order, t)
  <2>1. phase' = "solve"
    BY <1>6 DEF Constrain
  <2>2. poisoned' \in BOOLEAN
    BY <1>2, <1>6, Zenon DEF Constrain, Control
  <2>3. Ranged'
    BY <1>1, <1>2, <1>6, ScheduleKept DEF Ranged
  <2>4. Control' /\ calls' > 0
    BY <1>1, <1>2, <2>1, <2>2 DEF Control, Phases
  <2> QED
    BY <1>3, <1>4, <2>1, <2>3, <2>4, NotLoaded
<1> QED
  BY <1>5, <1>6

LEMMA SolveInv == ASSUME IInv, Solve PROVE IInv'
<1>1. /\ phase = "solve" /\ phase' = "loaded" /\ ret' = 0 /\ calls' = calls
      /\ poisoned' = poisoned /\ UNCHANGED svars
  BY DEF Solve, Return
<1>2. calls > 0 /\ SchedInv /\ Control
  BY <1>1, InACall
<1>3. Ranged
  BY <1>1 DEF IInv, ConstraintsMeaningful
<1>4. /\ SchedInv' /\ Ranged'
      /\ pii' = pii /\ stack' = stack /\ order' = order
  BY <1>1, <1>2, <1>3, ScheduleKept
<1>5. PICK ad \in Solutions(pii, order) : Load(ad)
  BY DEF Solve
<1>6. Solution(pii, InterferenceGraph(pii, order), ad)
  BY <1>5 DEF Solutions
<1>7. addr' = ad /\ pc' = 0
  BY <1>5 DEF Load
<1>8. AddressesSolve'
  <2>1. Solution(pii', InterferenceGraph(pii', order'), addr')
    BY <1>4, <1>6, <1>7
  <2> QED
    BY <2>1 DEF AddressesSolve, Solution, InterferenceGraph
<1>9. KernelRuns'
  <2>1. ASSUME AllFit(pii) PROVE RunInv'
    BY <1>3, <1>4, <1>5, <1>6, <2>1, LoadIntact DEF Placed
  <2> QED
    BY <1>4, <2>1 DEF KernelRuns
<1>10. PcInKernel'
  <2>1. Len(order) \in Nat
    BY <1>3, OrderFacts
  <2> QED
    BY <1>1, <1>4, <1>7, <2>1 DEF PcInKernel
<1>11. Control' /\ calls' > 0
  BY <1>1, <1>2 DEF Control, Phases
<1>12. NoGraphYet' /\ GraphScheduled' /\ ConstraintsMeaningful' /\ AbortOnlyOnUnusedConstant'
  BY <1>1, <1>4, <1>11
     DEF NoGraphYet, GraphScheduled, ConstraintsMeaningful, AbortOnlyOnUnusedConstant
<1> QED
  BY <1>8, <1>9, <1>10, <1>11, <1>12 DEF IInv

LEMMA RunKernelInv == ASSUME IInv, RunKernel PROVE IInv'
<1>1. /\ phase = "loaded" /\ phase' = phase /\ ret' = ret /\ calls' = calls
      /\ poisoned' = poisoned /\ UNCHANGED svars /\ Run
  BY DEF RunKernel
<1>2. calls > 0 /\ SchedInv /\ Control
  BY <1>1, InACall
<1>3. Ranged /\ Solution(pii, InterferenceGraph(pii, order), addr)
      /\ pc \in 0 .. Len(order)
  BY <1>1 DEF IInv, ConstraintsMeaningful, AddressesSolve, PcInKernel
<1>4. /\ SchedInv' /\ Ranged'
      /\ pii' = pii /\ stack' = stack /\ order' = order
  BY <1>1, <1>2, <1>3, ScheduleKept
<1>5. addr' = addr /\ pc' = pc + 1 /\ pc < Len(order)
  BY <1>1 DEF Run
<1>6. AddressesSolve'
  <2>1. Solution(pii', InterferenceGraph(pii', order'), addr')
    BY <1>3, <1>4, <1>5
  <2> QED
    BY <2>1 DEF AddressesSolve
<1>7. KernelRuns'
  <2>1. ASSUME AllFit(pii) PROVE RunInv'
    <3>1. Placed(addr)
      BY <1>3, <2>1 DEF Placed
    <3>2. RunInv
      BY <1>1, <2>1 DEF IInv, KernelRuns
    <3> QED
      BY <1>1, <1>4, <3>1, <3>2, RunIntact
  <2> QED
    BY <1>4, <2>1 DEF KernelRuns
<1>8. PcInKernel'
  <2>1. Len(order) \in Nat
    BY <1>3, OrderFacts
  <2>2. pc + 1 \in 0 .. Len(order)
    BY <1>3, <1>5, <2>1
  <2> QED
    BY <1>1, <1>4, <1>5, <2>2 DEF PcInKernel
<1>9. Control' /\ calls' > 0
  BY <1>1, <1>2 DEF Control
<1>10. NoGraphYet' /\ GraphScheduled' /\ ConstraintsMeaningful' /\ AbortOnlyOnUnusedConstant'
  BY <1>1, <1>4, <1>9
     DEF NoGraphYet, GraphScheduled, ConstraintsMeaningful, AbortOnlyOnUnusedConstant
<1> QED
  BY <1>6, <1>7, <1>8, <1>9, <1>10 DEF IInv

LEMMA StutterInv == ASSUME IInv, UNCHANGED vars PROVE IInv'
<1>1. /\ phase' = phase /\ ret' = ret /\ calls' = calls /\ poisoned' = poisoned
      /\ UNCHANGED svars /\ addr' = addr /\ pc' = pc /\ env' = env /\ mem' = mem
  BY DEF vars, kvars
<1>2. /\ pii' = pii /\ stack' = stack /\ visited' = visited /\ order' = order
      /\ SchedInv => SchedInv'
      /\ Ranged => Ranged'
  BY <1>1, ScheduleKept
<1>3. Control' /\ NoGraphYet' /\ GraphScheduled'
  <2>1. Control'
    BY <1>1 DEF IInv, Control
  <2>2. NoGraphYet'
    BY <1>1, <1>2 DEF IInv, NoGraphYet
  <2>3. GraphScheduled'
    BY <1>1, <1>2 DEF IInv, GraphScheduled
  <2> QED
    BY <2>1, <2>2, <2>3
<1>4. ConstraintsMeaningful' /\ AddressesSolve' /\ PcInKernel'
  <2>1. ConstraintsMeaningful'
    BY <1>1, <1>2 DEF IInv, ConstraintsMeaningful
  <2>2. AddressesSolve'
    BY <1>1, <1>2 DEF IInv, AddressesSolve
  <2>3. PcInKernel'
    BY <1>1, <1>2 DEF IInv, PcInKernel
  <2> QED
    BY <2>1, <2>2, <2>3
<1>5. KernelRuns'
  <2>1. RunInv => RunInv'
    BY <1>1, <1>2 DEF RunInv, NeededTensorsIntact, Computed, Needed
  <2> QED
    BY <1>1, <1>2, <2>1 DEF IInv, KernelRuns
<1>6. AbortOnlyOnUnusedConstant'
  BY <1>1, <1>2 DEF IInv, AbortOnlyOnUnusedConstant
<1> QED
  BY <1>3, <1>4, <1>5, <1>6 DEF IInv

LEMMA IInvNext == IInv /\ [Next]_vars => IInv'
<1> SUFFICES ASSUME IInv, [Next]_vars PROVE IInv'
  OBVIOUS
<1>1. CASE DeadLines
  <2>1. phase = "schedule" /\ Return(1) /\ UNCHANGED <<svars, kvars, poisoned, calls>>
    BY <1>1 DEF DeadLines
  <2> QED
    BY <2>1, FailInv
<1>2. CASE NoSolution
  <2>1. phase = "solve" /\ Return(1) /\ UNCHANGED <<svars, kvars, poisoned, calls>>
    BY <1>2 DEF NoSolution
  <2> QED
    BY <2>1, FailInv
<1>3. CASE Quiet
  BY <1>3, StutterInv DEF Quiet
<1> QED
  BY <1>1, <1>2, <1>3, CallInv, ScheduleInv, ConstrainInv, SolveInv,
     RefuseConstantInv, RunKernelInv, StutterInv DEF Next

LEMMA IInvAlways == Spec => []IInv
<1> QED
  BY InitInv, IInvNext, PTL DEF Spec

-----------------------------------------------------------------------------
(* The theorems.                                                           *)

\* Every variable has its type: in particular, the schedule consists of
\* instructions of the graph, and an emitted kernel has an address for every
\* tensor.
THEOREM TypeCorrect == Spec => []TypeOK
<1>1. IInv => TypeOK
  <2> SUFFICES ASSUME IInv PROVE TypeOK
    OBVIOUS
  <2>1. Control /\ calls \in Nat
    BY MallocAssumption DEF IInv, Control
  <2>2. /\ phase \in Phases /\ ret \in {-1, 0, 1} /\ poisoned \in BOOLEAN
        /\ calls \in 0 .. MaxCalls
    BY <2>1 DEF Control
  <2>3. /\ pii = <<>> \/ ValidGraph(pii)
        /\ order \in Seq(Instrs(pii)) /\ visited \subseteq Instrs(pii)
        /\ stack \in Seq([instr : Instrs(pii), todo : Seq(Instrs(pii))])
    <3>1. CASE calls = 0
      <4>1. /\ pii = <<>> /\ order = <<>> /\ visited = {} /\ stack = <<>>
        BY <3>1 DEF IInv, NoGraphYet
      <4> QED
        BY <4>1, EmptySeq
    <3>2. CASE calls # 0
      <4>1. SchedInv
        BY <2>1, <3>2 DEF IInv, GraphScheduled
      <4> QED
        BY <4>1, GraphAssumption DEF SchedInv, SchedType, Frame
    <3> QED
      BY <3>1, <3>2
  <2>4. pc \in 0 .. Len(order)
    <3>1. Len(order) \in Nat
      BY <2>3
    <3> QED
      BY <3>1 DEF IInv, PcInKernel
  <2>5. phase = "loaded" => addr \in [Tensors(pii) -> Nat]
    BY DEF IInv, AddressesSolve, Solution
  <2> QED
    BY <2>2, <2>3, <2>4, <2>5 DEF TypeOK, Phases
<1> QED
  BY <1>1, IInvAlways, PTL

\* No schedule runs an instruction before one that computes its operand, or
\* twice (scheduler.cc, dfs).
THEOREM ScheduleIsTopological == Spec => []TopologicalOrder
<1>1. IInv => TopologicalOrder
  <2>1. ASSUME IInv, calls = 0 PROVE TopologicalOrder
    <3>1. Len(order) = 0
      BY <2>1 DEF IInv, NoGraphYet
    <3> QED
      BY <3>1 DEF TopologicalOrder
  <2>2. ASSUME IInv, calls # 0 PROVE TopologicalOrder
    <3>1. calls > 0
      BY <2>2, MallocAssumption DEF IInv, Control
    <3> QED
      BY <2>2, <3>1 DEF IInv, GraphScheduled, SchedInv
  <2> QED
    BY <2>1, <2>2
<1> QED
  BY <1>1, IInvAlways, PTL

\* When dfs has returned, it has ordered what the root needs and nothing else
\* (scheduler.cc, dfs; act_malloc.cc compares the length of the order with the
\* number of instructions).
THEOREM ScheduleIsComplete == Spec => []OrdersWhatRootNeeds
<1>1. IInv => OrdersWhatRootNeeds
  <2>1. ASSUME IInv, calls = 0 PROVE OrdersWhatRootNeeds
    BY <2>1 DEF IInv, NoGraphYet, OrdersWhatRootNeeds
  <2>2. ASSUME IInv, calls # 0 PROVE OrdersWhatRootNeeds
    <3>1. calls > 0
      BY <2>2, MallocAssumption DEF IInv, Control
    <3> QED
      BY <2>2, <3>1, SchedInvCovers DEF IInv, GraphScheduled
  <2> QED
    BY <2>1, <2>2
<1> QED
  BY <1>1, IInvAlways, PTL

\* The process aborts over a live range only where a constant has no use
\* (constraint.cc, compute_live_range).
THEOREM AbortsOnUnusedConstants == Spec => []AbortOnlyOnUnusedConstant
<1>1. IInv => AbortOnlyOnUnusedConstant
  BY DEF IInv
<1> QED
  BY <1>1, IInvAlways, PTL

\* No instruction of an emitted kernel destroys a value that is still needed,
\* for every graph whose tensors fit, every schedule dfs can choose and every
\* solution the solver can return (constraint.cc, build_interference_graph).
THEOREM KernelsKeepValues == Spec => []KernelIntact
<1>1. IInv => KernelIntact
  BY DEF IInv, KernelRuns, KernelIntact, RunInv
<1> QED
  BY <1>1, IInvAlways, PTL

\* An emitted kernel computes the value of its graph.
THEOREM KernelsAreCorrect == Spec => []KernelCorrect
<1>1. IInv => KernelCorrect
  <2> SUFFICES ASSUME IInv, phase = "loaded", AllFit(pii), pc = Len(order)
               PROVE  Read(pii, addr, mem, Root(pii)) = env[Root(pii)]
    BY DEF KernelCorrect, OutputCorrect
  <2>1. Ranged /\ NeededTensorsIntact
    BY DEF IInv, ConstraintsMeaningful, KernelRuns, RunInv
  <2>2. /\ Len(order) \in Nat \ {0} /\ order[Len(order)] = Root(pii)
        /\ pii \in Graphs
    BY <2>1, OrderFacts
  <2>3. Root(pii) \in Tensors(pii)
    BY <2>2, RootIsLast DEF Instrs
  <2>4. Len(order) \in 1 .. pc
    BY <2>2
  <2>5. Computed(Root(pii))
    BY <2>2, <2>4 DEF Computed
  <2>6. Needed(Root(pii))
    BY DEF Needed
  <2> QED
    BY <2>1, <2>3, <2>5, <2>6 DEF NeededTensorsIntact
<1> QED
  BY <1>1, IInvAlways, PTL

-----------------------------------------------------------------------------
(* The refinement: act_malloc and the kernels it emits are the sound       *)
(* compiler.  It needs one more invariant, what the graph beside the       *)
(* machine has computed, and that a schedule is complete when its live     *)
(* ranges are defined.                                                     *)

KernelMeans == phase = "loaded" => EnvMeans

LEMMA KernelMeansNext ==
  ASSUME IInv, KernelMeans, [Next]_vars
  PROVE  KernelMeans'
<1> SUFFICES ASSUME phase' = "loaded" PROVE EnvMeans'
  BY DEF KernelMeans
<1>1. CASE Solve
  <2>1. phase = "solve" /\ UNCHANGED svars
    BY <1>1 DEF Solve
  <2>2. pii \in Graphs
    BY <2>1, InACall
  <2>3. pii' = pii /\ order' = order
    BY <2>1 DEF svars
  <2>4. PICK ad \in Solutions(pii, order) : Load(ad)
    BY <1>1 DEF Solve
  <2> QED
    BY <2>2, <2>3, <2>4, LoadMeans
<1>2. CASE RunKernel
  <2>1. phase = "loaded" /\ UNCHANGED svars /\ Run
    BY <1>2 DEF RunKernel
  <2>2. Ranged /\ pc \in 0 .. Len(order) /\ EnvMeans
    BY <2>1 DEF IInv, ConstraintsMeaningful, PcInKernel, KernelMeans
  <2>3. pii' = pii /\ order' = order
    BY <2>1 DEF svars
  <2> QED
    BY <2>1, <2>2, <2>3, RunMeans
<1>3. CASE UNCHANGED vars
  <2>1. /\ phase = "loaded" /\ pii' = pii /\ order' = order
        /\ env' = env /\ pc' = pc
    BY <1>3 DEF vars, svars, kvars
  <2>2. EnvMeans
    BY <2>1 DEF KernelMeans
  <2> QED
    BY <2>1, <2>2 DEF EnvMeans, Computed
<1>4. CASE Quiet
  BY <1>3, <1>4 DEF Quiet
<1>5. ~(Call \/ Schedule \/ DeadLines \/ Constrain \/ RefuseConstant \/ NoSolution)
  <2>1. ~Call /\ ~Constrain /\ ~RefuseConstant
    BY DEF Call, Constrain, RefuseConstant
  <2>2. ~Schedule /\ ~DeadLines /\ ~NoSolution
    BY DEF Schedule, DeadLines, NoSolution, Return
  <2> QED
    BY <2>1, <2>2
<1> QED
  BY <1>1, <1>2, <1>3, <1>4, <1>5 DEF Next

LEMMA KernelMeansAlways == Spec => []KernelMeans
<1>1. Init => KernelMeans
  BY DEF Init, KernelMeans
<1>2. IInv /\ KernelMeans /\ [Next]_vars => KernelMeans'
  BY KernelMeansNext
<1> QED
  BY <1>1, <1>2, IInvAlways, PTL DEF Spec

\* When every live range is defined, all lines have been ordered, and so the
\* root needs them all.
LEMMA RangedHasNoDeadLines ==
  ASSUME Ranged
  PROVE  NoDeadLines(pii)
<1>1. /\ SchedInv /\ stack = <<>> /\ order # <<>>
      /\ order[Len(order)] = Root(pii) /\ Len(order) \in Nat \ {0}
  BY OrderFacts DEF Ranged
<1>2. \A S \in SUBSET Instrs(pii) : HasWhatRootNeeds(pii, S) => Ordered \subseteq S
  BY <1>1, SchedInvCovers DEF OrdersWhatRootNeeds
<1>3. ASSUME NEW t \in Instrs(pii) PROVE t \in Ordered
  <2>1. CASE t = Root(pii)
    <3>1. Len(order) \in 1 .. Len(order)
      BY <1>1
    <3> QED
      BY <1>1, <2>1, <3>1 DEF Ordered
  <2>2. CASE t # Root(pii)
    <3>1. t \in Tensors(pii) /\ TensorType(pii, t) = "INTERMEDIATE"
      BY <2>2 DEF Instrs, TensorType, Declarations
    <3>2. ~NoLiveRange(pii, order, t)
      BY <3>1 DEF Ranged
    <3> QED
      BY <3>1, <3>2 DEF NoLiveRange, Ordered
  <2> QED
    BY <2>1, <2>2
<1> QED
  BY <1>2, <1>3 DEF NoDeadLines

\* A kernel that has run has left the meaning of its graph in the output.
FinishedMeans ==
  phase = "loaded" /\ pc = Len(order) /\ AllFit(pii)
    => Read(pii, addr, mem, Root(pii)) = Meaning(pii)

LEMMA FinishedMeansAlways == Spec => []FinishedMeans
<1>1. IInv /\ KernelMeans => FinishedMeans
  <2> SUFFICES ASSUME IInv, KernelMeans,
                      phase = "loaded", pc = Len(order), AllFit(pii)
               PROVE  Read(pii, addr, mem, Root(pii)) = Meaning(pii)
    BY DEF FinishedMeans
  <2>1. Ranged /\ NeededTensorsIntact /\ EnvMeans
    BY DEF IInv, ConstraintsMeaningful, KernelRuns, RunInv, KernelMeans
  <2>2. /\ Len(order) \in Nat \ {0} /\ order[Len(order)] = Root(pii)
        /\ pii \in Graphs
    BY <2>1, OrderFacts
  <2>3. Root(pii) \in Tensors(pii)
    BY <2>2, RootIsLast DEF Instrs
  <2>4. Len(order) \in 1 .. pc
    BY <2>2
  <2>5. Computed(Root(pii)) /\ Needed(Root(pii))
    BY <2>2, <2>4 DEF Computed, Needed
  <2>6. Read(pii, addr, mem, Root(pii)) = env[Root(pii)]
    BY <2>1, <2>3, <2>5 DEF NeededTensorsIntact
  <2>7. env[Root(pii)] = Values(pii)[Root(pii)]
    BY <2>1, <2>3, <2>5 DEF EnvMeans
  <2> QED
    BY <2>6, <2>7 DEF Meaning
<1> QED
  BY <1>1, IInvAlways, KernelMeansAlways, PTL

\* Nothing is to be seen of a step that leaves the status, the graph and an
\* unfinished kernel alone.
LEMMA Invisible ==
  ASSUME Status' = Status, Status # "finished", pii' = pii
  PROVE  UNCHANGED Compiler!cvars
<1>1. Result' = Result
  BY DEF Result
<1> QED
  BY <1>1 DEF Compiler!cvars

LEMMA StepRefines ==
  ASSUME IInv, IInv', FinishedMeans', [Next]_vars
  PROVE  [Compiler!Next]_Compiler!cvars
<1>1. CASE Call
  <2>1. PICK g \in Graphs : Start(g)
    BY <1>1 DEF Call
  <2>2. pii' = g /\ ValidGraph(g)
    BY <2>1, GraphAssumption DEF Start
  <2>3. phase \in {"idle", "loaded"} /\ (phase = "loaded" => pc = Len(order))
        /\ phase' = "schedule"
    BY <1>1 DEF Call
  <2>4. Status \in {"refused", "finished"}
    <3>1. CASE phase = "idle"
      BY <3>1 DEF Status
    <3>2. CASE phase = "loaded"
      <4>1. ~(pc < Len(order))
        <5>1. pc \in 0 .. Len(order) /\ Len(order) \in Nat
          BY <3>2, OrderFacts DEF IInv, PcInKernel, ConstraintsMeaningful
        <5> QED
          BY <2>3, <3>2, <5>1
      <4> QED
        BY <3>2, <4>1 DEF Status
    <3> QED
      BY <2>3, <3>1, <3>2
  <2>5. Status' = "compiling"
    BY <2>3 DEF Status
  <2>6. Result' = <<>>
    BY <2>5 DEF Result
  <2> QED
    BY <2>2, <2>4, <2>5, <2>6 DEF Compiler!Next, Compiler!Submit, Compiler!Nothing
<1>2. CASE Schedule
  <2>1. phase = "schedule" /\ phase' = phase /\ pii' = pii
    BY <1>2 DEF Schedule, ScheduleStep, Skip, Descend, Emit
  <2>2. Status = "compiling" /\ Status' = "compiling"
    BY <2>1 DEF Status
  <2> QED
    BY <2>1, <2>2, Invisible
<1>3. CASE DeadLines \/ NoSolution
  <2>1. phase \in {"schedule", "solve"} /\ phase' = "idle" /\ pii' = pii
    BY <1>3 DEF DeadLines, NoSolution, Return, svars
  <2>2. Status = "compiling" /\ Status' = "refused"
    BY <2>1 DEF Status
  <2>3. Result' = Result
    BY <2>2 DEF Result
  <2> QED
    BY <2>1, <2>2, <2>3 DEF Compiler!Next, Compiler!Refuse
<1>4. CASE Constrain
  <2>1. /\ phase = "schedule" /\ phase' \in {"abort", "solve"}
        /\ pii' = pii
    BY <1>4 DEF Constrain, svars
  <2>2. Status = "compiling"
    BY <2>1 DEF Status
  <2>3. CASE phase' = "abort"
    <3>1. Status' = "aborted"
      BY <2>3 DEF Status
    <3>2. Result' = Result
      BY <2>2, <3>1 DEF Result
    <3>3. HasConstants(pii)
      BY <2>1, <2>3 DEF IInv, AbortOnlyOnUnusedConstant, HasConstants
    <3> QED
      BY <2>1, <2>2, <3>1, <3>2, <3>3 DEF Compiler!Next, Compiler!Abort
  <2>4. CASE phase' = "solve"
    <3>1. Status' = "compiling"
      BY <2>4 DEF Status
    <3> QED
      BY <2>1, <2>2, <3>1, Invisible
  <2> QED
    BY <2>1, <2>3, <2>4
<1>5. CASE Solve
  <2>1. phase = "solve" /\ phase' = "loaded" /\ pii' = pii /\ order' = order
    BY <1>5 DEF Solve, Return, svars
  <2>2. pc' = 0
    BY <1>5 DEF Solve, Load
  <2>3. Ranged
    BY <2>1 DEF IInv, ConstraintsMeaningful
  <2>4. Len(order) \in Nat \ {0} /\ NoDeadLines(pii)
    BY <2>3, OrderFacts, RangedHasNoDeadLines
  <2>5. pc' < Len(order')
    BY <2>1, <2>2, <2>4
  <2>6. Status = "compiling" /\ Status' = "generated"
    BY <2>1, <2>5 DEF Status
  <2>7. Result' = Result
    BY <2>6 DEF Result
  <2> QED
    BY <2>1, <2>4, <2>6, <2>7 DEF Compiler!Next, Compiler!Generate
<1>6. CASE RefuseConstant
  <2>1. phase = "solve" /\ phase' = "refused" /\ pii' = pii /\ HasConstants(pii)
    BY <1>6 DEF RefuseConstant, svars
  <2>2. Status = "compiling" /\ Status' = "aborted"
    BY <2>1 DEF Status
  <2>3. Result' = Result
    BY <2>2 DEF Result
  <2> QED
    BY <2>1, <2>2, <2>3 DEF Compiler!Next, Compiler!Abort
<1>7. CASE RunKernel
  <2>1. /\ phase = "loaded" /\ phase' = "loaded" /\ pii' = pii /\ order' = order
        /\ pc < Len(order) /\ pc' = pc + 1
    BY <1>7 DEF RunKernel, Run, svars
  <2>2. Status = "generated"
    BY <2>1 DEF Status
  <2>3. CASE pc' < Len(order')
    <3>1. Status' = "generated"
      BY <2>1, <2>3 DEF Status
    <3> QED
      BY <2>1, <2>2, <3>1, Invisible
  <2>4. CASE ~(pc' < Len(order'))
    <3>1. Status' = "finished"
      BY <2>1, <2>4 DEF Status
    <3>2. pc' = Len(order')
      <4>1. pc \in 0 .. Len(order) /\ Len(order) \in Nat
        BY <2>1, OrderFacts DEF IInv, PcInKernel, ConstraintsMeaningful
      <4> QED
        BY <2>1, <2>4, <4>1
    <3>3. AllFit(pii)' => Read(pii, addr, mem, Root(pii))' = Meaning(pii)'
      BY <2>1, <3>2 DEF FinishedMeans
    <3>4. AllFit(pii) => Result' = Meaning(pii)
      BY <2>1, <3>1, <3>3 DEF Result
    <3> QED
      BY <2>1, <2>2, <3>1, <3>4 DEF Compiler!Next, Compiler!Execute
  <2> QED
    BY <2>3, <2>4
<1>8. CASE UNCHANGED vars
  <2>1. /\ phase' = phase /\ pii' = pii /\ order' = order /\ pc' = pc
        /\ addr' = addr /\ mem' = mem
    BY <1>8 DEF vars, svars, kvars
  <2>2. Status' = Status
    BY <2>1 DEF Status
  <2>3. Result' = Result
    BY <2>1, <2>2 DEF Result
  <2> QED
    BY <2>1, <2>2, <2>3 DEF Compiler!cvars
<1>9. CASE Quiet
  BY <1>8, <1>9 DEF Quiet
<1> QED
  BY <1>1, <1>2, <1>3, <1>4, <1>5, <1>6, <1>7, <1>8, <1>9 DEF Next

\* act_malloc and the kernels it emits implement the sound compiler, for all
\* graphs, schedules and solutions: a graph is refused, or its kernel leaves
\* in the output what the lines mean (README.md:18).
THEOREM AllocatorIsSound == Spec => ImplementsCompiler
<1>1. Init => Compiler!Init
  <2> SUFFICES ASSUME Init PROVE Compiler!Init
    OBVIOUS
  <2>1. pii = <<>> /\ Status = "refused"
    BY DEF Init, Status
  <2>2. Result = <<>>
    BY <2>1 DEF Result
  <2> QED
    BY <2>1, <2>2 DEF Compiler!Init, Compiler!Nothing
<1>2. IInv /\ IInv' /\ FinishedMeans' /\ [Next]_vars => [Compiler!Next]_Compiler!cvars
  BY StepRefines
<1> QED
  BY <1>1, <1>2, IInvAlways, FinishedMeansAlways, PTL
     DEF Spec, ImplementsCompiler, Compiler!Spec

=============================================================================
