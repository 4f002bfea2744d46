------------------------------- MODULE Malloc -------------------------------
(***************************************************************************)
(* The memory allocator behind the pipeline (cpp/malloc/src/act_malloc.cc): *)
(* calls of act_malloc, one PII graph after the other, in one process.     *)
(* Each call parses the graph, orders its instructions, states a           *)
(* constraint satisfaction problem, lets a solver with a time limit look   *)
(* for addresses, and emits a kernel, which is then run.  What one call    *)
(* leaves for the next is the global solver, with every constraint it has  *)
(* ever been given.                                                        *)
(***************************************************************************)
EXTENDS KernelRun

CONSTANT MaxCalls   \* bound: calls of act_malloc in a process

ASSUME MallocAssumption == MaxCalls \in Nat

VARIABLES phase,   \* where act_malloc is
          ret,     \* what its last call returned, -1 before it has
          poisoned,\* constraints of an earlier call refute any problem
          calls    \* calls so far

vars == <<svars, kvars, phase, ret, poisoned, calls>>

NoFunction == <<>>

\* No kernel is loaded.
Unloaded == addr' = NoFunction /\ pc' = 0 /\ env' = NoFunction
            /\ mem' = NoFunction

Init ==
  /\ pii = <<>> /\ stack = <<>> /\ visited = {} /\ order = <<>>
  /\ addr = NoFunction /\ pc = 0 /\ env = NoFunction /\ mem = NoFunction
  /\ phase = "idle" /\ ret = -1 /\ poisoned = FALSE /\ calls = 0

\* Mutant: the kernel counts as emitted whatever the solver says.
ReturnEmitted(r) ==
  /\ ret' = r
  /\ phase' = "loaded"

\* act_malloc returns r, 0 if it has emitted a kernel.
Return(r) ==
  /\ ret' = r
  /\ phase' = IF r = 0 THEN "loaded" ELSE "idle"

\* act_malloc is called: it parses a graph, makes the result of the last
\* instruction the output and starts ordering from it.
Call ==
  /\ phase \in {"idle", "loaded"} /\ calls < MaxCalls
  /\ phase = "loaded" => pc = Len(order)
  /\ \E g \in Graphs : Start(g)
  /\ Unloaded
  /\ phase' = "schedule"
  /\ ret' = -1
  /\ calls' = calls + 1
  /\ UNCHANGED poisoned

Schedule ==
  /\ phase = "schedule"
  /\ ScheduleStep
  /\ UNCHANGED <<kvars, phase, ret, poisoned, calls>>

\* Some instruction is not needed for the result: its line is dead, and the
\* call fails.
DeadLines ==
  /\ phase = "schedule" /\ stack = <<>>
  /\ Len(order) # Cardinality(Instrs(pii))
  /\ Return(1)
  /\ UNCHANGED <<svars, kvars, poisoned, calls>>

\* Mutant: constraints are stated whatever the length of the order.
ConstrainUnchecked ==
  /\ phase = "schedule" /\ stack = <<>>
  /\ IF \E t \in Tensors(pii) : NoLiveRange(pii, order, t)
     THEN phase' = "abort" /\ UNCHANGED poisoned
     ELSE phase' = "solve" /\ UNCHANGED poisoned
  /\ UNCHANGED <<svars, kvars, ret, calls>>

\* The constraints are added to the solver, where they stay.  Whether they
\* are such that propagation alone refutes them depends on the propagators:
\* never if there is a solution, always for a pair that cannot be separated.
Constrain ==
  /\ phase = "schedule" /\ stack = <<>>
  /\ Len(order) = Cardinality(Instrs(pii))
  /\ IF \E t \in Tensors(pii) : NoLiveRange(pii, order, t)
     THEN phase' = "abort" /\ UNCHANGED poisoned
     ELSE /\ phase' = "solve"
          /\ \E refuted \in BOOLEAN :
               /\ Refuted(pii, order) => refuted
               /\ refuted => Solutions(pii, order) = {}
               /\ poisoned' = (poisoned \/ refuted)
  /\ UNCHANGED <<svars, kvars, ret, calls>>

\* The solver finds addresses; the emitter writes the kernel.
Solve ==
  /\ phase = "solve" /\ ~poisoned
  /\ \E ad \in Solutions(pii, order) : Load(ad)
  /\ Return(0)
  /\ UNCHANGED <<svars, poisoned, calls>>

HasConstants(g) == \E t \in Tensors(g) : TensorType(g, t) = "CONSTANT"

\* The solver has found addresses, but there is a constant whose value the
\* emitter cannot write as bytes: the process aborts.
RefuseConstant ==
  /\ phase = "solve" /\ ~poisoned
  /\ Solutions(pii, order) # {}
  /\ HasConstants(pii)
  /\ phase' = "refused"
  /\ UNCHANGED <<svars, kvars, ret, poisoned, calls>>

\* There is no solution, or none was found in half a second.
NoSolution ==
  /\ phase = "solve"
  /\ Return(1)
  /\ UNCHANGED <<svars, kvars, poisoned, calls>>

RunKernel ==
  /\ phase = "loaded"
  /\ Run
  /\ UNCHANGED <<svars, phase, ret, poisoned, calls>>

\* The process has made its calls, or has been aborted.
Quiet ==
  /\ \/ phase \in {"abort", "refused"}
     \/ phase = "idle" /\ calls = MaxCalls
     \/ phase = "loaded" /\ pc = Len(order) /\ calls = MaxCalls
  /\ UNCHANGED vars

Next ==
  \/ Call
  \/ Schedule \/ DeadLines \/ Constrain
  \/ Solve \/ RefuseConstant \/ NoSolution
  \/ RunKernel
  \/ Quiet

Spec == Init /\ [][Next]_vars

-----------------------------------------------------------------------------

\* Every variable has its type.
TypeOK ==
  /\ phase \in {"idle", "schedule", "solve", "loaded", "abort", "refused"}
  /\ ret \in {-1, 0, 1} /\ poisoned \in BOOLEAN /\ calls \in 0 .. MaxCalls
  /\ pii = <<>> \/ ValidGraph(pii)
  /\ order \in Seq(Instrs(pii)) /\ visited \subseteq Instrs(pii)
  /\ stack \in Seq([instr : Instrs(pii), todo : Seq(Instrs(pii))])
  /\ pc \in 0 .. Len(order)
  /\ phase = "loaded" => addr \in [Tensors(pii) -> Nat]

\* At every point of the run of an emitted kernel, whatever is still to be
\* read is unharmed, if every tensor fits in its buffer (constraint.cc,
\* overlap_constraints: live ranges that only touch may share addresses, and
\* slices and concatenations lie on their operands).
KernelIntact == phase = "loaded" /\ AllFit(pii) => NeededTensorsIntact

\* And when it has run, the output tensor holds what the graph computes.
KernelCorrect == phase = "loaded" /\ AllFit(pii) => OutputCorrect

\* Once every instruction is known to be ordered, no live range is undefined
\* for want of a use or of a place in the order (constraint.cc:120-174): the
\* process aborts only on a constant that no line of the graph uses.
AbortOnlyOnUnusedConstant ==
  phase = "abort" =>
    \E t \in Tensors(pii) : TensorType(pii, t) = "CONSTANT" /\ Uses(pii, t) = {}

\* What is seen of act_malloc, and of memory, from outside.
Status ==
  IF phase = "idle" THEN "refused"
  ELSE IF phase \in {"schedule", "solve"} THEN "compiling"
  ELSE IF phase # "loaded" THEN "aborted"
  ELSE IF pc < Len(order) THEN "generated" ELSE "finished"

Result == IF Status = "finished" THEN Read(pii, addr, mem, Root(pii)) ELSE <<>>

NoDeadLines(g) ==
  \A S \in SUBSET Instrs(g) : HasWhatRootNeeds(g, S) => S = Instrs(g)

\* Schedules, constraints and addresses are gone.
Compiler == INSTANCE SoundCompiler WITH
  Valid <- ValidGraph, Live <- NoDeadLines, Small <- AllFit,
  Meaning <- Meaning, HasConstants <- HasConstants,
  program <- pii, status <- Status, result <- Result

\* Whatever the order, the solution and the calls before, act_malloc and the
\* kernels it emits are a compiler that is sound: a kernel leaves in the output
\* what the lines of its graph mean, and none is emitted for dead lines.
ImplementsCompiler == Compiler!Spec

\* README.md:18 promises "completeness (i.e., it can generate machine code for
\* all valid programs)": a graph for which there are addresses is not refused
\* because of the graphs the process has been given before.
EarlierGraphsDoNotMatter ==
  phase = "solve" /\ Solutions(pii, order) # {} => ~poisoned

\* tensor.h:36 bounds an offset "to ensure the tensor fits": the tensors of an
\* emitted kernel end within their buffers.
AllocatedTensorsFit == phase = "loaded" => AllFit(pii)

=============================================================================
