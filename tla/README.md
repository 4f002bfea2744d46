# A TLA+ model of the ACT compiler backend

The repository generates a compiler backend from the description of an
accelerator, and holds the generic parts of that backend under
`src/act_backend/generic`: a Rust program that parses an HLO kernel into an
e-graph, rewrites it with egg, extracts graphs of accelerator instructions (PII
graphs), gives each of them memory addresses with a constraint solver written
in C++, and publishes the cheapest kernel it has found when its time is over.
This directory models that program in TLA+, model-checks it with TLC and proves
the most important properties with TLAPS. Paths below are relative to
`src/act_backend/generic` unless they say otherwise.

## Inventory

| component | code | state | operations | what is hard |
|---|---|---|---|---|
| driver | `src/pipeline.rs`, `src/lib.rs` | clock, running best, counter of candidates, two copies of the size limit, log directory, output file | parse, hook of an iteration, extraction loop, try a candidate, stop, time out | clocks read at different moments, three ways to stop, two loops that share a counter and not a limit |
| e-graph initializer | `src/isel/initializer` | e-graph under construction, offsets in HBM | one function per HLO operation | layouts in tiles, types and addresses from two places, attributes that are dropped |
| rewrite applier and rules | `src/isel/rewrites` | e-graph, the global set PROCESSED | one match of one rule | metadata of one match with the substitution of another, conditions that read what other rules wrote, rules that feed each other |
| fast extractor | `src/isel/extractor/fast.rs`, `utils.rs` | worklist, constants, path, selected e-nodes, snapshots | depth-first search with rollback, conversion into a graph | one node per e-class, hash order |
| slow extractor | `src/isel/extractor/slow.rs` | trees, their edges | enumeration up to a limit, merging of equal nodes | nodes whose buffer depends on their user |
| PII graph | `src/ir/pii.rs`, `buffer.rs` | list of nodes | add a node, save | inference of buffers |
| allocator: parser | `cpp/malloc/src/parser.cc` | tensors by name, offsets, constants | one line | input text |
| allocator: scheduler | `cpp/malloc/src/scheduler.cc` | visited instructions, order, recursion | `dfs`, `esun`, `cost` | candidates collected before the first is visited, unstable sort |
| allocator: constraints | `cpp/malloc/src/constraint.cc`, `include/instructions.h`, `tensor.h` | constraints in the solver | live ranges, interference, four kinds of constraint | positions from 1 and indices from 0, ranges that touch, tensors that share addresses |
| allocator: solver | `cpp/malloc/src/act_malloc.cc`, `globals.cc` | one global solver for all calls | one call per candidate | what one call leaves for the next, time limit |
| allocator: emitter | `cpp/malloc/src/emitter.cc` | the assembly file | one line per instruction | constants it cannot write |
| bridges | `src/malloc/cpp.rs`, `src/cost/python.rs` | none | calls into C++ and Python | |
| generator | `src/act_backend/*.py`, `templates` | none | text templates | patterns of rewrite rules |

The driver is one thread. It calls the extractors on a copy of the e-graph, the
allocator and the cost function in sequence; files in the log directory are what
they hand to each other. The parts interact through state that outlives a call:
the counter and the running best, which the hook and the loop share; the clock;
the set PROCESSED; and the global solver of the allocator.

What makes each component correct:

* driver: the output is the first of the cheapest kernels, or no file when there
  is none; the time limit bounds the search; the program ends;
* initializer and rules: the root computes the module, all e-nodes of a class
  compute the same tensor, and the rules come to an end;
* extractors: a graph computes the root, each operand in the buffer its
  instruction reads, in an order the allocator can read;
* scheduler: a topological order of exactly what the result needs;
* constraints and solver: no tensor that is still needed is overwritten, and a
  graph that has a solution is not refused because of others;
* emitter: the lines are calls of instructions.

PROJECT.json lists the components with their status, and under "hazards" every
place where this can go wrong in a way a test hardly reaches.

## Modules

    AnytimeSearch   what the driver promises            <-- Pipeline implements it
    Pipeline        the driver                          PipelineProofs
    SoundCompiler   what the allocator promises         <-- Malloc implements it
    PiiGraph        the graphs the allocator reads
      Scheduler     topological ordering
      Allocation    the constraint problem
        KernelRun   the kernel when it runs
          Malloc    calls of act_malloc, composed       MallocProofs (of all four)
    Tensors         element types, shapes, tensors of terms
      TensorEGraph  the e-graph of tensor operations
        Initializer from HLO to an e-graph
          TypedModules  modules that lose nothing on the way
        Rewrites    the rules and how one is applied
          FrontEnd  both, composed with egg's Runner    FrontEndProofs, TensorProofs, FrontEndValueProofs
    EGraphs         e-graphs as the extractors see them EGraphsProofs
      FastExtract   constants, search, conversion       FastExtractProofs
      SlowExtract   trees, merging, conversion          SlowExtractProofs
      GraphFamily   e-graphs for TLC
    MCPipeline, MCMalloc, MCFrontEnd, MCFastExtract, MCSlowExtract   instances for TLC

The program is cut where its parts hand over a value: `FrontEnd` ends with an
e-graph; `FastExtract` and `SlowExtract` start from any e-graph that `ValidGraph`
of `EGraphs` allows; `Pipeline` takes any number of graphs from the extractors;
`Malloc` any graphs that the parser accepts.

### Pipeline

One action per stretch of the driver between two readings of the clock. `now`
is `start.elapsed()`, and every piece of work takes some number of ticks from
`Durations`. `HookIdle`, `HookExtract` are the hook with and without an
extraction; `LoopExtract`, `LoopEnd` the loop after the Runner; `Candidate` the
body of both loops over a batch, with the allocation, the cost and
`update_best`; `StopNoProgress` is `check_termination` at every point that calls
it; `Timeout` is `timeout()`, which reads the clock again; `Rewrite` is one
iteration of egg's Runner with the order in which it looks at its limits
(external, modelled from its use); `Panic` a panic anywhere. `log` holds the
cost of the kernel in `<n>.py`; an allocation that fails leaves no file. The
hook's `limit` and main's `limit` are two variables because the closure moves a
copy. `AnytimeSearch` is the promise without clocks and loops: candidates are
tried in files of their own, and the output is the earliest cheapest of them.

### PiiGraph, Scheduler, Allocation, KernelRun, Malloc

`PiiGraph` says what a parsed file is and what the parser and the constructors
accept (`ValidLine`); everything else is written for any set `Graphs` of such
graphs. `Scheduler` is `scheduler.cc`: the recursion of `dfs` is the variable
`stack` with one frame per call, `Start`, `Skip`, `Descend` and `Emit` are its
steps, `Esun` and `Cost` its sort key; `std::sort` may put equal costs in any
order. `Allocation` is `constraint.cc`: live ranges, the interference graph and
the assignments that satisfy all constraints. `Malloc` composes them in the
order of `act_malloc`: `Call` (parse and start), `Schedule`, `DeadLines` (the
early return), `Constrain`, `Solve` or `NoSolution` or `RefuseConstant`.
`poisoned` records that constraints left in the global solver by an earlier
call are refuted by propagation alone; `Constrain` lets it become true when the
problem has no solution, and makes it so when two interfering tensors fit
neither way round. `KernelRun` runs the kernel that was emitted: the machine
knows tensors by their addresses only, and beside it runs the graph on values
(`env`). An instruction writes the right value only if it reads the right
operands, and junk otherwise; so `KernelCorrect` fails as soon as two tensors
are placed in a way that disturbs one of them.

`SoundCompiler` is what is promised of all this, without schedules, constraints,
addresses and memory: a graph is handed in (`Submit`); it is refused, or aborts the
process, which only one with constants may do, or becomes machine code, which only
one without dead lines may; and when the code has run (`Execute`), the output is
`Meaning` of the graph, the value of its last line read off the lines (`Values`).
What is a graph, what it means and when it fits are parameters, which `Malloc`
instantiates (`Compiler`): the abstract program is `pii`, the abstract status is
read off `phase` and `pc`, the result off the memory at the output's addresses. A
graph too large for a buffer may compute anything, which is what
`malloc_oversized` shows the code to do.

Assumptions of these modules: one addressing dimension per buffer (the generated
instruction classes describe one); instructions read all operands before they
write, as the accelerator oracles do, and their operand and result sizes are
those of the tensors; solver time is not modelled, so `NoSolution` is always
possible (it covers the half second, and `assembly_dump` returning false). The lines
"api." of slices and concatenations are taken as no-ops in `KernelRun`, so that
the rest of the kernel can be judged: such a line is not Python, and nothing here
is about the text of the file.

### Tensors, TensorEGraph, Initializer, Rewrites, FrontEnd

A tensor is a shape, an element type and its elements in row-major order, each a
term over the bytes of the kernel's inputs. Two ways to compute a tensor agree
when the terms are equal; the few laws that the rules rely on are built into
the terms (`Narrowed`, `Combined`, `InnerProduct`): narrowing undoes widening and
is a homomorphism of addition, a maximum with minus infinity is nothing, a
product with the unit matrix is nothing, the bytes of a word make the word.
Arithmetic itself is not modelled, and a law that is not built in does not hold.

`TensorEGraph` holds `TensorOp`, `TensorInfo` and what the code uses of egg:
`Add` with hash-consing, `Union` (the class with more parents stays),
`set_analysis_data`, congruence. `Initializer` has one operator per function
that adds an operation (`AddSlice`, `AddReduce`, ...; `AddExpr` chooses), the chains of reshapes and bit casts around a parameter and the root
(`ParameterLinks`, `RootLinks`) in the order of the code, the addresses in HBM
(`Offsets`), and the panics (`Accepted`); its second half, `ModuleMeaning`, is the
reference: what HLO says the module computes, byte for byte. `Rewrites` has the
eleven rules of `ir2ir_rewrites.txt` with one operator per condition, metadata and
shape function, and `apply_one`: every match at a class is found again
(`FindMatches`), its tensors decide the condition and the strings, and the
variables of the right-hand side are those of the substitution egg called with
(`ApplyMatch`).

`FrontEnd` runs them. `AddInstruction` is one pass of the initializer's loop, `Panic`
a refused module; `Iterate` is the hook, which clears PROCESSED, and egg's search;
`Apply` is `apply_one` of one match, in egg's order of rules; `Rebuild` merges one
congruent pair; `EndIteration` decides on saturation; `Interrupt` is a limit that egg
meets between two rules of an iteration, after which it still rebuilds, and `Stop` any
other way in which the Runner may end before an iteration. The order in which egg goes
through the classes depends on hash maps. It is a parameter: `order` is one of
`Orders`, `Rank` says which class comes first in it, and of the matches at one class any
may be next. The theorems hold for every order, also for one that leaves everything
open by equal ranks; the runs take four (up, down and two shuffled). Two things of egg are
left out. `BackoffScheduler` bans a rule that has more than a thousand matches for
some iterations. And `Add` finds an e-node that has become congruent at once, where
egg's memo learns of it when it rebuilds: egg may make a class there that the next
rebuild merges again, which changes the number of classes and of iterations and
nothing of what a class holds afterwards.
Two variables are not in the code: `value` is what each class computed when it was
made, `expected` what the module means. So `ClassesHoldOneValue` compares
everything a rule ever put into a class with what the class was made for. The
code keeps this property only where `Mistaken` never holds: `apply_one` is about to
apply a match with the substitution of another one, or to drop a conversion that
wraps. The two findings about it are modules where it does; `NoMistake` says of the
modules of the run that it does not, and the proofs below that nothing else can
go wrong. `TypedModules` says for which modules the e-graph can mean what HLO
means: those whose types are the ones HLO infers, and of which the parser
drops nothing that matters.

A scalar has shape `<<1>>`, which `shape_to_vec` makes of an empty text. For a
parameter or a result of shape `<<1>>` this text is "[1]". One whose text is "[]" and
whose elements have more than a byte is not modelled: the code appends the size to
the text, and "[],2" is read as `<<2>>`. The rules 0 and 2 use the accelerator's tile
of 16 rows and columns, here `Side`.

### EGraphs, FastExtract, SlowExtract

`EGraphs` says what an extractor may assume of an e-graph: a class is a sequence
of e-nodes in egg's order, an e-node has a kind, the buffers that
`buffer_assignment` gives it, and classes as kids. `ValidGraph` is what the
initializer, the rewrite rules and egg's rebuild leave: every class has a finite
term of operations (an instruction only joins a class that has one), no e-node is in
two classes, a class of an input holds the input alone. Classes may lie on cycles,
and an e-node may be on its own class. Nothing is said of how the operations of a class
and the operands of an instruction in it are related, for the generator does not say
much: a pattern may be several operations deep, with classes in between that are no
operands, and an operand that the semantics use twice has two variables, of which the
instruction reads the first. So an instruction may read less than the operations of
its class do (`ReadsAll`), and a class may need no input through the instruction and
need one through its operations (`WithoutForm`).

`FastExtract` is `extract_fast` from beginning to end. `Detect` takes one class
from the worklist of `detect_constants`. The worklist is a set: the code's queue
may hold a class several times, and egg's order of classes is not defined, so any
class may be next. `Annotate` is `annotate_constants` with `op_repr`, or its panic,
to which it comes in the e-graphs with a constant that is `WithoutForm`.
The recursion of `get_pii_graph` is the variable `stack`: a frame holds the
arguments, the e-node and the operand the loops are at, and the snapshot of
`selected`. The actions follow the function line by line: `Refuse` (the class is
on the path), `Reuse` (memoization), `EnterLoop`, then for each e-node `Base`,
`Skip` or `Accept`; `CallKid` calls for an operand, `KidFound` and `KidFailed` are
what happens when it returns, `Complete` and `Exhausted` the ways out. `selected`
is a HashMap in the code; the model keeps the order of insertion, and the
conversion (`ConvertLeaf`, `ConvertNode`, `ConvertEnds`) takes its e-nodes in any
order. A line of the PII graph is an e-node with its buffer and the lines of its
operands. `AddNode` is `PiiGraph::add_node`, which infers the buffer of a slice or
concatenation from its operands and panics when they differ.

Offsets in HBM and shapes are left out: nothing here depends on them. A constant's
form is one name (`Value`).

The selection is kept per e-node and the conversion per class, and therefore no
run claims that every graph is right: the finding `fast_extract_buffers` shows
one that is not. `WellFormed` states what holds when each class is needed in one
form and one buffer (`OneFormPerClass`), and `SelectionComputesRoot` what always
holds of the selection.

`SlowExtract` is `extract_slow`, for the e-graphs in which `annotate_constants`, which
it calls too, does not panic. `Trees` is `get_extraction_trees`, a pure recursion on
the limit: with `ChildLimit` and the cartesian product of the operands' trees, as in
the code, so that a tree may go round a cycle of the e-graph until the limit ends
it. What is done with a tree touches no other, so a behaviour picks one (`PickTree`).
`Edge` is a step of `get_edges`, which reads a preorder back into parents and
children; `Leaf` merges equal leaves; `Number` is one node in one round of the
`while` loop of `get_extractions`, with the clone that is kept before a merge;
`PickExtraction` takes each kept state in turn, and `Descend` and `AddNode` are `dfs`
with its recursion as `stack`. `idx_map` is keyed by the e-node, as in the code,
whatever buffer the e-node is delivered in; that is the finding
`slow_extract_merges`, and `FirstGraphReadsRight` and `OneBufferReadsRight` say
what holds all the same.

## Runs

| run | instance | what it shows |
|---|---|---|
| `pipeline` | TIME_LIMIT 4 ticks, steps of 0 to 2 ticks, costs 1 and 2, patience 2, ITER_LIMIT 3, batches of at most 2 | all properties of the driver, refinement of AnytimeSearch, termination |
| `malloc` | one call; every graph of up to two instructions, and every graph of three without dead lines, over an input of two cells and a constant; 3 addresses on chip, 5 in HBM | all properties of the allocator and of the emitted kernels, refinement of SoundCompiler |
| `pipeline_iterations` | the instance of `pipeline` | egg's own limit ends the driver |
| `malloc_poisoned` | two calls, graphs of one instruction, and two without dead lines | an unsolvable graph makes the process refuse a solvable one |
| `malloc_oversized` | one address on chip | a tensor larger than its buffer is placed |
| `fast_extract` | 3385 e-graphs: 3381 of five classes, an input, a constant, two classes with one or two forms out of seven and eight, a root, and 4 of twelve classes with patterns several operations deep; two buffers on chip and HBM | constants, the selection, the conversion, completeness for one buffer per class, termination |
| `fast_extract_buffers` | the instance of `fast_extract` | an operand in a buffer the instruction does not read |
| `slow_extract` | 651 e-graphs: 648 of six classes, and the deep ones of `fast_extract` without the one that panics; trees of at most 8 e-nodes | the trees against a reference definition, edges, merges, completeness of the graphs, buffers, termination |
| `slow_extract_merges` | the instance of `slow_extract` | an operand in a buffer the instruction does not read |
| `front_end` | 19 HLO modules of 1 to 12 instructions, four orders of the classes, `Side` 2, at most 8 iterations | one value per class, shapes and types, the root, inputs, HBM, no match with another's operands, saturation |
| `front_end_wraps` | the conversion of a sum of bytes | two rules that are right give a class two values |
| `front_end_mixes` | a tensor that is narrowed and widened twice | one match's condition lets another match through |

Bounds. In `pipeline`, work may take more than the time limit leaves, patience
may end before or after the limit, the limit can be hit exactly, candidates tie,
improve and worsen; both loops run, on both sides of SLOW_LIMIT_CUTOFF. `MaxPii`
is large enough never to stop a run (assumption `MCBoundIsLarge`). In `malloc`,
three instructions are enough for an operand shared by two users, for a slice or
concatenation of a result that is used again, and for a dead line; the buffers
are so small that most problems are solvable only by sharing addresses and
many are unsolvable. Nothing is symmetric: costs and addresses are ordered.
In `fast_extract` (`MaxForms` = 2) the two classes between the input and the root
may refer to each other and to themselves, so e-graphs with cycles through one
class and through two occur; a class may be wanted in both buffers, an
instruction may read one class twice, a slice may deliver into any buffer, the
first form of a class may fail after its operand was selected and the second
succeed, and a class may be a constant through its second form only. The
buffers are not interchangeable: the instructions fix their roles.
The deep e-graphs (`Deep`) are made after `examples/QKV`: a load whose pattern is a bit
cast of a reshape, and a softmax whose pattern is the division of an exponential by the
broadcast sum of an exponential, with the operand that is used twice as two classes,
each the input or the constant. Where the sum is one of constants and what it divides
needs the input, the softmax reads less than its pattern, and `Annotate` panics.

In `slow_extract` an input is moved into one or both buffers, its view (a slice or
a concatenation with itself) is used once or twice, by instructions that read
different buffers, and the result and the root may refer to themselves; 8
e-nodes let a tree go round a cycle and hold three copies of a view. In
`front_end` the modules use every operation the initializer knows, meet the
condition of every rule but rule 0, and feed rules with what others made (a byte
sum with what rules 2, 3, 4, 5 and 7 make of it); five of them are refused in the
five ways there are. `IterationLimit` is 8 where egg's is 30, and `Saturates` says
that not even 8 is reached. Rule 0 wants two tiles, one above the other, which makes
the search too large to check: its pattern matches and its condition is
evaluated, and what it would add is not (its concatenation has axis 1 where
the initializer counts axes from 0).

Fairness. `Pipeline!FairSpec` has weak fairness of the driver's steps together
(`Step`): it is one thread and nothing blocks it. No single choice is fair: work
may take no time as often as it likes, and the Runner's limits end it all the
same. A panic is never forced. `FastExtract!FairSpec` is weak fairness of its
steps together, for the same reason, and so is `SlowExtract!FairSpec`. `FrontEnd` has
no fairness: that the rules end is the invariant `Saturates`, a bound on the number
of iterations, and each iteration takes its matches from a finite set. The allocator
has no liveness property: each call is a sequence of terminating phases, and `Quiet`
marks the states where the process really may stop; deadlock is checked in every
run.

## Findings

Seven runs end in a counterexample to something the code's own comments, messages
or README say; PROJECT.json quotes the lines. In short: egg's default limit of 30
iterations is still in force and ends the driver with an error and no output;
constraints stay in the
global solver for ever; a tensor that does not fit is given offset 0; the
fast extractor's conversion knows one line per class whatever the buffer; the
slow extractor merges equal slices whatever the buffer; rules 5 and 6
together drop a narrowing that wraps; and a rule that has two matches at one class
takes the operands of one and the types of the other.

Met while modelling, with no run of their own because no line of the repository
says otherwise: the hook's limit and main's limit are two counters, since the closure
moves a copy, so that the loop after the Runner repeats extractions; the shape of a tiled parameter's transposed class is the one from
before the transpose, and the last reshape appends the size of the type a second
time; constants of different types and the same text share a class; attributes
that the parser drops (the dimensions of a broadcast and a dot, a stride, all but
one dimension of a reduce, its initial value); the rules write types as "I32", the
initializer as "s32", and so equal conversions are different e-nodes; rule 10 looks
only at the class that is broadcast, not behind it; and `annotate_constants` panics
(`utils.rs:61`) for a constant of which only an instruction says that it is one. The
run `fast_extract` has such an e-graph, and `ConstantsHaveForms` says where this
happens: an operand that an instruction's semantics use twice has two variables in the
pattern, so that a softmax over a constant joins the class of
`divide(exp(x), broadcast(sum(exp(k))))`, whose operations need the input `x`.

## Proofs

All theorems hold for all values of the constants, under the assumptions named in
the modules (`PipelineAssumption`, `GraphAssumption`, `SchedulerAssumption`,
`MallocAssumption`, `LimitAssumption`, `SideAssumption`, `FrontEndAssumption`).

* `PipelineProofs`: `TypeCorrect`; `BestCorrect`, from the invariant that no
  file has a number of `pii_counter` or more; `PipelineImplementsSearch`, where
  each step is shown to be a step of AnytimeSearch or a stutter;
  `ErrorsOnlyAtALimit` and `SearchEndsInTime`, from `ClockInv`: an iteration begins
  within the limit on the Runner's clock, and timeout() is reached at the limit or
  later.
* `MallocProofs`, of the whole allocator, goes from the parts to the composition.
  First the invariant `SchedInv` of `dfs`. Its core is that every
  instruction that was visited is ordered or has a frame on the stack, that a
  frame's operands are ordered or still on its list, or are the frame above, and
  that operands have smaller numbers: so a
  visited operand that is skipped has been emitted. The order is the least
  closed set because all that is visited is needed by the root.
  Then the invariant `RunInv` of a running kernel: tensors that
  are computed and still needed hold their value. The step is proved by cases on
  the live ranges: a tensor needed later overlaps the range of the one that is
  written, hence they are in the interference graph and separate, or one is a
  slice or concatenation of the other and lies in place.
  Last, `IInv` joins the two with what holds between them
  (`ConstraintsMeaningful`: constraints are stated only over a complete order;
  `AddressesSolve`). It gives `TypeCorrect`, `ScheduleIsTopological`,
  `ScheduleIsComplete`, `AbortsOnUnusedConstants`, `KernelsKeepValues` and
  `KernelsAreCorrect`. `AllocatorIsSound` is the refinement of `SoundCompiler`,
  one case per action (`StepRefines`). It needs that the value of every line is
  defined, although the definition is recursive: operands stand before the lines
  that use them (`ValuesFacts`); that every tensor computed so far has it
  (`EnvMeans`); and that an order in which every live range is defined is an order
  of all lines (`RangedHasNoDeadLines`).

* `EGraphsProofs`: lemmas for both extractors. What is computed in rounds over
  a finite set is a least fixed point (`RoundsExist`, `RoundsReachFixedPoint`), so that a class
  is in `Derivable` exactly when it has a term, and a class that has a term has one
  in which it does not occur again.

* `FastExtractProofs`: for every e-graph of any size (`GraphAssumption`), all
  invariants the run checks. `IInv` gives `TypeCorrect`, `ConversionNeverStuck` and
  `LinesAreInOrder`. Its heart is `Closed`: every e-node in `selected` was inserted
  after one of each of its operand classes. Reuse relies on e-nodes that a rollback
  might take back, so the invariant also says that whatever a frame has found so far
  is in the snapshots of all frames above it (`Selections`), and that each frame on
  the stack was called for the operand the one below is at (`Calls`). The conversion
  cannot get stuck because the first e-node in the order of insertion that is not
  yet converted has all its operands in `eclass_map`. Four more invariants are
  proved on top of it.
  `ConstantsInv`, for the worklist: a class that is marked has a term without an
  input, and one that has an e-node all of whose kids are marked is marked or
  waiting (`ConstantsAreExact`). `FormsOfConstants` says when `annotate_constants` panics:
  exactly when some constant is not made by operations alone, and then one such class
  holds an instruction that reads less than its pattern. For otherwise the constants
  that are made by operations would be closed under all e-nodes, since what operations
  make of what they have made they make of nothing (`MadeOfMade`), and would be all
  constants (`WithoutFormReadsLess`).
  `SearchInv`, for the search: when a class is refused, it has no term that avoids
  the path, under any choice of one buffer per class (`SearchIsComplete`); that
  avoiding the path costs nothing is the lemma of `EGraphsProofs` on terms in which
  a class does not occur again. `SearchIsSound` follows from `Closed`.
  `JunkInv` says that, if one form of each class is selected, each of them was
  selected for a later one, for an operand a frame has found, or is what was just
  found; `ConvInv` gives each line its e-node and a buffer in which the selection
  wants it (`ResultIsWellFormed`).

* `SlowExtractProofs`: for every e-graph and every limit, all invariants the run
  checks. The argument goes by the shape of the tree that was picked: for each
  node of the preorder, where its subtree ends, which nodes are its operands, and
  the buffer it delivers. The enumeration puts each tree together from its
  subtrees, and so each has a shape (`TreesHaveShapes`); that the limit that is
  handed down loses no tree (`SearchIsExhaustive`) is an induction on the limit.
  Each phase has an invariant with respect to the shape. For `get_edges`
  (`InEdges`), the stack holds the ancestors of the next node that still wait for
  an operand, so that the edges it leaves are the operands of the shape
  (`EdgesFollowTheTree`). For the merging (`InLeaves`, `InNumber`): a child comes
  behind its parent in the preorder unless it has been merged into an earlier node,
  which is done then (`Forward`), and a node is among the children of the parent it
  names (`Listed`: `UnwrapNeverFails`). The node with the greatest number among
  those left has therefore all its children done, and the loop cannot starve
  (`MergingNeverStuck`). A merge keeps the class of a child, for nodes with equal
  e-nodes are merged, and keeps the edges acyclic, for it goes to a node that is
  done (`Acyclic`). In the last extraction all nodes are done, and each names as its
  child the one that stands for the e-node (`SharedOK`), so that `dfs`, which goes
  from parents to children (`ReachedOK`), comes to no other (`LastGraphIsShared`). For
  the conversion (`InConvert`): the stack of `dfs` is a path of edges from the root
  (`PathOK`), a node gets its line after all its children (`LineOK`), and so nothing is passed over (`LinesAreComplete`). In the
  first extraction a child is an operand of the shape or an equal leaf, which
  delivers in HBM wherever it stands; and if the tree wants no e-node in two buffers,
  merging cannot change one: in both cases each line has the buffer of the shape
  (`BuffersOK`: `MergedLeavesAreHarmless`, `OneBufferIsEnough`).

* `FrontEndProofs`: for every set of modules that keep what HLO promises
  (`WellFormed` in `Initializer`: an instruction has the operands its operation
  wants, all defined before it, each symbol is defined once, and a parameter has
  the size the header lists for it; a module that is refused is allowed), any
  number of iterations and any order of the classes. `InputsAlwaysStandAlone` is not inductive:
  a rule merges the class that matched with the one it made, and nothing in
  `InputsStandAlone` keeps the one it made from being an input's. The invariant
  `IInv` says that the classes can be coloured (`Kinds`: an input, its bytes in
  other shapes, a tensor with a type) so that every e-node fits the colours of its
  operands (`IsKinded`). The colouring is an existential, for the code keeps none:
  `Sound` is kept by `Add`, `SetInfo`, `WithShapes`, `Union` of equal colours, and
  the chains around parameters and the root. That each rule makes a class of the
  colour it matched rests on the pattern: all classes that `FindMatches` gives a
  left-hand side have the colour of its root, since the only step between
  colours, a bit cast, occurs in the matched part of no rule (`FindMatchesIsFound`,
  `KindOfMatch`), and bytes match no condition but rule 3's, whose two shapes
  leave them bytes (`SetShapesFit`). The proofs go through all eleven rules,
  rule 0 with them, which no run is large enough to apply. A substitution is
  collected before other rules are applied, so the invariant keeps it valid while
  the e-graph grows (`SubstOK`, `SubstStaysOK`). `TypeCorrect` needs in addition
  that the strings are what the operations take (`Metadata0` ... `RhsIsOK`).
  `HbmIsLaidOut` needs that an input keeps its TensorInfo (`Grows`) and that the
  fold over the header puts each slot behind the one before (`LaidOut`).

* `TensorProofs`, `FrontEndValueProofs`: what the classes compute.
  `ClassesAlwaysHoldOneValue`, `InfosAreAlwaysTrue`, `RootAlwaysComputesModule` and
  `SaturatedIsAlwaysClosed` hold for every set of modules, any number of iterations and
  any order of the classes, in every behaviour in which `NoMistake` always holds, for each module that is
  `Typed` (and `AsKept`, for the root). Each hypothesis is needed, and none is empty. Without
  `NoMistake` the findings `front_end_mixes` and `front_end_wraps` are
  counterexamples; it is what `Apply` would have to check, speaks of the one step
  that is about to be taken and of no later one, and the run `front_end` checks it
  for its modules. `Mistaken` names rule 0 as a whole: the concatenation it adds has
  the axis 1 where the initializer counts from 0, so rule 0 computes another tensor.
  `Typed` is what HLO's own type checker guarantees, except that it leaves out tiles,
  empty tensors, two constants of one text and different types, and what a broadcast
  or a slice may do beyond what its e-node says; those are the hazards of
  `lib.rs:434` and `:450` and of `parser.rs:412`. `AsKept` is the rest of what the parser
  drops. TLC finds every module without tiles of the three runs `Typed` and
  `AsKept` (`UntiledAreTyped`).

  `TensorProofs` is, to begin with, about tensors alone: what each operation returns
  (its shape, its number of elements, the element at an index), that each is defined on
  what `Inferred` admits, and the algebra the rules use: slices and conversions commute, a
  product with `Eye` is the other factor, a reshape there and back or to the same
  shape is nothing, a bit cast to bytes and back is nothing if the elements are
  whole, a byte sum is the narrowed sum of the widened, a maximum with minus
  infinity is nothing. None of them is an instance: shapes have any rank and
  size. It ends with what it means that an e-graph's classes have tensors, and with what
  the right-hand side of each rule makes of those it is given. `FrontEndValueProofs` has
  the invariant. Each class has a tensor (`value`) and a home, the type of the scalars
  that its elements are or are bytes of (`IsTensor`); each e-node computes the tensor of
  its class and fits its home (`Law`, `Lawful`); and `eg.info` is the tensor's shape and type (`TrueInfos`). The home
  is the strengthening that makes this inductive: a `bitcvt` e-node does not say its
  type, so rule 4, which casts a tensor to bytes and back, might find that the e-graph
  has these bytes as another type already; they have one home, and so it does not.
  `set_analysis_data` overwrites the TensorInfo of a class that may have been there
  before, so the proof of each rule shows that it writes what was there. Each
  rule is then a lemma: if a match obeys the laws and the condition holds, the
  right-hand side, added position by position (`ApplyPat`), obeys them too and its last
  class has the tensor of the class that matched, so that `Union` joins equal
  tensors. `NoMistake` gives that the match and the substitution agree. `Rebuild`
  joins classes with an equal e-node, hence of equal tensors. For the root, `MInv`
  says that while the initializer is at work each symbol of `table` has a class whose
  tensor is what HLO means by the instruction, and from then on that the chain of
  bit casts and reshapes of `RootLinks` has ended in the result's bytes.

  `SaturatedIsAlwaysClosed` needs a second invariant, `CInv`. As long as nothing has been
  merged, the e-graph is the one that was searched: no two classes share an e-node
  (`IsUnmerged`), each match is pending or in PROCESSED (`Searched`), and each one in
  PROCESSED has its other side in its class (`Settled`). Its step is `ApplyOneRises`:
  `apply_one` merges a class (`Rises`: a number stops being a class, so the runner counts
  a union) or changes nothing at all. If it merges nothing, the last class of the
  right-hand side was there before; so were the others, since an e-node of an old class has
  its operands in old classes (`Traced`) and in every right-hand side but rule 0's each
  position is an operand of a later one (`RhsUsesAll`). What `set_analysis_data` writes is
  then a second TensorInfo for an old class, and both are its tensor's: here
  `InfosAreTrue` is needed (`UnmovedIsSame`).

The recursive functions of the models (`Combinations`, `TreesUnder`, `Values`, `Meanings`,
`Valued`, the rounds of fixed points) are handled in place: that such a function exists, and
each induction on its argument, is proved with the least element of the set of
counterexamples, since the library's theorems on this take an operator as a parameter.

Only model-checked: `Terminates` of all three (liveness is out of the prover's
reach), and of `FrontEnd` `NoMistake` and `Saturates`, and for modules with tiles the
four properties that assume `Typed`. `NoMistake` does not hold of all modules, and
`Saturates` is about the modules of the run: how many iterations a module takes depends on
its size.

Proved and in no run: `LastGraphShares` of the slow extractor (`LastGraphIsShared`),
which is no hazard of its own: completeness and buffers do not rest on it.

## Not modelled

* Text: HLO, PII, JSON and assembly as characters; `Display`, logging.
* Arithmetic of elements, beyond the laws named above; costs, beyond their order.
* The rules generated from an instruction set and the buffer assignments of its
  instructions: they come from a template, and the repository holds no filled one.
  What they leave in an e-graph is the assumption `GraphAssumption`, which asks of an
  instruction only that its class has a term of operations.
* Bans of egg's scheduler, and when egg's memo learns of a union (see `FrontEnd`).
* Scalars of more than a byte whose shape is the text "[]" as parameters or results.
* The generator itself, tests, examples and docker files.
* HLO modules whose symbols are used before they are defined, and constants of
  different types with the same text in one module.
* A `.pii` or metadata file that is missing (nothing but the driver writes them,
  directly before they are read), and the half second of the solver, of which only
  the outcome is modelled.
* The checks of the command line before the log directory is made.

What a next step would add: rule 0 on an instance of its own.
