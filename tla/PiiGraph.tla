------------------------------ MODULE PiiGraph ------------------------------
(***************************************************************************)
(* A PII graph as memory allocation reads it: the lines of a .pii file, in *)
(* order.  Line t declares tensor t: the buffer it lives in, how many      *)
(* addresses it takes there, a fixed offset if it has one, and the         *)
(* operation whose result it is, with operands among the lines before it.  *)
(*                                                                         *)
(*   "Var"      an input of the kernel, already in HBM                     *)
(*   "DCC"      a constant, placed in HBM before the kernel starts         *)
(*   "slice"    addresses start .. start+size-1 of its operand             *)
(*   "concat"   its two operands, one right after the other                *)
(*   "inplace"  an instruction whose result and first operand are the same *)
(*              address attribute of the instruction                       *)
(*   "instr"    any other instruction of the accelerator                   *)
(*                                                                         *)
(* Addresses are one-dimensional: the generated instruction classes        *)
(* describe one address range per operand.                                 *)
(***************************************************************************)
EXTENDS Integers, Sequences

CONSTANTS
  Graphs,    \* the PII graphs a compilation may hand to the allocator
  OnChip,    \* the accelerator's own buffers
  Capacity   \* addresses of each buffer

HBM     == "HBM"
Buffers == OnChip \cup {HBM}

Declarations == {"Var", "DCC"}
Operations   == Declarations \cup {"slice", "concat", "inplace", "instr"}

NoOffset == -1

Tensors(g) == 1 .. Len(g)

\* The lines that create_instruction makes an Instruction of.
Instrs(g) == {t \in Tensors(g) : g[t].op \notin Declarations}

Operands(g, t) == {g[t].rhs[k] : k \in 1 .. Len(g[t].rhs)}

\* used_by of a tensor.
Uses(g, t) == {i \in Instrs(g) : t \in Operands(g, i)}

\* instructions.back(): its result is made the OUTPUT.
Root(g) == CHOOSE r \in Instrs(g) : \A i \in Instrs(g) : i <= r

TensorType(g, t) ==
  IF g[t].op = "Var" THEN "INPUT"
  ELSE IF g[t].op = "DCC" THEN "CONSTANT"
  ELSE IF t = Root(g) THEN "OUTPUT"
  ELSE "INTERMEDIATE"

\* A line the parser and the constructors accept without a panic.
ValidLine(g, t) ==
  LET l == g[t] IN
  /\ l.op \in Operations /\ l.buffer \in Buffers
  /\ l.size \in Nat \ {0} /\ l.start \in Nat
  /\ l.rhs \in Seq(1 .. t - 1)
  /\ l.offset \in Nat \cup {NoOffset}
  /\ l.offset # NoOffset => l.buffer = HBM
  /\ l.op \in Declarations => l.buffer = HBM /\ l.rhs = <<>>
  /\ l.op = "slice" =>
       /\ Len(l.rhs) = 1
       /\ l.buffer = g[l.rhs[1]].buffer
       /\ l.start + l.size <= g[l.rhs[1]].size
  /\ l.op = "concat" =>
       /\ Len(l.rhs) = 2
       /\ l.buffer = g[l.rhs[1]].buffer /\ l.buffer = g[l.rhs[2]].buffer
       /\ l.size = g[l.rhs[1]].size + g[l.rhs[2]].size
  /\ l.op = "inplace" =>
       /\ l.rhs # <<>>
       /\ l.buffer = g[l.rhs[1]].buffer /\ l.size = g[l.rhs[1]].size

ValidGraph(g) ==
  /\ g \in Seq([op : Operations, rhs : Seq(Nat), buffer : Buffers, size : Nat,
               start : Nat, offset : Int])
  /\ \A t \in Tensors(g) : ValidLine(g, t)
  /\ Instrs(g) # {}

ASSUME GraphAssumption ==
  /\ HBM \notin OnChip
  /\ Capacity \in [Buffers -> Nat \ {0}]
  /\ \A g \in Graphs : ValidGraph(g)

=============================================================================
