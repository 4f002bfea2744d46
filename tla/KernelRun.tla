----------------------------- MODULE KernelRun -----------------------------
(***************************************************************************)
(* What an emitted kernel does when it runs: the emitter lists the         *)
(* instructions in the order of the schedule, each with the addresses the  *)
(* solver gave to its operands and its result, and no tensor is known to   *)
(* the machine but by its addresses.  Beside the memory of the machine     *)
(* runs the graph itself, where a tensor is a value: the kernel is right   *)
(* when the memory holds those values wherever they are read.              *)
(*                                                                         *)
(* The value of a tensor is a sequence of cells.  Instructions compute     *)
(* something no other instruction does from the values the graph gives     *)
(* them, and something useless, Junk, from any others.  They read all      *)
(* their operands before they write, as the accelerator models do.         *)
(***************************************************************************)
EXTENDS Allocation, Scheduler

VARIABLES addr,  \* the first address of each tensor
          pc,    \* how many instructions have run
          env,   \* the value of each tensor of the graph, <<>> before it has one
          mem    \* what each address of each buffer holds

kvars == <<addr, pc, env, mem>>

Junk == <<0, 0>>

\* The value that tensor t alone has: Var and DCC tensors from the start,
\* instructions' results when they are computed.
Own(g, t) == [k \in 1 .. g[t].size |-> <<t, k>>]

\* The addresses of tensor t, which may reach past the end of its buffer.
Loc(g, ad, t, k) == <<g[t].buffer, ad[t] + k - 1>>
Region(g, ad, t) == {Loc(g, ad, t, k) : k \in 1 .. g[t].size}

Read(g, ad, m, t) ==
  [k \in 1 .. g[t].size |->
     IF ad[t] + k - 1 < Capacity[g[t].buffer]
     THEN m[g[t].buffer][ad[t] + k - 1] ELSE Junk]

\* Memory m after the value v has been written to tensor t.
Written(g, ad, m, t, v) ==
  [b \in Buffers |-> [a \in 0 .. Capacity[b] - 1 |->
     IF <<b, a>> \in Region(g, ad, t) THEN v[a - ad[t] + 1] ELSE m[b][a]]]

Declared(g) == Tensors(g) \ Instrs(g)

\* The host has copied inputs and constants to HBM.
Loaded(g, ad) ==
  [b \in Buffers |-> [a \in 0 .. Capacity[b] - 1 |->
     IF \E t \in Declared(g) : <<b, a>> \in Region(g, ad, t)
     THEN LET t == CHOOSE t \in Declared(g) : <<b, a>> \in Region(g, ad, t)
          IN  Own(g, t)[a - ad[t] + 1]
     ELSE Junk]]

\* The solver has found addresses ad, and the kernel is started with them.
Load(ad) ==
  /\ addr' = ad
  /\ pc' = 0
  /\ env' = [t \in Tensors(pii) |->
               IF t \in Declared(pii) THEN Own(pii, t) ELSE <<>>]
  /\ mem' = Loaded(pii, ad)

\* The value of tensor t of a graph whose other tensors have the given values.
ValueFrom(g, t, values) ==
  LET x == g[t].rhs IN
  IF g[t].op = "slice"
  THEN [k \in 1 .. g[t].size |-> values[x[1]][g[t].start + k]]
  ELSE IF g[t].op = "concat"
  THEN [k \in 1 .. g[t].size |->
          IF k <= g[x[1]].size THEN values[x[1]][k]
          ELSE values[x[2]][k - g[x[1]].size]]
  ELSE Own(g, t)

Value(g, t) == ValueFrom(g, t, env)

OperandsRight(t) ==
  \A x \in Operands(pii, t) : Read(pii, addr, mem, x) = env[x]

\* What the emitter prints for tensor t after "api.": str() of slices and
\* concatenations is empty, they only place tensors.
Str(g, t) == IF g[t].op \in {"slice", "concat"} THEN "" ELSE g[t].op

\* The next instruction runs.
Run ==
  /\ pc < Len(order)
  /\ LET t == order[pc + 1] IN
     /\ env' = [env EXCEPT ![t] = Value(pii, t)]
     /\ mem' = IF Str(pii, t) = "" THEN mem
               ELSE Written(pii, addr, mem, t,
                            IF OperandsRight(t) THEN Own(pii, t)
                            ELSE [k \in 1 .. pii[t].size |-> Junk])
  /\ pc' = pc + 1
  /\ UNCHANGED addr

\* What the lines of a graph compute: no schedule, no memory.
Values(g) ==
  LET values[t \in Tensors(g)] == ValueFrom(g, t, values)
  IN  values

Meaning(g) == Values(g)[Root(g)]

-----------------------------------------------------------------------------

\* Tensor t has been computed, and something still reads it: an instruction
\* yet to run or, at the end, the host.
Computed(t) == t \in Declared(pii) \/ \E k \in 1 .. pc : order[k] = t
Needed(t) ==
  \/ \E k \in pc + 1 .. Len(order) : t \in Operands(pii, order[k])
  \/ t = Root(pii)

\* Every tensor that is still needed is where the allocator put it, however
\* closely the schedule and the solver packed the tensors.
NeededTensorsIntact ==
  \A t \in Tensors(pii) :
    Computed(t) /\ Needed(t) => Read(pii, addr, mem, t) = env[t]

\* The kernel that has run to its end has left the graph's value in the
\* output tensor.
OutputCorrect ==
  pc = Len(order) => Read(pii, addr, mem, Root(pii)) = env[Root(pii)]

=============================================================================
