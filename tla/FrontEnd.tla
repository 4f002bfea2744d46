------------------------------ MODULE FrontEnd ------------------------------
(***************************************************************************)
(* The first half of instruction selection: the initializer turns an HLO   *)
(* module into an e-graph, and egg's runner applies the rules to it, one   *)
(* iteration after the other, until an iteration merges nothing.  What the *)
(* extractors get is the e-graph between two iterations.                   *)
(*                                                                         *)
(* value and expected are not in the code: what each class computed when   *)
(* it was made, and what the module's result is according to HLO.          *)
(***************************************************************************)
EXTENDS Initializer, Rewrites

CONSTANTS
  Modules,        \* the HLO modules that may be compiled
  IterationLimit, \* of egg's runner; 30 unless set
  Orders,         \* in which egg may go through the classes
  Rank(_, _)      \* of a class in an order; with equal ranks any is first

ASSUME FrontEndAssumption ==
  /\ IterationLimit \in Nat
  /\ \A m \in Modules : WellFormed(m)

VARIABLES
  phase,
  module,
  pc,         \* the instruction add_expr_to_egraph is at
  eg,
  table,      \* symbol -> class
  inputs,     \* the classes of the Vars
  offsets,    \* of the inputs and the output, in HBM
  root,
  iteration,
  order,      \* in which egg goes through the classes
  pending,    \* matches of this iteration that are still to be applied
  processed,  \* PROCESSED
  merged,     \* has this iteration merged classes?
  value,
  expected

built == <<pc, table, inputs, offsets, root>>
run   == <<iteration, pending, processed, merged>>
ghost == <<value, expected>>
vars  == <<phase, module, order, eg, built, run, ghost>>

Phases == {"build", "hook", "apply", "closing", "saturated", "stopped", "panic"}

Init ==
  /\ phase = "build"
  /\ module \in Modules /\ order \in Orders
  /\ pc = 1 /\ eg = EmptyEGraph /\ table = <<>> /\ inputs = {} /\ root = 0
  /\ offsets = Offsets(module)
  /\ iteration = 0 /\ pending = {} /\ processed = {} /\ merged = FALSE
  /\ value = <<>> /\ expected = <<>>

\* The first number of a class.
Eldest(g, id) == Min({j \in Ids(g) : Find(g, j) = Find(g, id)})

\* The values of the classes made since the others were: that of a class it
\* has been merged with, or what its one e-node computes.
Valued(old, g) ==
  LET upto[id \in 0 .. Len(g.uf)] ==
        IF id <= Len(old) THEN SubSeq(old, 1, id)
        ELSE LET prev == upto[id - 1]
                 en   == CHOOSE e \in NodesOf(g, id) : TRUE
             IN  Append(prev,
                        IF Eldest(g, id) < id THEN prev[Eldest(g, id)]
                        ELSE Computes(en, [k \in DOMAIN en.kids |-> prev[Eldest(g, en.kids[k])]],
                                      InfoOf(g, id)))
  IN  upto[Len(g.uf)]

-----------------------------------------------------------------------------

Instruction == module.code[pc]
IsRoot      == pc = Len(module.code)

Inserted(map, key, id) ==
  [k \in DOMAIN map \cup {key} |-> IF k = key THEN id ELSE map[k]]

\* A parameter's offset gets its Var, the output's gets the root.
WithIds(slots, i, is_root, added) ==
  [k \in DOMAIN slots |->
     [slots[k] EXCEPT !.id =
        IF is_root /\ k = Len(slots) THEN added.id
        ELSE IF added.var # 0 /\ k = i.attr[1] + 1 THEN added.var ELSE @]]

\* A pass of parse_hlo_module_to_egraph's loop.
AddInstruction ==
  /\ phase = "build"
  /\ Accepted(module, Instruction, IsRoot, offsets)
  /\ LET added == AddExpr(eg, module, Instruction, IsRoot, table) IN
     /\ eg' = added.eg
     /\ table' = Inserted(table, Instruction.sym, added.id)
     /\ inputs' = inputs \cup ({added.var} \ {0})
     /\ root' = IF IsRoot THEN added.id ELSE root
     /\ offsets' = WithIds(offsets, Instruction, IsRoot, added)
  /\ value' = Valued(value, eg')
  /\ expected' = IF IsRoot THEN ModuleMeaning(module) ELSE expected
  /\ pc' = pc + 1
  /\ phase' = IF IsRoot THEN "hook" ELSE "build"
  /\ UNCHANGED <<module, order, run>>

\* An unwrap or an assertion of the initializer fails.
Panic ==
  /\ phase = "build"
  /\ ~Accepted(module, Instruction, IsRoot, offsets)
  /\ phase' = "panic"
  /\ UNCHANGED <<module, order, eg, built, run, ghost>>

-----------------------------------------------------------------------------

\* Mutant: the hook leaves PROCESSED as it is.
HookClearsNot(record) == record

HookClears(record) == {}

\* The hook, then the search of every rule in the same e-graph.
Iterate ==
  /\ phase = "hook" /\ iteration < IterationLimit
  /\ processed' = HookClears(processed)
  /\ pending' = UNION {Search(eg, rule) : rule \in Rules}
  /\ merged' = FALSE /\ iteration' = iteration + 1
  /\ phase' = "apply"
  /\ UNCHANGED <<module, order, eg, built, ghost>>

\* Rule by rule, in the order of the file, and class by class; any match of
\* the class.
NextMatches ==
  LET first == {m \in pending : \A n \in pending : m.rule <= n.rule}
  IN  {m \in first : \A n \in first : Rank(order, m.cls) <= Rank(order, n.cls)}

\* The number of unions so far.
Unions(g) == Cardinality(Ids(g)) - Cardinality(Classes(g))

\* apply_one.
Apply ==
  /\ phase = "apply"
  /\ \E m \in NextMatches :
       /\ pending' = pending \ {m}
       /\ processed' = processed \cup {m}
       /\ eg' = IF m \in processed THEN eg ELSE ApplyOne(eg, m.rule, m.cls, m.subst)
  /\ merged' = (merged \/ Unions(eg') > Unions(eg))
  /\ value' = Valued(value, eg')
  /\ UNCHANGED <<phase, module, order, built, iteration, expected>>

\* egg looks at its limits behind each rule; the other rules are passed over.
Interrupt ==
  /\ phase = "apply" /\ pending # {}
  /\ {m.rule : m \in pending} \cap {m.rule : m \in processed} = {}
  /\ phase' = "closing" /\ pending' = {}
  /\ UNCHANGED <<module, order, eg, built, iteration, processed, merged, ghost>>

\* egg restores congruence once no match is left to be applied.
Rebuild ==
  /\ phase \in {"apply", "closing"} /\ pending = {} /\ Congruent(eg) # {}
  /\ eg' = LET pair == CHOOSE p \in Congruent(eg) : TRUE IN Union(eg, pair[1], pair[2])
  /\ UNCHANGED <<phase, module, order, built, run, ghost>>

EndIteration ==
  /\ phase = "apply" /\ pending = {} /\ Congruent(eg) = {}
  /\ phase' = IF merged THEN "hook" ELSE "saturated"
  /\ UNCHANGED <<module, order, eg, built, run, ghost>>

\* The hook may end the run before any iteration, and so may egg's limits,
\* which end it as well when they were reached between two rules.
Stop ==
  /\ phase = "hook" \/ (phase = "closing" /\ Congruent(eg) = {})
  /\ phase' = "stopped"
  /\ UNCHANGED <<module, order, eg, built, run, ghost>>

Finished == phase \in {"saturated", "stopped", "panic"} /\ UNCHANGED vars

Step ==
  \/ AddInstruction \/ Panic
  \/ Iterate \/ Apply \/ Interrupt \/ Rebuild \/ EndIteration \/ Stop

Next == Step \/ Finished

Spec == Init /\ [][Next]_vars

-----------------------------------------------------------------------------

\* The state is what the code can hold, egg's numbering is sound, and every
\* operation has its operands and its string: set_metadata panics without.
TypeOK ==
  /\ phase \in Phases /\ module \in Modules /\ order \in Orders
  /\ pc \in 1 .. Len(module.code) + 1
  /\ \A id \in Ids(eg) : Find(eg, Find(eg, id)) = Find(eg, id)
  /\ Len(eg.info) = Len(eg.uf) /\ Len(value) = Len(eg.uf)
  /\ \A n \in eg.nodes :
       /\ n.cls \in Classes(eg)
       /\ \A k \in DOMAIN n.en.kids : n.en.kids[k] \in Classes(eg)
       /\ n.en.op \in TensorOps
       /\ Len(n.en.kids) = NumChildren(n.en.op)
       /\ (n.en.text # "" \/ n.en.data # <<>>) <=> (n.en.op \in HasMetadata \cup {"var"})
  /\ \A sym \in DOMAIN table : table[sym] \in Ids(eg)
  /\ inputs \subseteq Ids(eg) /\ root \in Ids(eg) \cup {0}
  /\ \A k \in DOMAIN offsets : offsets[k].id \in Ids(eg) \cup {0}
  /\ iteration \in 0 .. IterationLimit /\ merged \in BOOLEAN

ValueOf(id) == value[Find(eg, id)]

\* A parameter in tiles: the class of its transpose is given the shape from
\* before, which the rules then carry on.  The elements are as they should be.
HasTiledParameter ==
  \E k \in DOMAIN module.code :
    module.code[k].op = "parameter" /\ module.code[k].tile # <<>>

Same(x, y) ==
  /\ x.dtype = y.dtype /\ x.elems = y.elems
  /\ x.shape = y.shape \/ HasTiledParameter

\* Whatever rule put an e-node into a class, with whatever attributes, it
\* computes what the class computed when it was made: so it does not matter
\* which e-nodes an extractor picks.
ClassesHoldOneValue ==
  \A n \in eg.nodes :
    Same(Computes(n.en, [k \in DOMAIN n.en.kids |-> ValueOf(n.en.kids[k])],
                  eg.info[n.cls]),
         ValueOf(n.cls))

\* The shape and the type that the rules' conditions read are those of the
\* tensor, for any class and after any merge.
InfosAreTrue ==
  HasTiledParameter \/
  \A id \in Classes(eg) : Info(ValueOf(id).shape, ValueOf(id).dtype) = eg.info[id]

\* The root computes the bytes of the module's result, in the tiles the
\* output has in memory, from inputs that are in the tiles theirs have.
RootComputesModule == root # 0 => ValueOf(root) = expected

\* What the extractors rely on: an input's class holds nothing but its Var
\* and is still known by the id the initializer noted.
InputsStandAlone ==
  \A id \in inputs :
    /\ Find(eg, id) = id
    /\ \A en \in NodesOf(eg, id) : en.op = "var"

\* Addresses come from the header, sizes from the instructions: the inputs
\* and the output share no byte of HBM.
HbmLaidOut ==
  phase \notin {"build", "panic"} =>
    \A j, k \in DOMAIN offsets :
      j < k /\ offsets[j].id # 0 =>
        offsets[j].addr + Bytes(InfoOf(eg, offsets[j].id)) <= offsets[k].addr

\* No match is lost by the look at PROCESSED: when the runner says that it
\* is saturated, every match of every rule has its other side.
SaturatedIsClosed == phase = "saturated" => \A rule \in Rules : Closed(eg, rule)

\* The rules come to an end by themselves: what they make is not material for
\* ever more, and the limit of iterations, which main takes for impossible, is
\* not reached.
Saturates == iteration < IterationLimit

\* apply_one is about to make one tensor of two: what it adds is bound to
\* other tensors than the match it adds it for, or the rule does not hold.
\* Whether the constant of rule 10 is there is seen as apply_one goes along.
Mistaken ==
  phase = "apply" /\ \E p \in NextMatches \ processed :
  \E m \in FindMatches(eg, p.cls, Lhs(p.rule)) :
    /\ p.rule = 10 \/ Precond(p.rule, eg, m.ids, InfosOf(eg, m.ids))
    /\ \/ \E v \in Vars(Lhs(p.rule)) : Find(eg, Subst(Lhs(p.rule), m.ids)[v]) # Find(eg, p.subst[v])
       \/ p.rule = 0
       \/ p.rule = 6 /\ ValueOf(p.cls) # ValueOf(p.subst["x"])

NoMistake == ~Mistaken

=============================================================================
