------------------------------ MODULE MCMalloc ------------------------------
(***************************************************************************)
(* Instances of Malloc: a family of graphs, in which an input and perhaps  *)
(* a constant in HBM feed a few instructions with results in HBM or in one *)
(* buffer of the accelerator.  The buffers are so small that most of the   *)
(* problems can be solved only by sharing addresses, and many not at all.  *)
(***************************************************************************)
EXTENDS Malloc

CONSTANTS Short,  \* instructions of the graphs that may have dead lines
          Long,   \* instructions of the graphs that have none
          ChipSize, HBMSize

MCOnChip   == {"D1"}
MCCapacity == [b \in {"HBM", "D1"} |-> IF b = "HBM" THEN HBMSize ELSE ChipSize]

Line(op, rhs, buffer, size, start, offset) ==
  [op |-> op, rhs |-> rhs, buffer |-> buffer, size |-> size, start |-> start,
   offset |-> offset]

Input    == Line("Var", <<>>, "HBM", 2, 0, 0)
Constant == Line("DCC", <<>>, "HBM", 1, 0, NoOffset)

Singles(n) == {<<x>> : x \in 1 .. n}
Pairs(n)   == {<<x, y>> : x \in 1 .. n, y \in 1 .. n}

\* The lines that may follow g.
NextLines(g) ==
  LET n == Len(g) IN
  {Line("instr", x, "D1", 1, 0, NoOffset) :
     x \in Singles(n) \cup {p \in Pairs(n) : p[1] < p[2]}} \cup
  {Line("instr", x, "HBM", 1, 0, NoOffset) : x \in Singles(n)} \cup
  {Line("instr", x, "D1", 2, 0, NoOffset) : x \in Singles(n)} \cup
  {Line("slice", <<x>>, g[x].buffer, 1, s, NoOffset) :
     x \in {y \in 1 .. n : g[y].size > 1}, s \in {0, 1}} \cup
  {Line("inplace", <<x>>, g[x].buffer, g[x].size, 0, NoOffset) : x \in 1 .. n} \cup
  {Line("concat", p, g[p[1]].buffer, g[p[1]].size + g[p[2]].size, 0, NoOffset) :
     p \in {q \in Pairs(n) : q[1] # q[2] /\ g[q[1]].buffer = g[q[2]].buffer}}

Extended(S, n) ==
  LET family[k \in 0 .. n] ==
        IF k = 0 THEN S
        ELSE UNION {{Append(g, l) : l \in NextLines(g)} : g \in family[k - 1]}
  IN  family[n]

\* g, or g with the output at a fixed offset.
Rooted(g) ==
  {g} \cup IF g[Len(g)].buffer = "HBM"
           THEN {[g EXCEPT ![Len(g)].offset = HBMSize - g[Len(g)].size]}
           ELSE {}

\* g with a last line that leaves no line dead, of which there are some only if
\* g has at most two results that nothing uses.
Closed(g) ==
  LET unused == {t \in 1 .. Len(g) : Uses(g, t) = {}}
  IN  IF unused \in {{x, y} : x \in unused, y \in unused}
      THEN {Append(g, l) : l \in {k \in NextLines(g) :
                                    \A t \in unused : \E i \in 1 .. Len(k.rhs) : k.rhs[i] = t}}
      ELSE {}

MCGraphs ==
  UNION {Rooted(g) : g \in Extended({<<Input, Constant>>}, Short)} \cup
  UNION {Closed(g) : g \in Extended({<<Input>>, <<Input, Constant>>}, Long - 1)}

=============================================================================
