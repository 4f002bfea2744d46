--------------------------- MODULE SoundCompiler ---------------------------
(***************************************************************************)
(* What is promised of the last part of compilation (README.md:18, "it     *)
(* will never generate invalid machine code"), without schedules,          *)
(* addresses or memory: a graph is refused, or becomes machine code that   *)
(* leaves the value of the graph in the output.  Nothing is promised of    *)
(* graphs too large for the accelerator; one with constants may be more    *)
(* than the compiler survives, and one with lines that the result does not *)
(* need is never accepted.                                                 *)
(***************************************************************************)
CONSTANTS
  Valid(_),        \* something is a graph, which the compiler may be given
  Meaning(_),      \* what a graph computes
  Live(_),         \* the result needs all lines of a graph
  Small(_),        \* the tensors of a graph fit in the accelerator
  HasConstants(_)  \* a graph has constants

VARIABLES
  program,  \* the graph that was handed in last
  status,   \* of it
  result    \* what its machine code has left in the output, once it has run

cvars == <<program, status, result>>

Nothing == <<>>

Init == program = Nothing /\ status = "refused" /\ result = Nothing

Submit ==
  /\ status \in {"refused", "finished"}
  /\ status' = "compiling" /\ Valid(program') /\ result' = Nothing

Refuse ==
  /\ status = "compiling" /\ status' = "refused"
  /\ UNCHANGED <<program, result>>

Abort ==
  /\ status = "compiling" /\ HasConstants(program) /\ status' = "aborted"
  /\ UNCHANGED <<program, result>>

Generate ==
  /\ status = "compiling" /\ Live(program) /\ status' = "generated"
  /\ UNCHANGED <<program, result>>

Execute ==
  /\ status = "generated" /\ status' = "finished"
  /\ Small(program) => result' = Meaning(program)
  /\ UNCHANGED program

Next == Submit \/ Refuse \/ Abort \/ Generate \/ Execute

Spec == Init /\ [][Next]_cvars

=============================================================================
