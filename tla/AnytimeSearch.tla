--------------------------- MODULE AnytimeSearch ---------------------------
(***************************************************************************)
(* What the compilation driver promises, without its clocks, its two       *)
(* extraction loops and its running best: candidates are tried one after   *)
(* the other, and if the search finishes, the output is the first of the   *)
(* cheapest candidates that assembled, or no file when none did.  A search *)
(* that gives up leaves the output as it was.                              *)
(***************************************************************************)
EXTENDS Integers

CONSTANTS Names,   \* the numbers candidates are given, in the order of trial
          Costs    \* what a kernel may cost

NoFile   == -1     \* the candidate has no assembly file
Absent   == -1     \* there is no output file
Previous == -2     \* the output file is one left by an earlier compilation

VARIABLES tried,   \* the cost of the kernel of each candidate, or NoFile
          output,  \* the candidate the output file is a copy of
          status   \* "searching", "finished" or "failed"

avars == <<tried, output, status>>

Assembled(t) == {n \in Names : t[n] # NoFile}

\* c is the first of the cheapest candidates of t.
EarliestMinimum(t, c) ==
  /\ c \in Assembled(t)
  /\ \A n \in Assembled(t) : t[c] <= t[n] /\ (n < c => t[c] < t[n])

Init ==
  /\ tried = [n \in Names |-> NoFile]
  /\ output \in {Absent, Previous}
  /\ status = "searching"

\* A candidate is assembled, whose file is a new one.
Try(n, c) ==
  /\ status = "searching"
  /\ tried[n] = NoFile
  /\ tried' = [tried EXCEPT ![n] = c]
  /\ UNCHANGED <<output, status>>

\* The search ends well: the output is decided by all that was tried.
Finish ==
  /\ status = "searching"
  /\ status' = "finished"
  /\ \/ EarliestMinimum(tried, output')
     \/ Assembled(tried) = {} /\ output' = Absent
  /\ UNCHANGED tried

GiveUp ==
  /\ status = "searching"
  /\ status' = "failed"
  /\ UNCHANGED <<tried, output>>

Next ==
  \/ \E n \in Names, c \in Costs : Try(n, c)
  \/ Finish
  \/ GiveUp

Spec == Init /\ [][Next]_avars

=============================================================================
