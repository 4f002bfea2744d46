--------------------------- MODULE PipelineProofs ---------------------------
(***************************************************************************)
(* Proofs about Pipeline, for every clock rate, limit and batch size: its  *)
(* type invariant, that its running best is the earliest cheapest of all   *)
(* candidates, what its clock allows, and that it implements               *)
(* AnytimeSearch.                                                          *)
(***************************************************************************)
EXTENDS Pipeline, TLAPS

\* A candidate number is used once: no file of the log directory has the
\* number of the next candidate or a later one.
NamesFresh == \A n \in Names : n >= pii_counter => log[n] = NoFile

\* The exit code is decided exactly when the driver exits.
CodeIffExit == (pc = "exit") <=> (code # -1)

\* The inductive invariant: the best of the candidates tried, and that the
\* candidates yet to come have numbers of their own.
IInv == TypeOK /\ NamesFresh /\ BestIsEarliestMinimum /\ CodeIffExit

-----------------------------------------------------------------------------

\* update_best keeps the type of best, whatever the log directory holds.
LEMMA UpdateBestType ==
  ASSUME NEW n \in Names, NEW files \in [Names -> Costs \cup {NoFile}],
         NEW time \in Nat, TypeOK
  PROVE  \/ UpdateBest(n, files, time) = NoBest
         \/ UpdateBest(n, files, time)
              \in [path : Names, cost : Costs, timestamp : Nat]
  BY DEF UpdateBest, TypeOK

\* The published path is a candidate's, or that of no file.
LEMMA BestPath == ASSUME TypeOK PROVE best.path \in Names \cup {Absent, Previous}
  BY DEF TypeOK, NoBest

LEMMA TypeInit == Init => TypeOK
  BY PipelineAssumption
     DEF Init, TypeOK, NoBest, Names, NoFile, Absent, Previous

LEMMA TypeNext == TypeOK /\ [Next]_vars => TypeOK'
<1> SUFFICES ASSUME TypeOK, [Next]_vars PROVE TypeOK'
  OBVIOUS
<1> USE PipelineAssumption
<1>1. CASE Parse
  BY <1>1 DEF Parse, TypeOK
<1>2. CASE HookIdle
  BY <1>2 DEF HookIdle, TypeOK
<1>3. CASE HookExtract
  BY <1>3 DEF HookExtract, Extraction, BatchSizes, TypeOK
<1>4. CASE LoopExtract
  BY <1>4 DEF LoopExtract, Extraction, BatchSizes, TypeOK
<1>5. CASE LoopEnd
  BY <1>5 DEF LoopEnd, TypeOK
<1>6. CASE Candidate
  <2>1. now' \in Nat
    BY <1>6 DEF Candidate, TypeOK
  <2>2. log' \in [Names -> Costs \cup {NoFile}]
    BY <1>6 DEF Candidate, TypeOK
  <2>3. \/ best' = NoBest
        \/ best' \in [path : Names, cost : Costs, timestamp : Nat]
    BY <1>6, <2>1, <2>2, UpdateBestType DEF Candidate
  <2>4. pii_counter' \in Nat /\ queue' \in Nat
    BY <1>6 DEF Candidate, TypeOK
  <2> QED
    BY <1>6, <2>1, <2>2, <2>3, <2>4 DEF Candidate, TypeOK
<1>7. CASE BatchDone
  BY <1>7 DEF BatchDone, TypeOK
<1>8. CASE StopNoProgress
  BY <1>8, BestPath DEF StopNoProgress, Exit, TypeOK
<1>9. CASE Rewrite
  BY <1>9 DEF Rewrite, AfterRunner, TypeOK
<1>10. CASE Timeout
  BY <1>10, BestPath DEF Timeout, Exit, TypeOK
<1>11. CASE Panic
  BY <1>11 DEF Panic, Exit, TypeOK
<1>12. CASE UNCHANGED vars
  BY <1>12 DEF vars, TypeOK
<1> QED
  BY <1>1, <1>2, <1>3, <1>4, <1>5, <1>6, <1>7, <1>8, <1>9, <1>10, <1>11,
     <1>12 DEF Next, Step, Exited

\* The driver's variables keep their types for every value of the limits,
\* durations, costs and batch sizes.
THEOREM TypeCorrect == Spec => []TypeOK
  BY TypeInit, TypeNext, PTL DEF Spec

-----------------------------------------------------------------------------

LEMMA IInvInit == Init => IInv
  BY TypeInit DEF Init, IInv, NamesFresh, BestIsEarliestMinimum, CodeIffExit,
                  Found, Assembled

\* A candidate extends the set of kernels by at most its own, whose number
\* is larger than theirs, so the earliest minimum is the old one unless the
\* new kernel is strictly cheaper.
LEMMA CandidateKeepsBest ==
  ASSUME IInv, Candidate, TypeOK'
  PROVE  NamesFresh' /\ BestIsEarliestMinimum'
<1> USE PipelineAssumption
<1>1. PICK c \in Costs \cup {NoFile} :
        log' = IF c = NoFile THEN log ELSE [log EXCEPT ![pii_counter] = c]
  BY DEF Candidate
<1>2. /\ pii_counter \in Names /\ pii_counter' = pii_counter + 1
      /\ best' = UpdateBest(pii_counter, log', now')
      /\ log \in [Names -> Costs \cup {NoFile}]
      /\ log[pii_counter] = NoFile
      /\ \A n \in Names : n >= pii_counter => log[n] = NoFile
  BY DEF Candidate, IInv, TypeOK, NamesFresh
<1>3. \A n \in Names : n # pii_counter => log'[n] = log[n]
  BY <1>1, <1>2
<1>4. log'[pii_counter] = c
  BY <1>1, <1>2
<1>5. NamesFresh'
  BY <1>2, <1>3 DEF NamesFresh, Names
<1>6. \A n \in Names : log[n] # NoFile => n < pii_counter /\ n \in Nat
  BY <1>2 DEF Names
<1>7. NoBest.path \notin Names
  BY DEF NoBest, Names, Absent
<1>8. CASE c = NoFile
  <2>1. log' = log /\ best' = best
    BY <1>1, <1>2, <1>4, <1>8 DEF UpdateBest
  <2> QED
    BY <1>5, <2>1 DEF IInv, BestIsEarliestMinimum, Found, Assembled
<1>9. CASE c # NoFile /\ (Found => c < best.cost)
  <2>1. best' = [path |-> pii_counter, cost |-> c, timestamp |-> now']
    BY <1>2, <1>4, <1>9 DEF UpdateBest
  <2>2. best' # NoBest
    BY <1>2, <1>7, <2>1
  <2>3. \A n \in Names : log[n] # NoFile => c < log[n]
    <3> SUFFICES ASSUME NEW n \in Names, log[n] # NoFile PROVE c < log[n]
      OBVIOUS
    <3>1. Found /\ best.cost <= log[n]
      BY DEF IInv, BestIsEarliestMinimum, Assembled
    <3>2. best.cost \in Nat /\ log[n] \in Nat /\ c \in Nat
      BY <1>2, <1>9, <3>1 DEF IInv, TypeOK, Found
    <3> QED
      BY <1>9, <3>1, <3>2
  <2>4. c \in Nat
    BY <1>9
  <2>5. \A n \in Assembled' :
          best'.cost <= log'[n] /\ (n < best'.path => best'.cost < log'[n])
    <3> SUFFICES ASSUME NEW n \in Assembled'
                 PROVE  c <= log'[n] /\ (n < pii_counter => c < log'[n])
      BY <2>1
    <3>1. CASE n = pii_counter
      BY <1>2, <1>4, <2>4, <3>1 DEF Names
    <3>2. CASE n # pii_counter
      <4>1. log'[n] = log[n] /\ c < log[n] /\ log[n] \in Nat
        BY <1>2, <1>3, <2>3, <3>2 DEF Assembled
      <4> QED
        BY <2>4, <4>1
    <3> QED
      BY <3>1, <3>2
  <2>6. pii_counter \in Assembled'
    BY <1>2, <1>4, <1>9 DEF Assembled
  <2> QED
    BY <1>4, <1>5, <2>1, <2>2, <2>5, <2>6 DEF BestIsEarliestMinimum, Found
<1>10. CASE c # NoFile /\ Found /\ ~(c < best.cost)
  <2>1. best' = best
    BY <1>2, <1>4, <1>10 DEF UpdateBest
  <2>2. /\ best.path \in Names /\ log[best.path] # NoFile
        /\ best.path < pii_counter /\ best.path \in Nat
    BY <1>6, <1>10 DEF IInv, BestIsEarliestMinimum, Assembled
  <2>3. best.cost \in Nat /\ c \in Nat /\ best.cost <= c
    <3>1. best \in [path : Names, cost : Costs, timestamp : Nat]
      BY <1>10 DEF IInv, TypeOK, Found
    <3>2. c \in Costs
      BY <1>10
    <3>3. best.cost \in Nat /\ c \in Nat
      BY <3>1, <3>2
    <3>4. ~(c < best.cost)
      BY <1>10
    <3> QED
      BY <3>3, <3>4
  <2>4. log'[best.path] = best.cost /\ best.path \in Assembled'
    BY <1>2, <1>3, <1>10, <2>2
       DEF IInv, BestIsEarliestMinimum, Assembled, Names
  <2>5. \A n \in Assembled' :
          best.cost <= log'[n] /\ (n < best.path => best.cost < log'[n])
    <3> SUFFICES ASSUME NEW n \in Assembled'
                 PROVE  best.cost <= log'[n]
                        /\ (n < best.path => best.cost < log'[n])
      OBVIOUS
    <3>1. CASE n = pii_counter
      BY <1>2, <1>4, <2>2, <2>3, <3>1 DEF Names
    <3>2. CASE n # pii_counter
      BY <1>3, <1>10, <3>2 DEF IInv, BestIsEarliestMinimum, Assembled
    <3> QED
      BY <3>1, <3>2
  <2> QED
    BY <1>5, <1>10, <2>1, <2>4, <2>5 DEF BestIsEarliestMinimum, Found
<1> QED
  BY <1>8, <1>9, <1>10

LEMMA IInvNext == IInv /\ [Next]_vars => IInv'
<1> SUFFICES ASSUME IInv, [Next]_vars PROVE IInv'
  OBVIOUS
<1>1. TypeOK'
  BY TypeNext DEF IInv
<1>2. CASE Candidate
  <2>1. CodeIffExit'
    BY <1>2 DEF Candidate, IInv, CodeIffExit
  <2> QED
    BY <1>1, <1>2, <2>1, CandidateKeepsBest DEF IInv
<1>3. CASE UNCHANGED <<log, best, pii_counter>> /\ CodeIffExit'
  BY <1>1, <1>3 DEF IInv, NamesFresh, BestIsEarliestMinimum, Found, Assembled
<1>4. CASE Parse
  BY <1>3, <1>4 DEF Parse, IInv, CodeIffExit
<1>5. CASE HookIdle
  BY <1>3, <1>5 DEF HookIdle, IInv, CodeIffExit
<1>6. CASE HookExtract
  BY <1>3, <1>6 DEF HookExtract, Extraction, IInv, CodeIffExit
<1>7. CASE LoopExtract
  BY <1>3, <1>7 DEF LoopExtract, Extraction, IInv, CodeIffExit
<1>8. CASE LoopEnd
  BY <1>3, <1>8 DEF LoopEnd, IInv, CodeIffExit
<1>9. CASE BatchDone
  BY <1>3, <1>9 DEF BatchDone, IInv, CodeIffExit
<1>10. CASE StopNoProgress
  BY <1>3, <1>10 DEF StopNoProgress, Exit, IInv, CodeIffExit
<1>11. CASE Rewrite
  BY <1>3, <1>11 DEF Rewrite, AfterRunner, IInv, CodeIffExit
<1>12. CASE Timeout
  BY <1>3, <1>12 DEF Timeout, Exit, IInv, CodeIffExit
<1>13. CASE Panic
  BY <1>3, <1>13 DEF Panic, Exit, IInv, CodeIffExit
<1>14. CASE UNCHANGED vars
  BY <1>3, <1>14 DEF vars, IInv, CodeIffExit
<1> QED
  BY <1>2, <1>4, <1>5, <1>6, <1>7, <1>8, <1>9, <1>10, <1>11, <1>12, <1>13,
     <1>14 DEF Next, Step, Exited

LEMMA IInvAlways == Spec => []IInv
  BY IInvInit, IInvNext, PTL DEF Spec

\* The kernel the driver would publish is the first of the cheapest ones it
\* has tried, and its file still holds what was costed.
THEOREM BestCorrect == Spec => []BestIsEarliestMinimum
<1>1. IInv => BestIsEarliestMinimum
  BY DEF IInv
<1> QED
  BY IInvAlways, <1>1, PTL

-----------------------------------------------------------------------------
(* The clock.                                                              *)

\* The loop is left at the limit or later; the Runner begins an iteration
\* within the limit on its own clock; what is an error is an error for good.
ClockInv ==
  /\ TypeOK /\ CodeIffExit
  /\ pc = "timeout" => now >= TIME_LIMIT
  /\ pc = "hook" => now <= TIME_LIMIT + runStart
  /\ ErrorExitOnlyAtALimit

LEMMA ClockInit == Init => ClockInv
  BY TypeInit DEF Init, ClockInv, CodeIffExit, ErrorExitOnlyAtALimit

\* Both ways to read a clock that was started late.
LEMMA WithinLimit ==
  ASSUME NEW a \in Nat, NEW b \in Nat, NEW c \in Nat, a - b <= c
  PROVE  a <= c + b
  OBVIOUS

LEMMA ClockNext == ClockInv /\ [Next]_vars => ClockInv'
<1> SUFFICES ASSUME ClockInv, [Next]_vars PROVE ClockInv'
  OBVIOUS
<1>1. TypeOK'
  BY TypeNext DEF ClockInv
<1>2. /\ TIME_LIMIT \in Nat
      /\ now \in Nat /\ runStart \in Nat /\ now' \in Nat /\ runStart' \in Nat
  BY <1>1, PipelineAssumption DEF ClockInv, TypeOK
<1> USE <1>1, <1>2 DEF ClockInv, CodeIffExit, ErrorExitOnlyAtALimit
<1>3. CASE Parse
  BY <1>3 DEF Parse
<1>4. CASE HookIdle
  BY <1>4 DEF HookIdle
<1>5. CASE HookExtract
  BY <1>5 DEF HookExtract, Extraction
<1>6. CASE LoopExtract
  BY <1>6 DEF LoopExtract, Extraction
<1>7. CASE LoopEnd
  BY <1>7 DEF LoopEnd
<1>8. CASE Candidate
  BY <1>8 DEF Candidate
<1>9. CASE BatchDone
  BY <1>9 DEF BatchDone
<1>10. CASE StopNoProgress
  BY <1>10 DEF StopNoProgress, Exit
<1>11. CASE Rewrite
  <2>1. pc = "rewrite" /\ code = -1 /\ runStart' = runStart
    BY <1>11 DEF Rewrite
  <2>2. CASE reason' = "TimeLimit"
    BY <1>11, <2>1, <2>2 DEF Rewrite, AfterRunner
  <2>3. CASE reason' = "IterationLimit"
    BY <1>11, <2>1, <2>3 DEF Rewrite, AfterRunner
  <2>4. CASE reason' = "None"
    <3>1. now' - runStart <= TIME_LIMIT /\ pc' = "hook" /\ code' = code
      BY <1>11, <2>4 DEF Rewrite, AfterRunner
    <3>2. now' <= TIME_LIMIT + runStart
      BY <1>2, <3>1, WithinLimit
    <3>3. now' <= TIME_LIMIT + runStart'
      BY <2>1, <3>2, Zenon
    <3> QED
      BY <2>1, <3>1, <3>3
  <2>5. CASE reason' \in {"NodeLimit", "Saturated"}
    BY <1>11, <2>1, <2>5 DEF Rewrite, AfterRunner
  <2> QED
    BY <1>11, <2>2, <2>3, <2>4, <2>5 DEF Rewrite
<1>12. CASE Timeout
  BY <1>12 DEF Timeout, Exit
<1>13. CASE Panic
  BY <1>13 DEF Panic, Exit
<1>14. CASE UNCHANGED vars
  BY <1>14 DEF vars
<1> QED
  BY <1>3, <1>4, <1>5, <1>6, <1>7, <1>8, <1>9, <1>10, <1>11, <1>12, <1>13,
     <1>14 DEF Next, Step, Exited

LEMMA ClockAlways == Spec => []ClockInv
  BY ClockInit, ClockNext, PTL DEF Spec

\* An error exit throws the best kernel away only at egg's iteration limit or
\* at the very instant of the time limit.
THEOREM ErrorsOnlyAtALimit == Spec => []ErrorExitOnlyAtALimit
<1>1. ClockInv => ErrorExitOnlyAtALimit
  BY DEF ClockInv
<1> QED
  BY ClockAlways, <1>1, PTL

\* No extraction begins when the time is over, whatever its predecessors took.
THEOREM SearchEndsInTime == Spec => NoSearchAfterDeadline
<1>1. ASSUME ClockInv, [Next]_vars, pc' = "pii", pc # "pii"
      PROVE  now <= TIME_LIMIT + runStart
  <2>1. TIME_LIMIT \in Nat /\ now \in Nat /\ runStart \in Nat
    BY <1>1, PipelineAssumption DEF ClockInv, TypeOK
  <2>2. CASE HookExtract
    BY <1>1, <2>2 DEF HookExtract, ClockInv
  <2>3. CASE LoopExtract
    BY <2>1, <2>3 DEF LoopExtract
  <2>4. HookExtract \/ LoopExtract
    BY <1>1 DEF Next, Step, Exited, vars, Parse, HookIdle, LoopEnd, Candidate,
       BatchDone, StopNoProgress, Rewrite, AfterRunner, Timeout, Panic, Exit
  <2> QED
    BY <2>2, <2>3, <2>4
<1>2. ClockInv /\ [Next]_vars
        => [pc' = "pii" /\ pc # "pii" => now <= TIME_LIMIT + runStart]_vars
  BY <1>1
<1> QED
  BY ClockAlways, <1>2, PTL DEF Spec, NoSearchAfterDeadline

-----------------------------------------------------------------------------

\* When the driver ends well, the output is the one AnytimeSearch decides.
LEMMA PublishesEarliestMinimum ==
  ASSUME IInv
  PROVE  \/ Search!EarliestMinimum(log, best.path)
         \/ Search!Assembled(log) = {} /\ best.path = Absent
<1>1. Search!Assembled(log) = Assembled
  BY DEF Search!Assembled, Search!NoFile, Assembled, NoFile
<1>2. CASE Found
  BY <1>1, <1>2 DEF IInv, BestIsEarliestMinimum, Search!EarliestMinimum
<1>3. CASE ~Found
  BY <1>1, <1>3 DEF IInv, BestIsEarliestMinimum, Found, NoBest
<1> QED
  BY <1>2, <1>3

LEMMA SearchInit == Init => Search!Init
  BY DEF Init, Search!Init, NoFile, Absent, Previous, Search!NoFile,
         Search!Absent, Search!Previous

\* Every step of the driver is a step of AnytimeSearch or changes nothing
\* that it sees.
LEMMA SearchNext == IInv /\ [Next]_vars => [Search!Next]_(Search!avars)
<1> SUFFICES ASSUME IInv, [Next]_vars
             PROVE  Search!Next \/ UNCHANGED <<log, output, code>>
  BY DEF Search!avars
<1> USE DEF Search!Next, Search!Finish, Search!GiveUp, Search!Try
<1>1. CASE Candidate
  <2>1. PICK c \in Costs \cup {NoFile} :
          log' = IF c = NoFile THEN log ELSE [log EXCEPT ![pii_counter] = c]
    BY <1>1 DEF Candidate
  <2>2. pii_counter \in Names /\ log[pii_counter] = NoFile
        /\ pc # "exit" /\ UNCHANGED <<output, code>>
    BY <1>1 DEF Candidate, IInv, NamesFresh, TypeOK
  <2>3. CASE c = NoFile
    BY <2>1, <2>2, <2>3
  <2>4. CASE c # NoFile
    <3>1. Search!Try(pii_counter, c)
      BY <2>1, <2>2, <2>4
         DEF IInv, CodeIffExit, NoFile, Search!NoFile
    <3> QED
      BY <2>1, <2>2, <2>4, <3>1
  <2> QED
    BY <2>3, <2>4
<1>2. CASE UNCHANGED <<log, output, code>>
  BY <1>2
<1>3. CASE Parse
  BY <1>2, <1>3 DEF Parse
<1>4. CASE HookIdle
  BY <1>2, <1>4 DEF HookIdle
<1>5. CASE HookExtract
  BY <1>2, <1>5 DEF HookExtract
<1>6. CASE LoopExtract
  BY <1>2, <1>6 DEF LoopExtract
<1>7. CASE LoopEnd
  BY <1>2, <1>7 DEF LoopEnd
<1>8. CASE BatchDone
  BY <1>2, <1>8 DEF BatchDone
<1>9. CASE StopNoProgress
  BY <1>9, PublishesEarliestMinimum
     DEF StopNoProgress, Exit, IInv, CodeIffExit, Absent, Search!Absent
<1>10. CASE Rewrite
  BY <1>10 DEF Rewrite, IInv, CodeIffExit
<1>11. CASE Timeout
  BY <1>11, PublishesEarliestMinimum
     DEF Timeout, Exit, IInv, CodeIffExit, Absent, Search!Absent
<1>12. CASE Panic
  BY <1>12 DEF Panic, Exit, IInv, CodeIffExit
<1>13. CASE UNCHANGED vars
  BY <1>2, <1>13 DEF vars
<1> QED
  BY <1>1, <1>3, <1>4, <1>5, <1>6, <1>7, <1>8, <1>9, <1>10, <1>11, <1>12,
     <1>13 DEF Next, Step, Exited

\* The driver implements AnytimeSearch, under the mapping of Pipeline.
THEOREM PipelineImplementsSearch == Spec => ImplementsSearch
<1>1. Spec => Search!Init /\ [][Search!Next]_(Search!avars)
  BY SearchInit, SearchNext, IInvAlways, PTL DEF Spec
<1> QED
  BY <1>1 DEF ImplementsSearch, Search!Spec

=============================================================================
