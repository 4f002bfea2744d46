------------------------------ MODULE Pipeline ------------------------------
(***************************************************************************)
(* The driver of the compiler backend (generic/src/pipeline.rs): parse the *)
(* HLO file into an e-graph, let egg's Runner apply the rewrites, and      *)
(* after every iteration extract PII graphs, allocate memory for each,     *)
(* and keep the cheapest kernel found.  When egg stops because the e-graph *)
(* is saturated or too large, a second loop goes on extracting until the   *)
(* time limit.  Every step takes time, and the clock decides much of what  *)
(* the driver does.                                                        *)
(***************************************************************************)
EXTENDS Integers

CONSTANTS
  TIME_LIMIT,         \* lib.rs: overall time limit, in ticks
  SATURATION_FACTOR,  \* lib.rs: patience, as a multiple of the best's time
  N,                  \* lib.rs: iterations between extractions
  SLOW_LIMIT_START,   \* lib.rs: first size limit of the slow extractor
  SLOW_LIMIT_CUTOFF,  \* lib.rs: last size limit at which it runs
  ITER_LIMIT,         \* egg's default iteration limit, which nobody sets
  Durations,          \* how many ticks a piece of work may take
  Costs,              \* costs a kernel may have
  FastBatch,          \* bound: most PII graphs the fast extractor returns
  SlowBatch,          \* bound: most PII graphs the slow extractor adds
  MaxPii              \* bound: last candidate number; never reached in time

ASSUME PipelineAssumption ==
  /\ TIME_LIMIT \in Nat /\ SATURATION_FACTOR \in Nat /\ ITER_LIMIT \in Nat
  /\ N \in Nat \ {0}
  /\ SLOW_LIMIT_START \in Nat /\ SLOW_LIMIT_CUTOFF \in Nat
  /\ FastBatch \in Nat /\ SlowBatch \in Nat /\ MaxPii \in Nat
  /\ Durations \subseteq Nat /\ Costs \subseteq Nat

Names == 0 .. MaxPii

NoFile   == -1
Absent   == -1
Previous == -2

VARIABLES
  pc,           \* where the driver is
  now,          \* start.elapsed()
  runStart,     \* when egg's Runner started its own clock
  iter,         \* runner.iterations.len()
  reason,       \* runner.stop_reason, "None" while the Runner runs
  hookLimit,    \* the hook's own copy of limit
  limit,        \* main's limit
  queue,        \* PII graphs of the current batch not yet tried
  pii_counter,  \* number of the next candidate
  log,          \* cost of the kernel in each <n>.py of the log directory
  best,         \* the best candidate so far
  output,       \* what the output file is a copy of
  code          \* exit code, -1 while running

vars == <<pc, now, runStart, iter, reason, hookLimit, limit, queue,
          pii_counter, log, best, output, code>>

NoBest == [path |-> Absent, cost |-> 0, timestamp |-> 0]

Found == best # NoBest

\* check_termination stops the process: nothing better has turned up for
\* longer than it took to find the best.
Expired == Found /\ now > best.timestamp * SATURATION_FACTOR

Init ==
  /\ pc = "parse" /\ now = 0 /\ runStart = 0 /\ iter = 0 /\ reason = "None"
  /\ hookLimit = SLOW_LIMIT_START /\ limit = SLOW_LIMIT_START
  /\ queue = 0 /\ pii_counter = 0
  /\ log = [n \in Names |-> NoFile]
  /\ best = NoBest
  /\ output \in {Absent, Previous}
  /\ code = -1

Exit(c) == pc' = "exit" /\ code' = c

\* The HLO file is parsed and the Runner starts its clock; it stops at once
\* when the initial e-graph is already over the node limit.
Parse ==
  /\ pc = "parse"
  /\ \E d \in Durations : now' = now + d
  /\ runStart' = now'
  /\ \/ pc' = "hook" /\ UNCHANGED reason
     \/ pc' = "loop" /\ reason' = "NodeLimit"
  /\ UNCHANGED <<iter, hookLimit, limit, queue, pii_counter, log, best,
                 output, code>>

\* The hook of an iteration that extracts nothing.
HookIdle ==
  /\ pc = "hook" /\ ~Expired
  /\ ~(iter % N = 0 /\ iter > 0)
  /\ pc' = "rewrite"
  /\ UNCHANGED <<now, runStart, iter, reason, hookLimit, limit, queue,
                 pii_counter, log, best, output, code>>

\* How many PII graphs an extraction may return: the slow extractor runs
\* only up to its cutoff.
BatchSizes(lim) ==
  0 .. (FastBatch + (IF lim <= SLOW_LIMIT_CUTOFF THEN SlowBatch ELSE 0))

\* isel::extractor::extract: it takes time, and returns a batch.
Extraction(lim) ==
  /\ \E d \in Durations \ {0} : now' = now + d
  /\ queue' \in BatchSizes(lim)
  /\ pc' = "pii"

\* The hook is a move closure and limit is a usize: what it increments is
\* its own copy.
HookExtract ==
  /\ pc = "hook" /\ ~Expired
  /\ iter % N = 0 /\ iter > 0
  /\ Extraction(hookLimit)
  /\ hookLimit' = hookLimit + 1
  /\ UNCHANGED <<runStart, iter, reason, limit, pii_counter, log, best,
                 output, code>>

\* Mutant: an extraction loop that leaves the time limit to timeout().
LoopExtractUntimed ==
  /\ pc = "loop" /\ ~Expired
  /\ Extraction(limit)
  /\ limit' = limit + 1
  /\ UNCHANGED <<runStart, iter, reason, hookLimit, pii_counter, log, best,
                 output, code>>

\* The loop after the Runner has stopped, which counts with main's limit.
LoopExtract ==
  /\ pc = "loop" /\ now < TIME_LIMIT /\ ~Expired
  /\ Extraction(limit)
  /\ limit' = limit + 1
  /\ UNCHANGED <<runStart, iter, reason, hookLimit, pii_counter, log, best,
                 output, code>>

\* Mutant: the instant of the limit belongs to neither branch of the loop.
LoopEndStrict ==
  /\ pc = "loop" /\ now > TIME_LIMIT
  /\ pc' = "timeout"
  /\ UNCHANGED <<now, runStart, iter, reason, hookLimit, limit, queue,
                 pii_counter, log, best, output, code>>

LoopEnd ==
  /\ pc = "loop" /\ now >= TIME_LIMIT
  /\ pc' = "timeout"
  /\ UNCHANGED <<now, runStart, iter, reason, hookLimit, limit, queue,
                 pii_counter, log, best, output, code>>

\* Mutant: a tie goes to the later kernel.
UpdateBestOnTie(n, files, time) ==
  IF files[n] # NoFile /\ (Found => files[n] <= best.cost)
  THEN [path |-> n, cost |-> files[n], timestamp |-> time]
  ELSE best

\* update_best: only a strictly cheaper kernel replaces the best, and the
\* clock is read after the cost has been computed.
UpdateBest(n, files, time) ==
  IF files[n] # NoFile /\ (Found => files[n] < best.cost)
  THEN [path |-> n, cost |-> files[n], timestamp |-> time]
  ELSE best

\* Mutant: the loop over a batch runs once too often.
CandidateOnceMore ==
  /\ pc = "pii" /\ queue >= 0 /\ ~Expired
  /\ pii_counter \in Names
  /\ \E d \in Durations : now' = now + d
  /\ \E c \in Costs \cup {NoFile} :
       log' = IF c = NoFile THEN log ELSE [log EXCEPT ![pii_counter] = c]
  /\ best' = UpdateBest(pii_counter, log', now')
  /\ pii_counter' = pii_counter + 1
  /\ queue' = queue - 1
  /\ UNCHANGED <<pc, runStart, iter, reason, hookLimit, limit, output, code>>

\* One PII graph: save it, allocate memory, cost the assembly file if the
\* allocator wrote one.  The allocator's return value is not looked at.
Candidate ==
  /\ pc = "pii" /\ queue > 0 /\ ~Expired
  /\ pii_counter \in Names
  /\ \E d \in Durations : now' = now + d
  /\ \E c \in Costs \cup {NoFile} :
       log' = IF c = NoFile THEN log ELSE [log EXCEPT ![pii_counter] = c]
  /\ best' = UpdateBest(pii_counter, log', now')
  /\ pii_counter' = pii_counter + 1
  /\ queue' = queue - 1
  /\ UNCHANGED <<pc, runStart, iter, reason, hookLimit, limit, output, code>>

\* The batch is done: back to the rewrites, or to the loop.
BatchDone ==
  /\ pc = "pii" /\ queue = 0 /\ ~Expired
  /\ pc' = IF reason = "None" THEN "rewrite" ELSE "loop"
  /\ UNCHANGED <<now, runStart, iter, reason, hookLimit, limit, queue,
                 pii_counter, log, best, output, code>>

\* check_termination, at every point that calls it: the best is copied to
\* the output path and the process exits.
StopNoProgress ==
  /\ pc \in {"hook", "pii", "loop"} /\ (pc = "loop" => now < TIME_LIMIT)
  /\ Expired
  /\ output' = best.path
  /\ Exit(0)
  /\ UNCHANGED <<now, runStart, iter, reason, hookLimit, limit, queue,
                 pii_counter, log, best>>

\* Mutant: a saturated e-graph is not extracted from any further.
AfterRunnerNoLoop(r) ==
  IF r = "None" THEN "hook"
  ELSE IF r \in {"TimeLimit", "NodeLimit", "Saturated"} THEN "timeout"
  ELSE "exit"

\* Where main goes once the Runner has stopped.
AfterRunner(r) ==
  IF r = "None" THEN "hook"
  ELSE IF r = "TimeLimit" THEN "timeout"
  ELSE IF r \in {"NodeLimit", "Saturated"} THEN "loop"
  ELSE "exit"

\* One iteration of egg's Runner: search, apply and rebuild, with
\* check_limits before, between and after.  It looks at the clock first,
\* then at the size, then at the number of iterations.
Rewrite ==
  /\ pc = "rewrite"
  /\ \E d \in Durations : now' = now + d
  /\ iter' = iter + 1
  /\ \/ /\ now - runStart <= TIME_LIMIT
        /\ reason' \in {"NodeLimit", "Saturated"}
     \/ reason' = IF now' - runStart > TIME_LIMIT THEN "TimeLimit"
                  ELSE IF iter' >= ITER_LIMIT THEN "IterationLimit"
                  ELSE "None"
  /\ pc' = AfterRunner(reason')
  /\ code' = IF reason' = "IterationLimit" THEN 1 ELSE code
  /\ UNCHANGED <<runStart, hookLimit, limit, queue, pii_counter, log, best,
                 output>>

\* Mutant: nothing found leaves an earlier output file in place.
TimeoutKeepsOutput ==
  /\ pc = "timeout"
  /\ \E d \in {0, 1} : now' = now + d
  /\ IF now' > TIME_LIMIT
     THEN output' = (IF Found THEN best.path ELSE output) /\ Exit(0)
     ELSE UNCHANGED output /\ Exit(1)
  /\ UNCHANGED <<runStart, iter, reason, hookLimit, limit, queue,
                 pii_counter, log, best>>

\* timeout(): publish the best, or remove the output when there is none.
\* It reads the clock again, and refuses to act on a reading that is not
\* past the limit.
Timeout ==
  /\ pc = "timeout"
  /\ \E d \in {0, 1} : now' = now + d
  /\ IF now' > TIME_LIMIT
     THEN output' = best.path /\ Exit(0)
     ELSE UNCHANGED output /\ Exit(1)
  /\ UNCHANGED <<runStart, iter, reason, hookLimit, limit, queue,
                 pii_counter, log, best>>

\* A panic in any of the parts the driver calls.
Panic ==
  /\ pc # "exit"
  /\ Exit(101)
  /\ UNCHANGED <<now, runStart, iter, reason, hookLimit, limit, queue,
                 pii_counter, log, best, output>>

Exited == pc = "exit" /\ UNCHANGED vars

Step ==
  \/ Parse \/ HookIdle \/ HookExtract \/ Candidate \/ BatchDone \/ Rewrite
  \/ LoopExtract \/ LoopEnd \/ StopNoProgress \/ Timeout

Next == Step \/ Panic \/ Exited

Spec == Init /\ [][Next]_vars

\* The driver is one thread that nothing blocks: it keeps taking steps.
FairSpec == Spec /\ WF_vars(Step)

-----------------------------------------------------------------------------

\* Every variable has its type.
TypeOK ==
  /\ pc \in {"parse", "hook", "rewrite", "pii", "loop", "timeout", "exit"}
  /\ reason \in {"None", "TimeLimit", "NodeLimit", "Saturated",
                 "IterationLimit"}
  /\ now \in Nat /\ runStart \in Nat /\ iter \in Nat
  /\ hookLimit \in Nat /\ limit \in Nat /\ queue \in Nat
  /\ pii_counter \in Nat
  /\ log \in [Names -> Costs \cup {NoFile}]
  /\ \/ best = NoBest
     \/ best \in [path : Names, cost : Costs, timestamp : Nat]
  /\ output \in Names \cup {Absent, Previous}
  /\ code \in {-1, 0, 1, 101}

Assembled == {n \in Names : log[n] # NoFile}

\* The running best of update_best is the earliest among the cheapest of all
\* the kernels in the log directory, and the file it names still holds the
\* kernel that was costed: no later candidate, of either extraction loop, is
\* written over it (pii_counter is shared by the hook and the loop).
BestIsEarliestMinimum ==
  IF Found
  THEN /\ best.path \in Assembled
       /\ log[best.path] = best.cost
       /\ \A n \in Assembled :
            best.cost <= log[n] /\ (n < best.path => best.cost < log[n])
  ELSE Assembled = {}

\* A kernel that was found is not lost by an error exit, except in the two
\* ways the code has: the Runner hits egg's iteration limit, or the loop
\* ends at the very instant of the limit, which `while elapsed < LIMIT`
\* counts as over and timeout()'s `elapsed > LIMIT` as not yet.
ErrorExitOnlyAtALimit ==
  code = 1 => reason = "IterationLimit" \/ now = TIME_LIMIT

\* No extraction begins after the time limit, counted from the moment the
\* Runner starts its clock: what overruns the limit is a batch under way.
NoSearchAfterDeadline ==
  [][pc' = "pii" /\ pc # "pii" => now <= TIME_LIMIT + runStart]_vars

\* The driver always exits.
Terminates == <>(pc = "exit")

\* AnytimeSearch, of which the driver's clocks and loops are one refinement.
Search == INSTANCE AnytimeSearch WITH
  tried  <- log,
  status <- IF code = -1 THEN "searching"
            ELSE IF code = 0 THEN "finished" ELSE "failed"

\* Whatever the clock and the extractors do, the driver behaves as an
\* AnytimeSearch: the output is decided by all candidates tried, each in a
\* file of its own, and is touched by nothing but a successful end.
ImplementsSearch == Search!Spec

\* pipeline.rs:424 says of the iteration limit "This should not happen".
IterationLimitNeverReached == reason # "IterationLimit"

=============================================================================
