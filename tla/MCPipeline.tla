----------------------------- MODULE MCPipeline -----------------------------
(***************************************************************************)
(* Small instances of Pipeline: a time limit of a few ticks, work that     *)
(* takes none or up to two of them, and two costs, so that candidates    *)
(* tie, improve and worsen.                                                *)
(***************************************************************************)
EXTENDS Pipeline

MCDurations == {0, 1, 2}
MCCosts     == {1, 2}

\* The bound on candidate numbers is never what stops a run.
ASSUME MCBoundIsLarge ==
  MaxPii >= (ITER_LIMIT + TIME_LIMIT + 1) * (FastBatch + SlowBatch)

=============================================================================
