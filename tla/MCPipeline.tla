----------------------------- MODULE MCPipeline -----------------------------
(***************************************************************************)
(* Instances of Pipeline for TLC.                                          *)
(***************************************************************************)
EXTENDS Pipeline, TLC

Interchangeable == Permutations(Request) \cup Permutations(Client)

\* What the steps and SuccessIsCommitted and SlidingLimit read: all but the
\* two histories produced and sender.
WithoutHistory ==
  <<now, faults, backend, store, req, starts, limiterVars, chain, committed, mishaps>>

=============================================================================
