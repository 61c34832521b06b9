-------------------------- MODULE MCPipelineManager --------------------------
(* Small instances of PipelineManager for TLC. *)
EXTENDS PipelineManager, TLC

\* Tasks of one kind, goroutines and requests are interchangeable; RoundSpawn
\* chooses among idle goroutines, which do not differ.
Symmetry ==
  Permutations(HistoryTasks) \cup Permutations(Workers) \cup Permutations(Clients)
=============================================================================
