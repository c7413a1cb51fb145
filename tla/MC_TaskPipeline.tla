-------------------------- MODULE MC_TaskPipeline --------------------------
(* Instances of TaskPipeline for TLC. *)
EXTENDS TaskPipeline, TLC

Perms == Permutations(QueueWorker) \cup Permutations(Worker)

=============================================================================
