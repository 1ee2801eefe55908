------------------------ MODULE MCDownloadLifecycle ------------------------
(* Instances of DownloadLifecycle for TLC.                                 *)
EXTENDS LifecycleCatalog, TLC

\* Queue.Concurrency is 1, or has not been set.
MCConcurrency == [q \in Queues |-> 1]
MCUnset == [q \in Queues |-> 0]

RunnerSymmetry == Permutations(Runners)
=============================================================================
