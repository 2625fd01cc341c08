------------------------- MODULE MCWorkerRegistry -------------------------
(* Instances of WorkerRegistry for TLC.                                     *)
EXTENDS WorkerRegistry, TLC

\* Workers, replicas, Runs and connections are interchangeable.
Symmetry == Permutations(Worker) \cup Permutations(Replica)
              \cup Permutations(Run) \cup Permutations(Connection)

=============================================================================
