-------------------------- MODULE MCRunExecution --------------------------
(* Instances of RunExecution for TLC.                                       *)
EXTENDS RunExecution, TLC

\* Every Run competes for the same Workspace.
SharedWorkspace == [r \in Run |-> CHOOSE w \in Workspace : TRUE]

\* Runs of one Workspace, replicas and cancel requests are interchangeable.
Symmetry == Permutations(Run) \cup Permutations(Replica)
              \cup Permutations(CancelRequest)

=============================================================================
