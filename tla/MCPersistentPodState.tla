------------------------ MODULE MCPersistentPodState ------------------------
(***************************************************************************)
(* Small instances of PersistentPodState for TLC.                          *)
(***************************************************************************)
EXTENDS PersistentPodState, TLC

CONSTANTS Recreates, Faults, Crashes, Deletes

MCBudget == [e \in Events |->
               CASE e = "recreate" -> Recreates
                 [] e = "fault"    -> Faults
                 [] e = "crash"    -> Crashes
                 [] e = "delete"   -> Deletes]

\* Pods of one kind, addresses and nodes are interchangeable.
MCSymmetry ==
  Permutations(Owned) \cup Permutations(IPs) \cup Permutations(Nodes)

=============================================================================
