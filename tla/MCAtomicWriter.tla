--------------------------- MODULE MCAtomicWriter ---------------------------
(***************************************************************************)
(* Small instances of AtomicWriter for TLC.                                *)
(***************************************************************************)
EXTENDS AtomicWriter, TLC

CONSTANTS Renewals, Faults, Crashes, f1, x, y

MCBudget == [e \in Events |-> CASE e = "renew" -> Renewals
                                [] e = "fault" -> Faults
                                [] e = "crash" -> Crashes]

\* A whole payload, one that changes a file and drops the other, and one that drops
\* the first: from one to another files are changed, kept, dropped and added.
MCPayloads ==
  {[f \in Files |-> x],
   [f \in Files |-> IF f = f1 THEN y ELSE None],
   [f \in Files |-> IF f = f1 THEN None ELSE x]}

\* Every file present, as certToProjectionMap makes it.
MCWholePayloads == {c \in Contents : Has(c) = Files}

=============================================================================
