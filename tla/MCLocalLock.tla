----------------------------- MODULE MCLocalLock -----------------------------
(* Values of the constants of LocalLock for TLC.                             *)
EXTENDS LocalLock, TLC

\* Clients and keys are interchangeable.
Symmetry == Permutations(Clients) \union Permutations(Keys)

Workload(searches, inserts) == [read |-> searches, write |-> inserts]

\* Searches alone, inserts alone, and both.
SafetyWorkloads == {Workload(5, 0), Workload(0, 4), Workload(2, 2)}
ThreeInserts == {Workload(0, 3)}
====
