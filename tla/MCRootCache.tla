----------------------------- MODULE MCRootCache -----------------------------
(* Instances of RootCache for TLC. *)
EXTENDS RootCache, TLC

CONSTANT OneAccount

MCOwnerOf == [k \in Slots |-> OneAccount]

WorkerSymmetry == Permutations(Readers) \cup Permutations(Resetters)

\* Slots are alike when the key file lists none or all of them.
AllSymmetry == WorkerSymmetry \cup Permutations(Slots) \cup Permutations(Heights)
=============================================================================
