---------------------------- MODULE MCSimulation ----------------------------
(* Instances of Simulation for TLC. *)
EXTENDS Simulation, TLC

\* The second transaction of a block cannot be paid for at the first height.
SecondIsUnderfunded(f, state, tx) == f = 0 /\ Len(state) = 1

AccountSymmetry == Permutations(Accounts)
=============================================================================
