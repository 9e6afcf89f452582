-------------------------- MODULE MCTransactionArgs --------------------------
(* Instances of TransactionArgs for TLC. *)
EXTENDS TransactionArgs, TLC

AccountSymmetry == Permutations(Accounts)
=============================================================================
