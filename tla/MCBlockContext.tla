---------------------------- MODULE MCBlockContext ----------------------------
(* Instances of BlockContext for TLC. *)
EXTENDS BlockContext
=============================================================================
