-------------------------- MODULE MCOverlayStateDB --------------------------
(* Instances of OverlayStateDB for TLC. *)
EXTENDS OverlayStateDBContract

CONSTANT Height1

\* At the second height every key has a different value.
MCUpstreamAt ==
    [n \in BlockNumbers |-> [k \in Keys |-> IF n = Height1 THEN 0 ELSE 1]]

\* Bound of the revisions and the fork run: while an id is overtaken, one layer stays free.
RoomWhileLapsed == lapsed = {} \/ FreeLayers(chain) # {}

LayerSymmetry == Permutations(Layers \ {Root})
=============================================================================
