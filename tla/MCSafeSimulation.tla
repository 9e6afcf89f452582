-------------------------- MODULE MCSafeSimulation --------------------------
(* Instances of SafeSimulation for TLC. *)
EXTENDS SafeSimulation

\* addOwnerWithThreshold(1, 3), a call with data that looks like a record,
\* and a creation.
MCEnlarge == [to |-> Safe, value |-> 0, data |-> <<1, 3>>]

MCCalls == {MCEnlarge, [to |-> EOA, value |-> 1, data |-> <<0, 9, 0, 0>>],
            [to |-> Nil, value |-> 0, data |-> <<1>>]}

MCBase == [owners |-> <<3, 2>>, threshold |-> 2]
MCEnlarged == [owners |-> <<1, 3, 2>>, threshold |-> 3]

MCOwnerLists == {<<>>, <<3, 2>>, <<2, 2>>, <<3>>}
=============================================================================
