------------------------ MODULE OverlayStateDBContract ------------------------
(***************************************************************************)
(* The layers of OverlayStateDB implement the contract of StateDBSpec.     *)
(***************************************************************************)
EXTENDS OverlayStateDB

\* The state of a handle as its users see it.
StateOf(ch) ==
    [view |-> View(ch), logs |-> [tx \in TxHashes |-> GetLogs(ch, tx)],
     receipts |-> Receipts(ch), tx |-> txHash[Last(ch)]]

ForkState == View(<<Root>>)

HandleStates == [d \in Open |-> StateOf(chain[d])]

\* Reverting to an id would put the handle back on this prefix of its path.
SavedStates ==
    [d \in DBs |-> [i \in DOMAIN held[d] |-> StateOf(SubSeq(chain[d], 1, held[d][i]))]]

Contract == INSTANCE StateDBSpec WITH
    FakeKeys <- {<<"balance", a>> : a \in FakeAccounts},
    fork <- ForkState, st <- HandleStates, saved <- SavedStates,
    astray <- (lapsed # {})

\* The layers implement the contract: RevertToSnapshot restores exactly the
\* saved state, MergeTo keeps the view, clones are isolated one way, and
\* only InitState with a fetch changes the fork state.  A caller of Main that
\* was overtaken gets no exact revert, and what it reverts reaches no clone
\* and never the fork state.
ImplementsContract == Contract!Spec
=============================================================================
