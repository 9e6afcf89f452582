----------------------------- MODULE StateDBSpec -----------------------------
(***************************************************************************)
(* What an OverlayStateDB promises to the EVM and to the requests that     *)
(* share it (the vm.StateDB contract and Clone), with no layers in it.     *)
(*                                                                         *)
(* A handle has a state: a value for every key, logs, receipts and the     *)
(* transaction logs are collected for.  A revision saves a whole state and *)
(* reverting restores exactly that.  Nothing done through a handle is seen *)
(* through the handle it was cloned from; what the original writes after   *)
(* the clone was made may seep into the clone, key by key, and nothing     *)
(* else may.  Only a re-fork changes the fork state.                       *)
(*                                                                         *)
(* The promise of exact reverts is made to callers that are not overtaken. *)
(* When a reset, or the revert of another caller, goes below revisions of  *)
(* Main that are still held, their holders are astray: what they revert    *)
(* may take Main to some earlier state and cut newer revisions off, and it *)
(* still touches no other handle and no fork state.                        *)
(***************************************************************************)
EXTENDS Integers, SequencesExt

CONSTANTS DBs, Main, Keys, FakeKeys, Values, TxHashes, ZeroHash, LogIds

VARIABLES
    fork,    \* the state of the chain at the forked block
    st,      \* open handle -> its state
    saved,   \* handle -> the states its revisions hold, oldest first
    origin,  \* handle -> the handles whose later writes may seep in
    astray   \* some caller of Main holds a revision that was overtaken

vars == <<fork, st, saved, origin, astray>>

NoLogs == [t \in TxHashes |-> <<>>]

\* A handle that has done nothing yet.
Pristine(view) == [view |-> view, logs |-> NoLogs, receipts |-> {}, tx |-> ZeroHash]

\* Handle d changes by itself; every other handle keeps its state unless it
\* was cloned from d, and then its states may change only as R allows.
Seeps(d, R(_, _)) ==
    \A e \in DOMAIN st \ {d} :
        IF d \in origin[e]
        THEN /\ R(st[e], st'[e])
             /\ DOMAIN saved'[e] = DOMAIN saved[e]
             /\ \A i \in DOMAIN saved[e] : R(saved[e][i], saved'[e][i])
        ELSE st'[e] = st[e] /\ saved'[e] = saved[e]

\* t is s with some keys replaced by their value in view.
Mixes(s, t, view) ==
    /\ t = [s EXCEPT !.view = t.view]
    /\ \A k \in Keys : t.view[k] \in {s.view[k], view[k]}

Init ==
    /\ fork \in [Keys -> Values]
    /\ st = [d \in {Main} |-> Pristine(fork)]
    /\ saved = [d \in DBs |-> <<>>]
    /\ origin = [d \in DBs |-> {}]
    /\ astray = FALSE

Frame ==
    /\ DOMAIN st' = DOMAIN st
    /\ \A e \in DBs \ DOMAIN st : saved'[e] = saved[e]
    /\ UNCHANGED <<fork, origin>>

Write(d, ks) ==
    /\ Frame
    /\ st'[d] = [st[d] EXCEPT !.view = st'[d].view]
    /\ \A k \in Keys \ ks : st'[d].view[k] = st[d].view[k]
    /\ saved'[d] = saved[d]
    /\ Seeps(d, LAMBDA s, t : Mixes(s, t, st'[d].view)
                              /\ \A k \in Keys \ ks : s.view[k] = t.view[k])

Snapshot(d) ==
    /\ saved' = [saved EXCEPT ![d] = Append(@, st[d])]
    /\ UNCHANGED <<fork, st, origin>>

Revert(d, i) ==
    /\ st' = [st EXCEPT ![d] = saved[d][i]]
    /\ saved' = [saved EXCEPT ![d] = SubSeq(@, 1, i - 1)]
    /\ UNCHANGED <<fork, origin>>

Forget(d) ==
    /\ saved[d] # <<>>
    /\ saved' = [saved EXCEPT ![d] = Front(@)]
    /\ UNCHANGED <<fork, st, origin>>

\* Squashing the revisions above the i-th keeps the values.
Merge(d, i) ==
    /\ Frame
    /\ st'[d].view = st[d].view
    /\ \A tx \in TxHashes : IsPrefix(st'[d].logs[tx], st[d].logs[tx])
    /\ st'[d].receipts \subseteq st[d].receipts
    /\ saved'[d] = SubSeq(saved[d], 1, i)
    /\ Seeps(d, LAMBDA s, t : Mixes(s, t, st[d].view))

Opens(e, state, from) ==
    /\ e \in DBs \ DOMAIN st
    /\ st' = [x \in DOMAIN st \cup {e} |-> IF x = e THEN state ELSE st[x]]
    /\ origin' = [origin EXCEPT ![e] = from]
    /\ UNCHANGED <<fork, saved>>

Clone(d, e) == Opens(e, st[d], origin[d] \cup {d})

CloneFromRoot(e) == Opens(e, Pristine(fork), {})

Drop(e) ==
    /\ e # Main
    /\ st' = [x \in DOMAIN st \ {e} |-> st[x]]
    /\ saved' = [saved EXCEPT ![e] = <<>>]
    /\ origin' = [x \in DBs |-> IF x = e THEN {} ELSE origin[x] \ {e}]
    /\ UNCHANGED fork

\* Main starts again from the fork state; no other handle notices.
ResetToFork ==
    /\ st' = [st EXCEPT ![Main] = Pristine(fork)]
    /\ saved' = [saved EXCEPT ![Main] = <<>>]
    /\ origin' = [x \in DBs |-> origin[x] \ {Main}]
    /\ UNCHANGED fork

\* A new fork state: clones in use may see it through keys nobody wrote.
Refork ==
    /\ fork' \in [Keys -> Values]
    /\ DOMAIN st' = DOMAIN st
    /\ st'[Main] = Pristine(fork')
    /\ saved'[Main] = <<>>
    /\ \A e \in DOMAIN st \ {Main} :
        /\ Mixes(st[e], st'[e], fork')
        /\ DOMAIN saved'[e] = DOMAIN saved[e]
        /\ \A i \in DOMAIN saved[e] : Mixes(saved[e][i], saved'[e][i], fork')
    /\ origin' = [x \in DBs |-> origin[x] \ {Main}]

StartLogCollection(d, tx) ==
    /\ st' = [st EXCEPT ![d].tx = tx]
    /\ UNCHANGED <<fork, saved, origin>>

AddLog(d, log) ==
    LET tx == st[d].tx IN
    /\ Frame
    /\ st'[d] = [st[d] EXCEPT !.logs[tx] = Append(@, log)]
    /\ saved'[d] = saved[d]
    /\ Seeps(d, LAMBDA s, t : \/ t = s
                              \/ \E i \in 1 .. Len(s.logs[tx]) + 1 :
                                    t = [s EXCEPT !.logs[tx] = InsertAt(@, i, log)])

AddReceipt(d, tx) ==
    /\ Frame
    /\ st'[d] = [st[d] EXCEPT !.receipts = @ \cup {tx}]
    /\ saved'[d] = saved[d]
    /\ Seeps(d, LAMBDA s, t : \/ t = s
                              \/ t = [s EXCEPT !.receipts = @ \cup {tx}])

\* Going back to the n-th revision of Main overtakes the later ones.
Overtakes(n) == astray' = (astray \/ n < Len(saved[Main]))

\* A caller that was overtaken reverts: it loses some of Main's logs,
\* receipts and revisions, and what Main's keys hold is anyone's guess.
Stray ==
    /\ astray /\ astray' \in BOOLEAN
    /\ st' = [st EXCEPT ![Main] = st'[Main]]
    /\ st'[Main].view \in [Keys -> Values] /\ st'[Main].tx \in TxHashes
    /\ \A tx \in TxHashes : IsPrefix(st'[Main].logs[tx], st[Main].logs[tx])
    /\ st'[Main].receipts \subseteq st[Main].receipts
    /\ \E j \in 0 .. Len(saved[Main]) :
            saved' = [saved EXCEPT ![Main] = SubSeq(@, 1, j)]
    /\ UNCHANGED <<fork, origin>>

\* One that was overtaken is over without reverting anything.
Ends ==
    /\ astray /\ astray' \in BOOLEAN
    /\ UNCHANGED <<fork, st, saved, origin>>

Steady ==
    \/ Write(Main, FakeKeys)
    \/ \E d \in DOMAIN st :
        \/ \E k \in Keys : Write(d, {k})
        \/ Snapshot(d)
        \/ \E i \in DOMAIN saved[d] : d # Main /\ (Revert(d, i) \/ Merge(d, i))
        \/ Forget(d)
        \/ \E e \in DBs : Clone(d, e) \/ CloneFromRoot(e)
        \/ Drop(d)
        \/ \E tx \in TxHashes : StartLogCollection(d, tx) \/ AddReceipt(d, tx)
        \/ \E log \in LogIds : AddLog(d, log)

Next ==
    \/ Overtakes(0) /\ (ResetToFork \/ Refork)
    \/ \E i \in DOMAIN saved[Main] : Overtakes(i) /\ (Revert(Main, i) \/ Merge(Main, i))
    \/ Stray
    \/ Ends
    \/ Steady /\ UNCHANGED astray

Spec == Init /\ [][Next]_vars
=============================================================================
