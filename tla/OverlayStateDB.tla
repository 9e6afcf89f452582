--------------------------- MODULE OverlayStateDB ---------------------------
(***************************************************************************)
(* The layered state of a forked chain: mferstate/overlaystatedb.go over   *)
(* mferstate/overlaystate.go.                                              *)
(*                                                                         *)
(* An OverlayState is a layer: a scratch pad of written values, the logs   *)
(* and receipts of the transactions run in it, and a parent.  The layer    *)
(* without a parent is the root; its pad caches what the upstream node     *)
(* answered for the forked block.  An OverlayStateDB is a handle on a top  *)
(* layer.  Main is the handle the node keeps; every other handle is a      *)
(* clone made by one request.  Handles may share layers.                   *)
(*                                                                         *)
(* A handle is modelled by the path from the root to its top layer, so     *)
(* that deriveCnt of the layer at position n is n - 1.  Calls are atomic   *)
(* here; the concurrency inside get and resetScratchPad is RootCache's.    *)
(***************************************************************************)
EXTENDS Integers, FiniteSets, SequencesExt

CONSTANTS
    Layers,        \* layer identities; their number bounds the live layers
    Root,          \* the layer without a parent
    DBs,           \* handles
    Main,          \* the node's own handle, MferEVM.StateDB
    Accounts,      \* addresses
    FakeAccounts,  \* the accounts InitFakeAccounts funds
    FakeBalance,   \* what it adds to each
    Fields,        \* the per-account keys in play
    Slots,         \* storage slots in play
    MaxValue,      \* bound on the values written
    BlockNumbers,  \* the heights the node forks at
    UpstreamAt,    \* what the upstream node holds at each height
    MaxKeyCache,   \* the -maxkeys flag
    FetchOutcomes, \* how a prefetch may end
    TxHashes,      \* transaction hashes
    ZeroHash,      \* common.Hash{}
    LogIds,        \* contents of a log entry
    MaxLogs,       \* bound on the log entries of one transaction
    Absent         \* "no such key in the map"

AccountFields == {"balance", "nonce", "code", "codehash"}

AccountKeys == {<<f, a>> : f \in Fields, a \in Accounts}

StateKeys == {<<"state", a, s>> : a \in Accounts, s \in Slots}

Keys == AccountKeys \cup StateKeys

Owner(k) == k[2]

Values == 0 .. MaxValue

\* A view gives every key a value; a pad gives some keys a value.
Views == [Keys -> Values]

Pads == [Keys -> Values \cup {Absent}]

\* The ways resetScratchPad can end in log.Panic.
PanicOutcomes == {"openFail", "slotsFail"}

ASSUME LayersAssumption == Root \in Layers
ASSUME DBsAssumption == Main \in DBs
ASSUME AccountsAssumption ==
    FakeAccounts \subseteq Accounts /\ (FakeAccounts # {} => "balance" \in Fields)
ASSUME FieldsAssumption == Fields \subseteq AccountFields
ASSUME ValuesAssumption ==
    MaxValue \in Nat /\ FakeBalance \in Nat /\ MaxKeyCache \in Nat /\ MaxLogs \in Nat
ASSUME UpstreamAssumption == UpstreamAt \in [BlockNumbers -> Views]
ASSUME OutcomesAssumption ==
    FetchOutcomes \subseteq PanicOutcomes \cup {"ok", "accountsFail", "zeros"}
ASSUME TxAssumption == ZeroHash \in TxHashes
ASSUME AbsentAssumption == Absent \notin Values

VARIABLES
    bn,         \* *stateBN: the height the node is forked at
    pad,        \* layer -> scratchPad
    txLogs,     \* layer -> logs of each transaction
    receipts,   \* layer -> transactions it holds a receipt of
    txHash,     \* layer -> currentTxHash
    chain,      \* handle -> path from Root to its top layer; <<>>: unused
    held,       \* handle -> revision ids its callers hold, oldest first
    lapsed,     \* ids still held by callers of Main that another overtook
    accessed,   \* accessedAccounts of the root layer
    keyFile,    \* the storage keys in the key cache file
    floor,      \* history: deriveCnt of the layer the handle was made with
    origin,     \* history: handle -> the handles it was cloned from
    lastFetch   \* history: how the last prefetch ended

notes == <<txLogs, receipts, txHash>>

vars == <<bn, pad, notes, chain, held, lapsed, accessed, keyFile,
          floor, origin, lastFetch>>

EmptyPad == [k \in Keys |-> Absent]

NoLogs == [tx \in TxHashes |-> <<>>]

-----------------------------------------------------------------------------
(* Reading a path of layers. *)

Top(d) == Last(chain[d])

Open == {d \in DBs : chain[d] # <<>>}

LiveLayers(ch) == UNION {ToSet(ch[d]) : d \in DBs}

Upstream == UpstreamAt[bn]

\* Walking down from the top layer, position i is the first with the key.
StopsAt(ch, k, i) ==
    /\ pad[ch[i]][k] # Absent
    /\ \A j \in i + 1 .. Len(ch) : pad[ch[j]][k] = Absent

Hit(ch, k) == \E i \in 1 .. Len(ch) : StopsAt(ch, k, i)

\* get walks from the top layer to the root and asks upstream if no pad
\* has the key.
Get(ch, k) ==
    IF Hit(ch, k)
    THEN pad[ch[CHOOSE i \in 1 .. Len(ch) : StopsAt(ch, k, i)]][k]
    ELSE Upstream[k]

View(ch) == [k \in Keys |-> Get(ch, k)]

\* What get leaves in the root pad: a storage miss stores the slot, an
\* account miss stores every field of the account that is not there yet.
Fill(ch, k) ==
    IF Hit(ch, k) THEN pad
    ELSE [pad EXCEPT ![Root] =
            [q \in Keys |->
                IF \/ q = k
                   \/ /\ {q, k} \subseteq AccountKeys
                      /\ Owner(q) = Owner(k)
                      /\ pad[Root][q] = Absent
                THEN Upstream[q]
                ELSE pad[Root][q]]]

\* Faulty variant: a read does not record the account.
TouchedNothing(ch, k) == {}

\* An account miss also records the account for the next prefetch.
Touched(ch, k) ==
    IF ~Hit(ch, k) /\ k \in AccountKeys THEN {Owner(k)} ELSE {}

\* Faulty variant: each older layer is appended instead of prepended.
GetLogsNewestFirst(ch, tx) ==
    FlattenSeq([i \in 1 .. Len(ch) |-> txLogs[ch[Len(ch) + 1 - i]][tx]])

GetLogs(ch, tx) == FlattenSeq([i \in 1 .. Len(ch) |-> txLogs[ch[i]][tx]])

\* The walk of GetReceipt stops before the root.
Receipts(ch) == UNION {receipts[ch[i]] : i \in 2 .. Len(ch)}

-----------------------------------------------------------------------------
(* Making and dropping layers. *)

\* Layers nothing refers to any more are freed (the Go runtime does it).
Collect(f, ch, empty) ==
    [l \in Layers |-> IF l = Root \/ l \in LiveLayers(ch) THEN f[l] ELSE empty]

\* The layers reachable in ch keep their contents, their pads being p.
Keep(p, ch) ==
    /\ pad' = Collect(p, ch, EmptyPad)
    /\ txLogs' = Collect(txLogs, ch, NoLogs)
    /\ receipts' = Collect(receipts, ch, {})
    /\ txHash' = Collect(txHash, ch, ZeroHash)

\* A new layer starts empty and inherits the transaction its logs go to.
Derive(parent, l) ==
    /\ pad' = [pad EXCEPT ![l] = EmptyPad]
    /\ txLogs' = [txLogs EXCEPT ![l] = NoLogs]
    /\ receipts' = [receipts EXCEPT ![l] = {}]
    /\ txHash' = [txHash EXCEPT ![l] = txHash[parent]]

FreeLayers(ch) == Layers \ (LiveLayers(ch) \cup {Root})

-----------------------------------------------------------------------------
(* Writes.  All of them go to the top layer of the handle. *)

Put(p, d, k, v) == [p EXCEPT ![Top(d)][k] = v]

\* SetBalance, SetNonce, SetCode, SetCodeHash and SetState.
Set(d, k, v) ==
    /\ d \in Open
    /\ pad' = Put(pad, d, k, v)
    /\ UNCHANGED <<bn, notes, chain, held, lapsed, accessed,
                   keyFile, floor, origin, lastFetch>>

\* GetBalance, GetNonce, GetCode, GetCodeHash, GetState: a read can only
\* change the root's cache.
Read(d, k) ==
    /\ d \in Open
    /\ ~Hit(chain[d], k)
    /\ pad' = Fill(chain[d], k)
    /\ accessed' = accessed \cup Touched(chain[d], k)
    /\ UNCHANGED <<bn, notes, chain, held, lapsed, keyFile, floor, origin, lastFetch>>

Abs(n) == IF n < 0 THEN -n ELSE n

\* Faulty variant: the difference is stored with its sign.
AddBalanceSigned(d, a, delta) ==
    LET k    == <<"balance", a>>
        post == Get(chain[d], k) + delta
    IN  /\ d \in Open
        /\ k \in Keys
        /\ post <= MaxValue
        /\ pad' = Put(Fill(chain[d], k), d, k, post)
        /\ accessed' = accessed \cup Touched(chain[d], k)
        /\ UNCHANGED <<bn, notes, chain, held, lapsed, keyFile, floor, origin, lastFetch>>

\* AddBalance and, with a negative delta, SubBalance: read, then store
\* big.Int.Bytes(), which has no sign.
AddBalance(d, a, delta) ==
    LET k    == <<"balance", a>>
        post == Abs(Get(chain[d], k) + delta)
    IN  /\ d \in Open
        /\ k \in Keys
        /\ post \in Values
        /\ pad' = Put(Fill(chain[d], k), d, k, post)
        /\ accessed' = accessed \cup Touched(chain[d], k)
        /\ UNCHANGED <<bn, notes, chain, held, lapsed, keyFile, floor, origin, lastFetch>>

-----------------------------------------------------------------------------
(* Revisions. *)

\* Faulty variant: the id is read before the layer is derived.
SnapshotEarly(d, l) ==
    /\ d \in Open
    /\ l \in FreeLayers(chain)
    /\ Derive(Top(d), l)
    /\ chain' = [chain EXCEPT ![d] = Append(@, l)]
    /\ held' = [held EXCEPT ![d] = Append(@, Len(chain[d]) - 1)]
    /\ UNCHANGED <<bn, lapsed, accessed, keyFile, floor, origin, lastFetch>>

\* Snapshot derives a layer and returns its deriveCnt.
Snapshot(d, l) ==
    /\ d \in Open
    /\ l \in FreeLayers(chain)
    /\ Derive(Top(d), l)
    /\ chain' = [chain EXCEPT ![d] = Append(@, l)]
    /\ held' = [held EXCEPT ![d] = Append(@, Len(chain[d]))]
    /\ UNCHANGED <<bn, lapsed, accessed, keyFile, floor, origin, lastFetch>>

\* RevertToSnapshot looks among the proper ancestors of the top layer for
\* the one with deriveCnt + 1 equal to the revision id.
AncestorFor(ch, revisionID) ==
    CHOOSE n \in 1 .. Len(ch) - 1 : (n - 1) + 1 = revisionID

\* Main is shared by requests that take no lock: what one of them reverts,
\* or a reset, goes below layers that others still hold ids of.  Nothing
\* cancels those ids.  A clone has one caller, whose inner frames are over.
Overtaken(d, i) ==
    IF d = Main THEN lapsed \cup {held[d][j] : j \in i + 1 .. Len(held[d])}
    ELSE lapsed

RevertToSnapshot(d, i) ==
    /\ i \in DOMAIN held[d]
    /\ chain' = [chain EXCEPT ![d] = SubSeq(@, 1, AncestorFor(@, held[d][i]))]
    /\ held' = [held EXCEPT ![d] = SubSeq(@, 1, i - 1)]
    /\ lapsed' = Overtaken(d, i)
    /\ Keep(pad, chain')
    /\ UNCHANGED <<bn, accessed, keyFile, floor, origin, lastFetch>>

\* A caller of Main reverts to an id that was overtaken.  Layers made since
\* may carry that count; then Main goes back to one the caller never saw, and
\* the ids held above it lapse in turn.  Others may hold the same id.
RevertLapsed(id, j) ==
    /\ id \in lapsed \cap 1 .. Len(chain[Main]) - 1
    /\ j \in 0 .. Len(held[Main])
    /\ \A k \in DOMAIN held[Main] : k <= j <=> held[Main][k] < id
    /\ chain' = [chain EXCEPT ![Main] = SubSeq(@, 1, AncestorFor(@, id))]
    /\ held' = [held EXCEPT ![Main] = SubSeq(@, 1, j)]
    /\ lapsed' = Overtaken(Main, j)
    /\ Keep(pad, chain')
    /\ floor' = [floor EXCEPT ![Main] = IF id <= @ THEN id - 1 ELSE @]
    /\ UNCHANGED <<bn, accessed, keyFile, origin, lastFetch>>

\* No ancestor has the count: the walk goes past the root to a nil parent
\* and the request panics with the state as it was.
RevertRunsOff(id) ==
    /\ id \in lapsed \ 1 .. Len(chain[Main]) - 1
    /\ lapsed' = lapsed \ {id}
    /\ UNCHANGED <<bn, pad, notes, chain, held, accessed,
                   keyFile, floor, origin, lastFetch>>

\* Whoever held the id returns normally.
LapsedReturns(id) ==
    /\ id \in lapsed
    /\ lapsed' = lapsed \ {id}
    /\ UNCHANGED <<bn, pad, notes, chain, held, accessed,
                   keyFile, floor, origin, lastFetch>>

\* An EVM frame returns normally and forgets the id it held.
FrameReturns(d) ==
    /\ held[d] # <<>>
    /\ held' = [held EXCEPT ![d] = Front(@)]
    /\ UNCHANGED <<bn, pad, notes, chain, lapsed, accessed,
                   keyFile, floor, origin, lastFetch>>

\* Faulty variant: a key the lower pad already has is not overwritten.
PourMissing(ch, rev) ==
    LET lower(n, k) == {i \in n .. Len(ch) : pad[ch[i]][k] # Absent}
        poured(n) == [k \in Keys |->
            IF lower(n, k) = {} THEN Absent ELSE pad[ch[Min(lower(n, k))]][k]]
    IN  [l \in Layers |->
            IF \E n \in rev + 1 .. Len(ch) : ch[n] = l
            THEN poured(CHOOSE n \in 1 .. Len(ch) : ch[n] = l)
            ELSE pad[l]]

\* MergeTo pours every pad above the revision's layer into the pad below
\* it, one layer at a time, top first.  It moves neither logs nor receipts.
Pour(ch, rev) ==
    LET poured(n) == [k \in Keys |->
            IF \E i \in n .. Len(ch) : StopsAt(ch, k, i)
            THEN pad[ch[CHOOSE i \in n .. Len(ch) : StopsAt(ch, k, i)]][k]
            ELSE Absent]
    IN  [l \in Layers |->
            IF \E n \in rev + 1 .. Len(ch) : ch[n] = l
            THEN poured(CHOOSE n \in 1 .. Len(ch) : ch[n] = l)
            ELSE pad[l]]

MergeTo(d, i) ==
    /\ i \in DOMAIN held[d]
    /\ LET rev == held[d][i] IN
        /\ chain' = [chain EXCEPT ![d] = SubSeq(@, 1, rev + 1)]
        /\ Keep(Pour(chain[d], rev), chain')
    /\ held' = [held EXCEPT ![d] = SubSeq(@, 1, i)]
    /\ lapsed' = Overtaken(d, i)
    /\ UNCHANGED <<bn, accessed, keyFile, floor, origin, lastFetch>>

-----------------------------------------------------------------------------
(* Handles. *)

\* Faulty variant: the copy keeps the original's top layer (no Derive).
OpenShared(e, ch, l, from) ==
    /\ e \notin Open
    /\ l \in FreeLayers(chain)
    /\ chain' = [chain EXCEPT ![e] = ch]
    /\ floor' = [floor EXCEPT ![e] = Len(ch) - 1]
    /\ origin' = [origin EXCEPT ![e] = from]
    /\ UNCHANGED <<bn, pad, notes, held, lapsed, accessed, keyFile, lastFetch>>

OpenAs(e, ch, l, from) ==
    /\ e \notin Open
    /\ l \in FreeLayers(chain)
    /\ chain' = [chain EXCEPT ![e] = Append(ch, l)]
    /\ Derive(Last(ch), l)
    /\ floor' = [floor EXCEPT ![e] = Len(ch)]
    /\ origin' = [origin EXCEPT ![e] = from]
    /\ UNCHANGED <<bn, held, lapsed, accessed, keyFile, lastFetch>>

Clone(d, e, l) == d \in Open /\ OpenAs(e, chain[d], l, origin[d] \cup {d})

CloneFromRoot(d, e, l) == d \in Open /\ OpenAs(e, <<Root>>, l, {})

\* The request that made the clone is over and nothing refers to it.
Drop(e) ==
    /\ e \in Open \ {Main}
    /\ chain' = [chain EXCEPT ![e] = <<>>]
    /\ held' = [held EXCEPT ![e] = <<>>]
    /\ Keep(pad, chain')
    /\ floor' = [floor EXCEPT ![e] = 0]
    /\ origin' = [x \in DBs |-> IF x = e THEN {} ELSE origin[x] \ {e}]
    /\ UNCHANGED <<bn, lapsed, accessed, keyFile, lastFetch>>

-----------------------------------------------------------------------------
(* InitState: back to the root, perhaps prefetch, then derive a layer. *)

\* The path of Main after InitState; a panic skips the final Derive.
Restarted(l, outcome) ==
    [chain EXCEPT ![Main] = IF outcome \in PanicOutcomes THEN <<Root>> ELSE <<Root, l>>]

Rebase(l, p, outcome) ==
    /\ l \in FreeLayers([chain EXCEPT ![Main] = <<Root>>])
    /\ chain' = Restarted(l, outcome)
    /\ pad' = Collect([p EXCEPT ![l] = EmptyPad], chain', EmptyPad)
    /\ txLogs' = Collect([txLogs EXCEPT ![l] = NoLogs], chain', NoLogs)
    /\ receipts' = Collect([receipts EXCEPT ![l] = {}], chain', {})
    /\ txHash' = Collect([txHash EXCEPT ![l] = txHash[Root]], chain', ZeroHash)
    /\ held' = [held EXCEPT ![Main] = <<>>]
    /\ lapsed' = Overtaken(Main, 0)
    /\ floor' = [floor EXCEPT ![Main] = IF outcome \in PanicOutcomes THEN 0 ELSE 1]
    /\ origin' = [x \in DBs |-> origin[x] \ {Main}]

\* ResetToRoot: InitState(false, false).
InitStateKeep(l) ==
    /\ Rebase(l, pad, "ok")
    /\ UNCHANGED <<bn, accessed, keyFile, lastFetch>>

\* ClearKeyCache: InitState(true, true) empties the root's pad and the file.
InitStateClear(l, outcome) ==
    /\ outcome \in FetchOutcomes \cap {"ok", "openFail"}
    /\ IF outcome = "ok"
       THEN /\ Rebase(l, [pad EXCEPT ![Root] = EmptyPad], outcome)
            /\ accessed' = {}
            /\ keyFile' = {}
       ELSE /\ Rebase(l, pad, outcome)
            /\ UNCHANGED <<accessed, keyFile>>
    /\ lastFetch' = outcome
    /\ UNCHANGED bn

\* The lines of the key file that are read: its order is that of a Go map,
\* so any MaxKeyCache of them.
KeyLines ==
    {ks \in SUBSET keyFile :
        Cardinality(ks) = IF Cardinality(keyFile) > MaxKeyCache
                          THEN MaxKeyCache ELSE Cardinality(keyFile)}

\* The root pad after resetScratchPad(false) read the lines ks at height n.
\* A batch whose call succeeds may hold elements that failed; their Error is
\* never looked at, and the keys zs that asked keep their zero results.
Prefetched(n, ks, acc, outcome, zs) ==
    LET slotRefreshed(k) == /\ outcome \in {"ok", "zeros", "accountsFail"}
                            /\ k \in StateKeys
                            /\ k \in ks \/ pad[Root][k] # Absent
        accountRefreshed(k) == /\ outcome \in {"ok", "zeros"}
                               /\ k \in AccountKeys
                               /\ Owner(k) \in acc
    IN  [k \in Keys |->
            IF slotRefreshed(k) \/ accountRefreshed(k)
            THEN IF k \in zs THEN 0 ELSE UpstreamAt[n][k]
            ELSE IF outcome = "slotsFail" /\ k \in ks THEN 0
            ELSE pad[Root][k]]

\* Prepare and traceBlocks: SetBlockNumber(n), then InitState(true, false).
\* With nothing to ask for no batch is sent, and none can fail.
Refork(n, l, outcome, ks, zs) ==
    LET slots == {k \in StateKeys : k \in ks \/ pad[Root][k] # Absent}
        acc   == accessed \cup {Owner(k) : k \in slots}
    IN  /\ outcome \in FetchOutcomes
        /\ outcome = "slotsFail" => slots # {}
        /\ outcome = "accountsFail" => acc # {}
        /\ (outcome = "zeros") = (zs # {})
        /\ ks \in KeyLines
        /\ zs \subseteq slots \cup {k \in AccountKeys : Owner(k) \in acc}
        /\ bn' = n
        /\ Rebase(l, [pad EXCEPT ![Root] = Prefetched(n, ks, acc, outcome, zs)], outcome)
        /\ accessed' = IF outcome = "openFail" THEN accessed ELSE acc
        /\ keyFile' = IF outcome \in PanicOutcomes THEN keyFile ELSE slots
        /\ lastFetch' = outcome

\* InitFakeAccounts: AddBalance for each fake account.
InitFakeAccounts ==
    LET ks == {<<"balance", a>> : a \in FakeAccounts}
        missed == {k \in ks : ~Hit(chain[Main], k)}
        filled == [pad EXCEPT ![Root] =
            [q \in Keys |-> IF /\ q \in AccountKeys
                               /\ Owner(q) \in {Owner(k) : k \in missed}
                               /\ pad[Root][q] = Absent
                            THEN Upstream[q] ELSE pad[Root][q]]]
        post(k) == Get(chain[Main], k) + FakeBalance
    IN  /\ \A k \in ks : post(k) \in Values
        /\ pad' = [filled EXCEPT ![Top(Main)] =
                [q \in Keys |-> IF q \in ks THEN post(q) ELSE filled[Top(Main)][q]]]
        /\ accessed' = accessed \cup {Owner(k) : k \in missed}
        /\ UNCHANGED <<bn, notes, chain, held, lapsed, keyFile, floor, origin, lastFetch>>

-----------------------------------------------------------------------------
(* Logs and receipts. *)

StartLogCollection(d, tx) ==
    /\ d \in Open
    /\ txHash' = [txHash EXCEPT ![Top(d)] = tx]
    /\ UNCHANGED <<bn, pad, txLogs, receipts, chain, held, lapsed, accessed,
                   keyFile, floor, origin, lastFetch>>

AddLog(d, log) ==
    LET tx == txHash[Top(d)] IN
    /\ d \in Open
    /\ Len(GetLogs(chain[d], tx)) < MaxLogs
    /\ txLogs' = [txLogs EXCEPT ![Top(d)][tx] = Append(@, log)]
    /\ UNCHANGED <<bn, pad, receipts, txHash, chain, held, lapsed, accessed,
                   keyFile, floor, origin, lastFetch>>

AddReceipt(d, tx) ==
    /\ d \in Open
    /\ receipts' = [receipts EXCEPT ![Top(d)] = @ \cup {tx}]
    /\ UNCHANGED <<bn, pad, txLogs, txHash, chain, held, lapsed, accessed,
                   keyFile, floor, origin, lastFetch>>

-----------------------------------------------------------------------------

\* NewOverlayStateDB: a root and one layer over it.  The key file is what
\* an earlier run of the program left.
Init ==
    /\ bn \in BlockNumbers
    /\ pad = [l \in Layers |-> EmptyPad]
    /\ txLogs = [l \in Layers |-> NoLogs]
    /\ receipts = [l \in Layers |-> {}]
    /\ txHash = [l \in Layers |-> ZeroHash]
    /\ \E l \in Layers \ {Root} :
        chain = [d \in DBs |-> IF d = Main THEN <<Root, l>> ELSE <<>>]
    /\ held = [d \in DBs |-> <<>>]
    /\ lapsed = {}
    /\ accessed = {}
    /\ keyFile \in {ks \in SUBSET StateKeys : Cardinality(ks) <= MaxKeyCache}
    /\ floor = [d \in DBs |-> IF d = Main THEN 1 ELSE 0]
    /\ origin = [d \in DBs |-> {}]
    /\ lastFetch = "ok"

Access(d) ==
    \/ \E k \in Keys, v \in Values : Set(d, k, v)
    \/ \E k \in Keys : Read(d, k)
    \/ \E a \in Accounts, delta \in -MaxValue .. MaxValue : AddBalance(d, a, delta)

Revision(d) ==
    \/ \E l \in Layers : Snapshot(d, l)
    \/ \E i \in DOMAIN held[d] : RevertToSnapshot(d, i)
    \/ FrameReturns(d)
    \/ \E i \in DOMAIN held[d] : MergeTo(d, i)

Overlap ==
    \/ \E id \in lapsed, j \in 0 .. Len(held[Main]) : RevertLapsed(id, j)
    \/ \E id \in lapsed : RevertRunsOff(id) \/ LapsedReturns(id)

Handle(d) ==
    \/ \E e \in DBs, l \in Layers : Clone(d, e, l)
    \/ \E e \in DBs, l \in Layers : CloneFromRoot(d, e, l)
    \/ Drop(d)

InitState ==
    \/ \E l \in Layers : InitStateKeep(l)
    \/ \E l \in Layers, o \in FetchOutcomes : InitStateClear(l, o)
    \/ \E n \in BlockNumbers, l \in Layers, o \in FetchOutcomes, ks \in KeyLines :
        \E zs \in SUBSET Keys : Refork(n, l, o, ks, zs)
    \/ InitFakeAccounts

Record(d) ==
    \/ \E tx \in TxHashes \ {ZeroHash} : StartLogCollection(d, tx)
    \/ \E log \in LogIds : AddLog(d, log)
    \/ \E tx \in TxHashes \ {ZeroHash} : AddReceipt(d, tx)

Next ==
    \/ InitState
    \/ Overlap
    \/ \E d \in DBs : Access(d) \/ Revision(d) \/ Handle(d) \/ Record(d)

Spec == Init /\ [][Next]_vars

-----------------------------------------------------------------------------
(* Properties. *)

\* Every variable keeps its type: layer contents are maps from keys to
\* values, paths are sequences of layers, revision ids are integers.
TypeOK ==
    /\ bn \in BlockNumbers
    /\ pad \in [Layers -> Pads]
    /\ txLogs \in [Layers -> [TxHashes -> Seq(LogIds)]]
    /\ receipts \in [Layers -> SUBSET TxHashes]
    /\ txHash \in [Layers -> TxHashes]
    /\ chain \in [DBs -> Seq(Layers)]
    /\ held \in [DBs -> Seq(Nat)]
    /\ lapsed \in SUBSET Nat
    /\ accessed \in SUBSET Accounts
    /\ keyFile \in SUBSET StateKeys
    /\ floor \in [DBs -> Nat]
    /\ origin \in [DBs -> SUBSET DBs]
    /\ lastFetch \in FetchOutcomes \cup {"ok"}

\* The root pad never mixes heights: as long as the last prefetch ended
\* well, whatever get and resetScratchPad left there is what upstream holds
\* at the forked height.  A prefetch that missed its accounts, or some
\* elements of which went unanswered ("zeros"), may break this, and the
\* next one that succeeds repairs it.
RootCoherent ==
    lastFetch = "ok" =>
        \A k \in Keys : pad[Root][k] \in {Absent, Upstream[k]}

\* Every revision id a caller may still pass to RevertToSnapshot, and that no
\* other caller or reset overtook, names a proper ancestor of the top layer
\* above the layer the handle was made with: its walk ends before the root's
\* missing parent.  An overtaken id may run off the root (RevertRunsOff) or
\* find a stranger's layer (RevertLapsed), but never one so low that Main is
\* left on the root: no sequence of resets, reverts and merges, in whatever
\* order their callers overlap, takes Main's protecting layer away.
RevisionsValid ==
    /\ \A d \in DBs : \A i \in DOMAIN held[d] :
        /\ floor[d] < held[d][i] /\ held[d][i] < Len(chain[d])
        /\ \A j \in 1 .. i - 1 : held[d][j] < held[d][i]
    /\ \A id \in lapsed : floor[Main] < id

\* A handle's writes land in a layer that only handles cloned from it can
\* see: a request working on a Clone changes nothing for the node.
WritesIsolated ==
    \A d, e \in Open :
        d # e /\ Top(d) \in ToSet(chain[e]) => d \in origin[e]

\* Faulty variant: a lower layer overwrites what an upper one wrote.
MergedLowest(ch) ==
    LET over(m, l) == [k \in Keys |-> IF m[k] # Absent THEN m[k] ELSE pad[l][k]]
    IN  FoldLeft(over, EmptyPad, Tail(ch))

\* getMergedScratchPad: top layer first, a key already seen is skipped, the
\* root's pad is left out.  merged[n] is the map after n layers.
MergedScratchPad(ch) ==
    LET merged[n \in 0 .. Len(ch)] ==
          IF n = 0 THEN EmptyPad
          ELSE [k \in Keys |-> IF merged[n - 1][k] # Absent THEN merged[n - 1][k]
                               ELSE pad[ch[Len(ch) + 1 - n]][k]]
    IN  merged[Len(ch) - 1]

\* The overrides eth_call sends upstream (GetStateDiff, which leaves the
\* code hashes to upstream), put on top of the fork state, give back the
\* state the handle sees.
DiffIsView ==
    \A d \in Open : \A k \in {q \in Keys : q[1] # "codehash"} :
        LET diff == MergedScratchPad(chain[d])[k] IN
        Get(chain[d], k) = IF diff # Absent THEN diff ELSE Get(<<Root>>, k)

\* The comment at NewOverlayStateDB: the layer derived from the root is
\* there to "protect underlying state".  No setter of the StateDB changes
\* the root layer, which only mirrors upstream.
UnderlyingProtected ==
    [][\A d \in DBs, k \in Keys, v \in Values :
        Set(d, k, v) => pad'[Root] = pad[Root]]_vars
=============================================================================
