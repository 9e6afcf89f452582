# A TLA+ development of mfer-node

mfer-node forks an Ethereum chain: it answers web3 requests from a local state
laid over an upstream node at one block height, executes transactions on that
state, keeps them in a local pool and re-forks when upstream no longer has the
height. This directory models the parts of it that keep state, checks them with
TLC on small instances and proves with TLAPS what holds of them at any size.

Paths below are relative to the repository. `PROJECT.json` maps every
definition to the lines it models.

## 1. Inventory

### Parts and the state they keep

| part | state | operations |
|---|---|---|
| layered state, `mferstate/` | layers (`OverlayState`: scratch pad, logs, receipts, parent), handles (`OverlayStateDB`), the root's cache of upstream, `accessedAccounts`, the key cache file | get and set of balance, nonce, code, code hash, storage; `Snapshot`, `RevertToSnapshot`, `MergeTo`; `Clone`, `CloneFromRoot`; `InitState`; logs, receipts; state diff |
| request batching, `mferstate/overlaystate.go` | two bounded queues of reply channels, the `timeSlot` goroutine | `loadState`, `loadAccount`, `loadStateBatchRPC`, `loadAccountBatchRPC` |
| EVM wrapper, `mferevm/evm.go` | `*blockNumber`, `vmContext`, `stateLock`, gas pool, tracer | `Prepare`, `ResetToRoot`, `ExecuteTxs`, `ExecuteMsg`, `DoCall`, `WarmUpCache`, `updatePendingBN` |
| pool, `mfertxpool/` | transactions and results, two slices | `AddTx`, `SetResults`, `Reset`, `GetPoolTxs`, `RemoveTxByHash` |
| RPC handlers, `mferbackend/` | the options: impersonated account, random address, passthrough, chain id | eth, debug, probe and mfer name spaces |
| start, `cmd/mfer-node/` | `SelfClient` | creates the parts in order |
| signer, conversions, Safe and multisend | none that outlives a call | pure functions |
| tracers, `mfertracer/` | the operations or slots seen so far | EVM callbacks, `GetResult`, `Reset` |

### How they interact

Every RPC call runs in its own goroutine. Handlers that work on the node's own
handle should hold `stateLock`; several do not. Requests that only simulate
work on a clone, whose layers hang off the node's; they still share the node's
gas pool, the tracer field of `DoCall` and the numbers of the block context.
A Safe simulation asks upstream, the node itself and a clone, one after the
other. All reads end in the root
layer, shared by everyone: a miss goes through the queues to `timeSlot`, the
one goroutine that talks to upstream in batches. Re-forks refill the root's pad
under its mutex and talk to upstream themselves. `updatePendingBN` follows the
chain, writes the shared block context and, when the forked height is gone,
calls `mfer_reExecTxPool` on the node itself.

### What is hard

* interleavings: reads that straddle a re-fork, handlers without the lock, the
  updater against requests;
* failures in the middle: a prefetch that loses its accounts, a panic between
  leaving the old layer and deriving the new one, an error nobody looks at;
* long sequences: nested snapshots, reverts, merges and clones that share layers;
* waiting: bounded queues, one batching goroutine, endless retries;
* staleness: a header, an option or a value fetched before and used after a change;
* one request, several paths: arguments that are estimated, called locally,
  forwarded or sent, and should mean the same.

`PROJECT.json` lists each of these at its line under "hazards", with the
properties that cover it or why none does.

### What makes each part correct

* layered state: a revert restores exactly what was saved, clones are isolated,
  revision ids that nobody overtook stay valid, the root only mirrors upstream
  at one height;
* batching: everyone gets the answer to their own question, and gets it;
* handlers and pool: the pool explains the state, and the lock comes back;
* context and start: the node comes to serve and stays up, leaves a pruned
  height, and its context returns to the head with the next tick or head;
* simulations: a transaction is traced in the state it was executed in, a
  tracer shows its own request, no gas is made, and what is lost has a name;
* options and conversions: a hash keeps naming its author, all paths run the
  same message, as accounts that were impersonated meanwhile;
* Safe: what is simulated is the pool, what is returned can be executed.

## 2. Modules

### `OverlayStateDB`: layers, handles, the root cache

A handle (`chain[d]`) is the path of layers from the root to its top; the
position of a layer in a path is its `deriveCnt` plus one. `pad`, `txLogs`,
`receipts`, `txHash` are the fields of a layer, `bn` is `*stateBN`, `accessed`
and `keyFile` what survives a re-fork. `held` are the revision ids that EVM
frames still hold; the stack discipline of the EVM is external and appears as
`FrameReturns`. Nothing cancels the ids that requests without a lock hold of
`Main` when a reset or another request goes below them: those are in `lapsed`
(`Overtaken`), and a revert to one either finds a layer that happens to carry
its count (`RevertLapsed`) or runs off the root and panics (`RevertRunsOff`,
the step that is `RejectPanics` in `MferBackend`). Three history variables (`floor`, `origin`, `lastFetch`) are
read by properties only.

Each method is one action. `get` is `Get` for its result and `Fill`, `Touched`
for what it leaves in the root. `AddBalance` and `SubBalance` store the absolute
value of the sum, as `big.Int.Bytes` does. `InitState` has three forms, after
its flags: `InitStateKeep` (`ResetToRoot`), `InitStateClear` (`ClearKeyCache`)
and `Refork` (`Prepare`, `traceBlocks`), which includes the whole of
`resetScratchPad` with its ways out: "ok", "zeros" (some elements of the batch
have an error of their own, which nobody looks at, and zeros are stored),
"accountsFail" (logged, the rest skipped), "slotsFail" and "openFail" (panics,
which skip the final `Derive`).
Layers nobody can reach are emptied, which is garbage collection and only
keeps the state space small. Calls are atomic here; `RootCache` opens them up.

### `StateDBSpec` and `OverlayStateDBContract`: the contract

`StateDBSpec` says what a handle promises without layers: a state (values,
logs, receipts, current transaction), a stack of saved states, which handles
may see whose later writes. `Clone` shares the live top layer of its original,
so writes the original makes afterwards may seep into the clone; the contract
allows exactly that, and nothing in the other direction. Once a caller of
`Main` was overtaken (`astray`) its revert may put `Main` back to values it
never saved (`Stray`), but takes no log or receipt from anywhere else, adds
none, and leaves the other handles alone.
`OverlayStateDBContract` maps a handle to the state its path shows and a held
id to the state of the prefix it would go back to; `ImplementsContract` is the
abstract specification under that mapping.

### `RootCache`: the concurrency inside `get` and `resetScratchPad`

Readers go miss, push, offer, wait, store; `timeSlot` goes measure, select,
drain, load, (mark,) call, reply; a re-fork goes set height, lock, slots,
accounts. Every point where the code lets go of a mutex or waits is a step
boundary. A cached value is the pair of its key and the height it was fetched
at, so that a wrong or stale value is visible. `Zero` is a batch element whose
own error nobody looks at (its height is pruned), `Blank` the empty entry
written for a line of the key file. An account's fields are always stored
together and are one key. `crossed` and `late` record which reads were under way
at a reset. `-maxkeys` does not cut the key file here (`OverlayStateDB` does).

### `MferBackend`: handlers, lock, pool

The state is the sequence of transactions applied since the last reset, cut by
`marks` into layers so that `RevertToSnapshot` can be modelled: it cuts back
to the mark of the snapshot, or panics when that layer is gone. Every handler
is a sequence of steps between which others run, with the lock where the code
takes it. `Prepare` may succeed, return an error, panic for lack of a header or
panic in the prefetch. A rejected transaction goes to the pool with its result,
like an executed one. What `ApplyMessage` decides is external: a wrong nonce is
rejected, a right one may be (gas, balance). The history variable `parted` is
set by `Tracked` when a handler without the lock overlaps with another one, or
when a failed `Prepare` is followed by a re-execution on what was there, and is
cleared by the next re-execution that starts on the empty state.

### `BlockContext`: heights, contexts, the start

`bn` is the forked height, `number` and `time` the block transactions run in.
Three actors: `main` while it starts, the updater, requests. A header is fetched
in one step and used in another. `crashed` records a panic outside a request,
after which the process may be started again (`Restart`). A node is pinned or
not (`pinBlock`) from the start. `RunTxWithDifferentContext` adds one to the
time of a copy of the context; the copy shares its big.Ints, so the node's time
moves. The updater has a five-second ticker until a subscription works
(`polling`, `Subscribed`), and then only the heads that are announced; a head
whose header cannot be fetched is `missed`. `CheckMissing` is the check that
finds the height pruned, `CheckMisread` the one that an unfunded account
deceives. The panics of `Prepare` and of the prefetch are there for the first
fork, the updater's and a trace's. `Wrap` stands for 2^64 in `blocks[0].NumberU64() - 1`.

### `Simulation`: traces, probes, estimates, bundles

A transaction is its sender and nonce; a state the sequence executed on it over
a fork, whose height sets the nonces below. The requests that change the node
are one step each (`MferBackend` has their interleavings). A simulation is a
record in `sim[c]` that steps through its replay, its tracer and its traced
call. `ExecuteMsg` on a clone is two steps, buying gas and returning the rest,
because `a.gasPool` may be replaced in between, by a reset, a bundle or a traced
block: the rest goes to the pool it was bought from (`hold`). A message may be
rejected before `buyGas` (nonce, no gas left) or after it (intrinsic gas, value
not covered: `Underfunded`), and then its gas is gone (`forfeited`). `tracer` is the field of `MferEVM`; `DoCall` shows the
execution to whoever is in it. `StorageRangeAt` runs each transaction by
`DoCall` and again by `ExecuteTxs` on the same clone. `excused`, `overlapped`,
`short`, `covered`, `spent`, `refilled` are history.

### `TransactionArgs`: options, conversions, signer

The conversions are operators on records of the fields that matter: `ToMessage`,
`ToTransaction`, `ToCallArg`, `SignatureValues`, `TxToMessage`,
`NewRPCTransaction`, `RPCMarshalBlock`. Requests read the options in the steps
in which the code does (`Begin`, `PreprocessFrom`, `PreprocessData`, then the
rest), and setters run in between; a request remembers the accounts and the
modes there were since it arrived (`who`, `modes`). Calldata is the sequence of addresses it
mentions, a hash is the signed transaction. Execution is one step.

### `SafeSimulation`: `mfer_simulateSafeExec`

One request with a step for every call it makes, against a chain that moves
(`SafeExecutes`, `OwnerSends`), re-forks, transactions that change the Safe's
owners, clearings, and switches of the impersonated account. Packing and
signatures are sequences of words and records; the two contracts are external
and written from what the code expects of them (`MultiSend` reads the packed
records back, `CheckSignatures` wants ascending owners that approved the hash).
How the execution ends is a choice where it depends on more than the request
made: a call of the pool may revert, which reverts the Safe's transaction, the
5e6 gas may run out, a slot may be misread (`MayEnd`); `DoCall` may even reject
it, and the nil result panics (`Fails`).

The `MC*` modules only add what a configuration cannot express: symmetry sets
and the upstream contents.

## 3. Runs

Definitions called "Faulty variant" in the modules are plausible bugs. No
specification uses them; each one put in the place of the definition after it
makes TLC report the property it is listed with in `PROJECT.json`.

| run | checks | distinct states |
|---|---|---|
| `overlay_fork` | `TypeOK`, `RootCoherent`, `DiffIsView` | 172 thousand |
| `overlay_revisions` | `RevisionsValid`, `WritesIsolated`, `ImplementsContract` | 83 thousand |
| `overlay_records` | `ImplementsContract` for logs and receipts | 54 thousand |
| `rootcache_refork` | `AnswersMatch`, `OnlyLateIsStale`, `ReforkRefreshesAll` | 4.7 million |
| `rootcache_live` | `TypeOK`, `EveryReadReturns`, `EveryResetReturns` | 69 thousand |
| `backend` | `TypeOK`, `PoolExplainsState`, `EveryRequestReturns` | 333 thousand |
| `context_follow` | `TypeOK`, `ReforksWhenMissing`, `ContextCatchesUp`, `StartEnds`, `ServingSurvives` | 153 thousand |
| `simulation` | `TypeOK`, `GasAddsUp`, `TracedInItsPast`, `OwnTrace` | 2.8 million |
| `args` | `TypeOK`, `HashNamesAuthor`, `ViewsAgree`, `OneIdentity` | 1.8 million |
| `safe` | `TypeOK`, `SuccessRanThePool`, `ReturnedIsExecutable`, `RefusedForAReason` | 6.5 million |

What the passing runs show:

* **The root pad never mixes heights** after a prefetch that succeeded, although
  failed ones in between leave a mixture behind (`RootCoherent`). This rests on
  `accessedAccounts` covering every cached account.
* **The state diff is the view**: the overrides `eth_call` sends upstream
  reproduce what the handle sees (`DiffIsView`).
* **Layers implement the contract**, and revision ids stay valid over any
  nesting of snapshots, reverts, merges and clones. An id that a reset or
  another request overtook does not: its revert may panic or go to a layer of
  somebody else, but `Main` keeps the layer that protects the root
  (`RevisionsValid`).
* **A re-fork is a fork**: with re-forks only (no `ClearKeyCache`), one that fetched everything leaves
  nothing of an older height, even when a late read stored something
  (`ReforkRefreshesAll`). Between re-forks stale values are possible, and
  `OnlyLateIsStale` says whose: only reads older than the reset.
* **Batches keep questions and answers together** (`AnswersMatch`).
* **The pool explains the state** (`PoolExplainsState`) with all handlers and all
  failures in play. It is lost in two ways only, overlaps of handlers that take
  no lock and a re-execution after `Prepare` failed, and a re-execution that
  goes well restores it.
* **Everybody comes back**: reads, re-forks, requests.
* **A start ends**: however often it dials again, the node comes to serve or the
  process dies, and once it serves the updater cannot take it down.
* **A node that follows the chain leaves a pruned height**. If it polls, its
  context returns to the head, whatever calls, traces and probes did to it; with
  a subscription it does after each announced head that is not missed, and
  while the head rests it stays where the last request left it.
* **A trace shows the past**: a transaction of the node's state is traced in the
  state it was executed in, if the node was not reset meanwhile, the gas
  sufficed and the pool holds nothing older than the last reset.
* **A tracer shows its own request**, each execution once, if no other request
  uses a tracer meanwhile. Although `StorageRangeAt` runs everything twice, the
  nonce check keeps the second run out.
* **Gas adds up** while bundles, traces and resets replace the pool under running
  messages: it is lost only with messages rejected after they bought it.
* **Hashes keep their author** and their place in the pending block. The one
  exception is a raw transaction signed for an overridden chain id, which runs
  as the zero account.
* **The paths agree**: estimate, local call and transaction run the same
  message for the same arguments. Without a sender the first two run as the
  zero account and the third as the impersonated one.
* **A Safe simulation that succeeds ran the pool**, what it returns the Safe would
  accept, and the Safe refuses its signatures only for owners that do not
  suffice, nonces of another height, missing gas, a misread slot, a re-fork or a
  switch in the middle. Whether the calls of the pool then revert or need more
  than the 5e6 gas is up to them.
* **A call runs as accounts that were impersonated** while it was under way: one
  as its sender, one throughout its `data`, or the random address in both
  places. They differ only if the impersonation changed in between. Calldata
  given as `input` runs as it is.

### Disagreements

Two runs are expected to end in a violation: the code does something that a
comment does not say. "findings" in `PROJECT.json` quotes the line each one
contradicts.

| run | what happens |
|---|---|
| `overlay_protect` | a storage prefetch that fails panics with the node's handle on the root; the next write changes the cache |
| `args_input` | calldata given as `input` is not forwarded by a passthrough call |

The models hold more behaviour of this kind, which has no run of its own; most
is listed under "hazards":

* a `ClearKeyCache` during an account read drops the account's mark, and re-forks
  no longer refresh it (`Clear` of `RootCache`; `rootcache_refork` has no
  clearings);
* the context changes under a traced block; a trace moves the height of a pinned
  node, `eth_call` with a number its context;
* the start may crash: a missing-state check after ten seconds uses `SelfClient`
  before it is set, and a new head before the first `Prepare` meets a context
  without numbers;
* `-maxkeys` bounds what is read of the key file, not what is written;
* a receipt names whoever is impersonated when it is asked for;
* `StorageRangeAt` replays the whole pool, whatever transaction is asked for;
* two requests that use a tracer at the same time see each other's executions;
* when the impersonated account is switched during a Safe simulation, its calls
  go to an account without code and succeed without doing anything;
* calldata given as `input` is not rewritten by `preprocessArgs`: a local call
  runs it with the random address in it, as the impersonated sender;
* a request without the lock that is rejected after a reset reverts to an id
  that is gone, and walks off the root;
* a message rejected after `buyGas` keeps the gas it took from the node's pool.

### Bounds

* `overlay_fork`: one account with two fields and one slot, two heights with
  different values for every key, a clone, two layers beside the root;
  prefetches that end well, lose the accounts or have unanswered elements. Field
  filling, a slot without its account, a read before and after a failed
  prefetch, and an account in neither list all occur. While an id is overtaken
  one layer stays free here too (`RoomWhileLapsed`).
* `overlay_revisions`: four layers beside the root allow three nested revisions
  and a clone with one of its own; merges over two layers and reverts past a
  merge occur. One slot is enough, since keys do not interact in these actions.
  While an id is overtaken one layer stays free (`RoomWhileLapsed`); the case
  of all four in use then rests on the proofs.
* `overlay_records`: two log contents and two entries tell orders apart.
* `rootcache_refork`: two heights tell stale from fresh, two re-forks overlap,
  and chunks of one cut the batch of two readers in two. `MaxTries`, 5 in
  the code, is 0: an account call that fails ends its attempt at once, and a
  reader's batch is retried by `timeSlot` all the same.
* `rootcache_live`: queues of one entry fill up with two readers, and a clearing
  or a re-fork holds the mutex. `MaxTries` is 1, so that a failed account call
  is repeated once and then given up. One height, as heights do not decide who waits.
  One chunk per batch: a failed chunk sends the batch back to its first one, so
  a batch of several ends only if one attempt gets through all of them, which
  is more than an upstream that answers each call at last.
* `backend`: two clients, since every disagreement is between two handlers, one
  of which may hold the lock while the other waits or does without; two
  transactions of one sender, so that nonces and order matter and one may be
  executed before and one during or after a reset.
* `context_follow`: heights so that one can be pruned, traced and left; both
  deltas 0 and 1 (heads 1 to 3); pinned and unpinned nodes, of which the liveness properties
  speak of the second. `MaxTime` bounds what probes add; the time delta is 0,
  as the number delta moves the context in the same way.
* `simulation`: a block of three gas units, of which a transaction needs two and
  uses one, so that the pool runs dry with two messages under way and not with
  one; two transactions, the second of which on height 0 cannot pay its value, two heights,
  one client that replays and one that estimates or bundles. A trace forks at
  height 1 only (`TraceForks`); one that goes back to height 0 is covered by
  the proofs. A bundle or a traced block has one message.
* `args`: two accounts tell the impersonated one from another; one request in
  flight, since requests meet only in the options and the pool, which setters
  and other transactions change around it; two transactions, equal or not.
* `safe`: owners 3 and 2, listed in descending order, a transaction that adds
  owner 1 and raises the threshold to three, a call whose data looks like a
  packed record, a creation; nonces move once. Lists passed by the caller
  include one in the wrong order, a repeated owner and too few.

Symmetry is used in safety runs only.

### Fairness, and why the code justifies it

* A goroutine that can continue does (weak fairness on its steps): the Go
  scheduler is preemptive.
* A goroutine waiting for a mutex or a channel gets it (strong fairness on
  taking it): `sync.RWMutex` hands over to waiting writers and Go channels
  serve senders in order.
* `select` among ready tickers and announced heads picks at random (strong
  fairness on `Tick`, `TakeHead`, `CheckMissing`). `Tick` is enabled only while
  the ticker runs: `updatePendingBN` stops it when the subscription works.
* Upstream, asked again and again, answers at last (strong fairness on
  `CallReturns`, `FirstFork`, `Tick`, `ReExecFetch`). The code retries
  without end, so without this nothing could be promised. Nothing is assumed of
  the calls that fail in between.
* New requests, new heads, their announcement and the arrival of their headers,
  checks that misread a balance (`CheckMisread`) and pruning have no fairness.

## 4. Proofs

Every component has a module of proofs beside it. TLC checks a small instance;
the theorems hold for every value of the constants, the number of clients,
readers, transactions, layers and heights included. The named assumptions on
the constants, evaluated by TLC in the runs, are used throughout; the column
"beside" names what a theorem assumes beyond them.

| module | theorem | statement | beside |
|---|---|---|---|
| `OverlayStateDBProofs` | `TypeCorrect` | `Spec => []TypeOK` | |
| | `RevisionsSafe` | `Spec => []RevisionsValid` | `NoPanic` |
| | `RootCoherence` | `Spec => []RootCoherent` | `NoPanic` |
| | `Isolation` | `Spec => []WritesIsolated` | `NoPanic` |
| | `DiffFaithful` | `Spec => []DiffIsView` | |
| | `Refinement` | `Spec => ImplementsContract` | `NoPanic` |
| `RootCacheProofs` | `TypeCorrect` | `Spec => []TypeOK` | |
| | `OwnAnswers` | `Spec => []AnswersMatch` | |
| | `StaleOnlyLate` | `Spec => []OnlyLateIsStale` | |
| | `ReforkComplete` | `Spec => ReforkRefreshesAll` | no clearings |
| `MferBackendProofs` | `TypeCorrect` | `Spec => []TypeOK` | |
| | `LockDiscipline` | `Spec => []LockHeld` | |
| | `PoolCorrect` | `Spec => []PoolExplainsState` | |
| `BlockContextProofs` | `TypeCorrect` | `Spec => []TypeOK` | |
| | `FetchedOnChain` | `Spec => [](HeadersOnChain /\ ForkedHasState)` | |
| | `Survival` | `Spec => ServingSurvives` | |
| `SimulationProofs` | `TypeCorrect` | `Spec => []TypeOK` | |
| | `GasConserved` | `Spec => []GasAddsUp` | |
| | `OwnExecutions` | `Spec => []OwnTrace` | |
| | `TraceFaithful` | `Spec => []TracedInItsPast` | |
| `TransactionArgsProofs` | `TypeCorrect` | `Spec => []TypeOK` | |
| | `HashesNameAuthors` | `Spec => []HashNamesAuthor` | |
| | `AllViewsAgree` | `Spec => []ViewsAgree` | |
| | `SingleIdentity` | `Spec => []OneIdentity` | |
| `SafeSimulationProofs` | `TypeCorrect` | `Spec => []TypeOK` | |
| | `PoolSimulated` | `Spec => []SuccessRanThePool` | |
| | `Executable` | `Spec => []ReturnedIsExecutable` | |
| | `RefusalHasAReason` | `Spec => []RefusedForAReason` | |

`NoPanic` says that no prefetch ends in a panic ("slotsFail", "openFail"); the
run `overlay_protect` shows that without it the root is exposed, and the four
statements fail: `Main` then has no layer of its own and writes to the layer everyone shares. "No clearings" is `"clear" \notin ResetKinds`, the setting of
the run `rootcache_refork`: a `ClearKeyCache` in the wrong moment does make a
re-fork miss an account (section 3), so `ReforkRefreshesAll` is false with it.
`OnlyLateIsStale` is proved with clearings.

### The arguments

**`OverlayStateDB`.**
`HandlesInv` is the inductive strengthening of `RevisionsValid`. An id is only
good if the path above the handle's first layer is intact, so the invariant
says of each handle (`HandleOK`) that its path starts at the root, never
returns to it, is longer than its floor, and that its ids increase strictly
between the floor and the length of the path. Snapshots append, reverts and
merges cut (`CutOK`), everything else leaves paths alone. Overtaken ids lie
above the protecting layer (`LapsedHigh`), because they were held above it when
they were overtaken and no reset changes where it is.
`TypeOK` is not inductive by itself: a revert's target and a top layer exist
only because of `HandlesInv`. `ContentsOK` is its half about contents.
`RootInv` strengthens `RootCoherent` with two facts: every open handle has a
layer of its own over the root (`RootCovered`), so no write reaches the root;
and every account with a cached field is in `accessed` (`AccessedCovers`), so
a prefetch that succeeds refreshes all of them, whatever failed before.
`OwnershipOK` strengthens `WritesIsolated` from the top layer to every layer a
handle made: a revert or a merge may make any of them the top.
`DiffIsView` needs an induction over the layers: after n of them the merged map
has for a key the value of the topmost that has one (`MergeLoop`), which is
where a read from the top stops.
`Refinement` rests on `LayersInv`, which adds to `OwnershipOK` that no layer is
twice on a path or the own layer of two handles (`Apart`) and that nothing is
logged in the root (`RootBlank`). `Now(c)` and `Then(c)` are what a path `c`
shows before and after a step. Two relations say how a step changes the layers
of a path: `Kept`, its notes stay; `Mixing`, each value stays or becomes the
one of a given view, the form in which a write below a clone seeps into it.
From these follow the states of a handle and of all its revisions (`MixHandle`,
`SameHandle`), and then one lemma per operation shows its namesake in
`StateDBSpec` (`MergeIs`, `RevertIs`, `AddLogIs`, ...). A read is a stutter:
filling the root's cache shows through no path. A revert to an overtaken id is
`Stray`: it cuts `Main`'s path, so its notes are cut to a prefix and the
revisions to those below. The logs need an induction of
their own: `FlattenSeq` of the layers' lists grows by an insertion where the
layer lies (`FlatInsert`) and is cut to a prefix by a merge (`FlatMore`).

**`RootCache`.** `Matching` follows a question through the queues: a reader is
queued or in the batch exactly while it waits (`Wanting`, `Queued`, `Batched`),
the batch has as many values as requests from the moment it is sent (`Staged`),
and what has been answered answers the request at the same index (`Served`).
`Freshness` adds heights: whoever was not crossed by a reset has an answer of
the forked height (`Timely`), every cached account is marked or its mark is
about to be made (`Recorded`), and a re-fork that runs alone has refetched
every slot before it turns to the accounts (`Refetched`). `ReforkComplete` is
an action property that follows from `Freshness` at the re-fork's last step.

**`MferBackend`.** `Shape` holds whatever overlaps: types, layer marks in order,
the lock held by exactly the handler whose program counter says so (`LockHeld`),
and what each handler has in hand at each step (`Local`). `Explained` says that,
unless handlers have overlapped (`parted`), at most one is at work, and states
for each of its steps what is true half way (`Progress`): after `commit` the
state explains the pool plus the transaction that `AddTx` will append; during a
re-execution, the part of the pool done so far. `PoolExplainsState` is the case
in which nobody is at work.

**`BlockContext`.** A header that the updater or a trace holds between its fetch
and its use is one the chain has (`HeadersOnChain`), and from the first fork on
there is a `StateDB` (`ForkedHasState`). With these two, every panic outside a
request needs a state that a serving node is never in.

**`Simulation`.** `Orderly` ties the tracer field to a request that may still read
it. `GasInv` counts: what is left, what the messages under way hold of the
present pool, what was used and what rejected messages took add up to the limit;
a message that bought from a
replaced pool counts for nothing. `TraceInv` says for each request what its
tracer has shown so far, and for `StorageRangeAt` why its second execution is
always refused: the account's nonce is already ahead (`Ahead`). `PastInv` names
the intermediate states of the node's execution as a function of the position in
the pool (`Replay`) and says that a tracing request has reached one of them
(`Halfway`).

**`TransactionArgs`.** `Tidy` says that pool and requests hold well-formed
records, that a signed transaction was made by `SignatureValues` for a known
account, that every hash in the pool leads back to it, and that what became of
a request's arguments so far (`Prepared`) is due to options there were since it
arrived. The three properties then follow by computing with the conversions.

**`SafeSimulation`.** The heart is `RoundTrip`: what `BuildTransactions` packs,
the multisend contract unpacks to the same list, for every list of calls. It
rests on where each record begins (`Layout`) and what the contract's loop has
read at that place (`MultiSendLoop`). `SortedIs` shows that a sequence has an
ascending rearrangement, so the owners that sign are in the order the Safe
demands. `SafeInv` adds what a request may rely on between its calls: unless it
was switched, re-forked or became stale, the Safe it talks to is the one it
began with and the owners it has passed have approved (`Current`).

### Induction

No installed prover instantiates the library's induction theorems, which take a
predicate. `InductionLemmas` states induction over a *set* of naturals instead
(`SetInduction`, from the well-foundedness of `<`): a lemma about a loop applies
it to the set of the iterations for which the claim holds. In this way what the
model computes by recursive functions (`ExecuteTxs`, `Execute`,
`BuildTransactions`, `MultiSend`) is proved for lists of any length.

### Only model-checked

* every liveness property (`EveryReadReturns`, `EveryResetReturns`,
  `EveryRequestReturns`, `ReforksWhenMissing`, `ContextCatchesUp`, `StartEnds`):
  fairness and `ENABLED` are outside the prover.

Every other property of a passing run is proved.

## 5. What is not modelled

* go-ethereum: the EVM, the RPC transport, signing. They appear as choices.
* The refund counter and `Suicide`, whose only user is go-ethereum's EVM; trace
  logs in receipts, tracer timeouts, and the workers of the parallel warm-up,
  which only read, on clones.
* Unsynchronised access to Go maps and slices is modelled only at the grain of
  the steps above; `AddTx` is one step. A receipt's pointer to the context's
  block number is not followed.
* Further updater goroutines started by repeated dials; a batch size of 0.
* Requests that forward to upstream or return a constant (`GetLogs`, blocks of
  upstream, `FeeHistory`, `GasPrice`, `Preimage`, `Version`), flags, logging and
  memory statistics.
* What an execution does inside: a tracer sees one entry per execution.
* `multisend/gen_*.go` is generated; of its hundred bindings four are called.
* `loadAccountViaGetProof`, `loadStateRPC`, `statistics`, `RemoveTxByHash`,
  `GenerateSafeExecTx`, `GenSafeCalldataWithoutSignature`, `CommitApproveHash`
  and `GetSafe` have no callers. Neither has `MergeTo`, which is modelled all the
  same: it is part of what a handle offers.

## 6. Plan

Modelling followed the order in which state flows: layered state and its
contract, root cache, handlers and pool, context, then simulations,
conversions and the Safe, which use the others. The safety properties of all
of them, and the refinement of the layered state, are proved. What would be
added next is a contract for `MferBackend` in the manner of `StateDBSpec`: the
node as a pool of transactions and a state, without handlers that overlap.
