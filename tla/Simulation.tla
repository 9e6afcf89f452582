------------------------------ MODULE Simulation ------------------------------
(***************************************************************************)
(* The requests that simulate: debug_traceTransaction,                     *)
(* debug_storageRangeAt, probe_runTxWithDifferentContext, eth_estimateGas  *)
(* and mfer_traceTransactionBundle, next to the requests that change the   *)
(* node (one step each; MferBackend has their interleavings).              *)
(*                                                                         *)
(* A simulation works on a clone of the state.  It still shares with the   *)
(* node and with other simulations the values cached below the clone (a    *)
(* re-fork changes them in place), the tracer field that DoCall reads, and *)
(* the block's gas pool, which ExecuteMsg uses for clones too.             *)
(*                                                                         *)
(* A transaction is <<sender, nonce>>, and so is its hash; its execution   *)
(* needs TxGas of the pool and gives back all but UsedGas; one that is     *)
(* rejected after it bought its gas gives nothing back.  A state is the    *)
(* sequence of the transactions executed on it.                            *)
(***************************************************************************)
EXTENDS Naturals, Sequences, SequencesExt, FiniteSets, FiniteSetsExt

CONSTANTS
    Accounts,  \* senders
    Clients,   \* goroutines serving simulations,
    Replayers, \* ... those of them that serve the ones that replay the pool
    GasLimit,  \* gas of a block
    TxGas,     \* gas limit of a transaction
    UsedGas,   \* gas it uses
    MaxTxs,    \* bound on the pool's length
    MaxFork,   \* bound on the height forked
    TraceForks, \* the heights traceBlocks forks at
    Nil,
    Underfunded(_, _, _) \* fork, state, transaction: its gas is below the
                         \*     intrinsic gas or its value above its balance

ASSUME GasAssumption ==
    /\ GasLimit \in Nat /\ TxGas \in Nat /\ UsedGas \in 1 .. TxGas
    /\ MaxTxs \in Nat /\ MaxFork \in Nat /\ Nil \notin Clients
    /\ TraceForks \subseteq 0 .. MaxFork
    /\ Replayers \subseteq Clients /\ IsFiniteSet(Clients)

VARIABLES
    fork,      \* the height forked: an account's nonce upstream grows with it
    applied,   \* the node's state
    txs,       \* pool.txs
    gas,       \* what is left in the present gas pool
    tracer,    \* a.tracer: the client that reads it, Nil if none does any more
    sim,       \* client -> its request, or Nil
    result,    \* what the last step answered, or Nil
    spent,     \* history: executions on the present gas pool,
    forfeited, \* ... messages rejected with the gas they bought from it,
    refilled,  \* ... whether it was made by a bundle,
    short,     \* ... whether the node refused a transaction for its gas,
    covered    \* ... whether the pool has all since the last reset only

nodeVars == <<fork, applied, txs>>
gasVars == <<gas, spent, forfeited, refilled>>
history == <<short, covered>>
vars == <<nodeVars, gasVars, tracer, sim, result, history>>

\* GetNonce on a state over fork f: a layer's value, or the root's.
GetNonce(f, state, from) ==
    LET own == {i \in DOMAIN state : state[i][1] = from}
    IN  IF own = {} THEN f ELSE state[Max(own)][2] + 1

NonceOK(f, state, tx) == tx[2] = GetNonce(f, state, tx[1])

\* The nonce is checked, the gas bought, then come the checks that can still
\* reject the message (ErrIntrinsicGas, ErrInsufficientFundsForTransfer).
Applies(f, state, tx) == NonceOK(f, state, tx) /\ ~Underfunded(f, state, tx)

Forfeits(f, state, tx) == NonceOK(f, state, tx) /\ Underfunded(f, state, tx)

\* ExecuteMsg for one transaction on run = [fork, state, gas, forfeited,
\* short].  A rejection reverts the state, not the gas pool.
ExecuteMsg(run, tx) ==
    IF Applies(run.fork, run.state, tx)
    THEN IF run.gas < TxGas THEN [run EXCEPT !.short = TRUE]
         ELSE [run EXCEPT !.state = Append(@, tx), !.gas = @ - UsedGas]
    ELSE IF Forfeits(run.fork, run.state, tx) /\ run.gas >= TxGas
         THEN [run EXCEPT !.gas = @ - TxGas, !.forfeited = @ + 1]
         ELSE run

ExecuteTxs(list, run) ==
    LET ran[n \in 0 .. Len(list)] == IF n = 0 THEN run ELSE ExecuteMsg(ran[n - 1], list[n])
    IN  ran[Len(list)]

-----------------------------------------------------------------------------
(* The node. *)

\* The requests that answer what they replayed.
Replays == {"trace", "range"}

\* a.gasPool is replaced: a message between SubGas and AddGas returns its
\* rest to the pool it bought from.  A reset moves what lies below every
\* clone, or forgets the transactions it replays.
Detached(resets) ==
    [c \in Clients |-> IF sim[c] = Nil THEN Nil
                       ELSE [sim[c] EXCEPT !.hold = IF @ = "present" THEN "old" ELSE @,
                                           !.excused = @ \/ (resets /\ sim[c].kind \in Replays)]]

\* SendTransaction or SendRawTransaction.
Send(tx) ==
    LET run == ExecuteMsg([fork |-> fork, state |-> applied, gas |-> gas,
                           forfeited |-> forfeited, short |-> short], tx)
    IN  /\ Len(txs) < MaxTxs
        /\ txs' = Append(txs, tx)
        /\ applied' = run.state /\ gas' = run.gas /\ short' = run.short
        /\ spent' = spent + Len(run.state) - Len(applied)
        /\ forfeited' = run.forfeited
        /\ UNCHANGED <<fork, refilled, tracer, sim, covered>>

\* InitState, a new gas pool, and the execution of list.
ResetAnd(list, f) ==
    LET run == ExecuteTxs(list, [fork |-> f, state |-> <<>>, gas |-> GasLimit,
                                 forfeited |-> 0, short |-> FALSE])
    IN  /\ fork' = f
        /\ applied' = run.state /\ gas' = run.gas /\ short' = run.short
        /\ spent' = Len(run.state)
        /\ forfeited' = run.forfeited
        /\ refilled' = FALSE
        /\ UNCHANGED tracer

\* The heights a re-fork may find.
Later == fork .. MaxFork

ResetState(f) ==
    /\ ResetAnd(<<>>, f)
    /\ sim' = Detached(TRUE)
    /\ covered' = (txs = <<>>)
    /\ UNCHANGED txs

\* traceBlocks re-forks at the parent of its first block, which may be an
\* earlier one; the messages of its blocks run on a clone (see below).
TraceBlocks(f) == ResetState(f)

ReExecTxPool(f) ==
    /\ ResetAnd(txs, f)
    /\ sim' = Detached(TRUE)
    /\ covered' = TRUE
    /\ UNCHANGED txs

ClearTxPool ==
    /\ ResetAnd(<<>>, fork)
    /\ sim' = Detached(TRUE)
    /\ covered' = TRUE
    /\ txs' = <<>>

-----------------------------------------------------------------------------
(* Simulations arrive.  History: excused, if the node was reset meanwhile  *)
(* or the replay ran short of gas; overlapped, if another request had a    *)
(* tracer in use at the same time.                                         *)

Start(c, kind, list, target, sims) ==
    /\ sim[c] = Nil
    /\ sim' = [sims EXCEPT ![c] =
                 [kind |-> kind, todo |-> list, target |-> target,
                  state |-> <<>>, ops |-> <<>>, hold |-> Nil,
                  step |-> IF kind \in {"trace", "bundle"} THEN "replay" ELSE "install",
                  excused |-> FALSE, overlapped |-> FALSE]]

\* Faulty variant: everything of the pool is replayed but the transaction.
BeforeAndAfter(hash) == SelectSeq(txs, LAMBDA tx : tx # hash)

\* txs[:i] for the first transaction with that hash.
Before(hash) ==
    SubSeq(txs, 1, Min({i \in DOMAIN txs : txs[i] = hash}) - 1)

\* TraceTransaction and RunTxWithDifferentContext, which go the same way
\* until the replay is done: CloneFromRoot, InitFakeAccounts, ExecuteTxs of
\* what precedes.
TraceTransaction(c, hash) ==
    /\ Start(c, "trace", Before(hash), hash, sim)
    /\ UNCHANGED <<nodeVars, gasVars, tracer, history>>

\* StorageRangeAt: the index is looked up and not used.
StorageRangeAt(c, hash) ==
    /\ Start(c, "range", txs, hash, sim)
    /\ UNCHANGED <<nodeVars, gasVars, tracer, history>>

\* EstimateGas: one call on a clone of the node's state.
EstimateGas(c) ==
    /\ Start(c, "estimate", <<>>, Nil, sim)
    /\ UNCHANGED <<nodeVars, gasVars, tracer, history>>

\* TraceTransactionBundle and, for each block, traceBlocks: AddGasPool, and
\* a message on a clone.
TraceTransactionBundle(c) ==
    /\ Start(c, "bundle", <<Nil>>, Nil, Detached(FALSE))
    /\ gas' = GasLimit /\ spent' = 0 /\ forfeited' = 0 /\ refilled' = TRUE
    /\ UNCHANGED <<nodeVars, tracer, history>>

-----------------------------------------------------------------------------
(* ExecuteMsg on a clone: SubGas, the run, AddGas. *)

At(c, step) == sim[c] # Nil /\ sim[c].step = step

\* The next message passes all checks, if there is gas for it.
Replaying(c) ==
    /\ At(c, "replay") /\ sim[c].todo # <<>>
    /\ sim[c].kind # "bundle" => Applies(fork, sim[c].state, Head(sim[c].todo))

\* Where the loop of StorageRangeAt goes on.
AfterMsg(c) == IF sim[c].kind = "range" THEN "call" ELSE "replay"

\* ApplyMessage refuses: ExecuteTxs goes on, a bundle misses its receipt.
Skip(c, noGas) ==
    /\ IF sim[c].kind = "bundle" THEN sim' = [sim EXCEPT ![c] = Nil]
       ELSE sim' = [sim EXCEPT ![c].todo = Tail(@), ![c].step = AfterMsg(c),
                               ![c].excused = @ \/ noGas]
    /\ result' = Nil
    /\ UNCHANGED <<nodeVars, tracer, history>>

\* ... before the gas is bought ...
Refuse(c) ==
    /\ At(c, "replay") /\ sim[c].todo # <<>>
    /\ \/ gas < TxGas
       \/ sim[c].kind # "bundle" /\ ~NonceOK(fork, sim[c].state, Head(sim[c].todo))
    /\ Skip(c, Replaying(c))
    /\ UNCHANGED gasVars

\* ... or after that, and nothing puts it back into the pool.
Forfeit(c) ==
    /\ At(c, "replay") /\ sim[c].todo # <<>> /\ gas >= TxGas
    /\ sim[c].kind # "bundle" => Forfeits(fork, sim[c].state, Head(sim[c].todo))
    /\ Skip(c, FALSE)
    /\ gas' = gas - TxGas
    /\ forfeited' = forfeited + 1
    /\ UNCHANGED <<spent, refilled>>

\* Faulty variant: gas is bought although the pool does not have it.
SubGasUnchecked(c) ==
    /\ Replaying(c)
    /\ gas' = gas - TxGas
    /\ sim' = [sim EXCEPT ![c].hold = "present", ![c].step = "running"]
    /\ result' = Nil
    /\ UNCHANGED <<nodeVars, tracer, spent, forfeited, refilled, history>>

SubGas(c) ==
    /\ Replaying(c) /\ gas >= TxGas
    /\ gas' = gas - TxGas
    /\ sim' = [sim EXCEPT ![c].hold = "present", ![c].step = "running"]
    /\ result' = Nil
    /\ UNCHANGED <<nodeVars, tracer, spent, forfeited, refilled, history>>

\* Faulty variant: the rest goes to whatever pool is there.
AddGasPresent(c) == gas' = gas + TxGas - UsedGas /\ spent' = spent + 1

\* The rest goes to the pool it was bought from.
AddGas(c) ==
    IF sim[c].hold = "present" THEN gas' = gas + TxGas - UsedGas /\ spent' = spent + 1
    ELSE UNCHANGED <<gas, spent>>

\* The message is through; a bundle returns.
Applied(c) ==
    /\ At(c, "running")
    /\ AddGas(c)
    /\ sim' = [sim EXCEPT ![c] =
         IF sim[c].kind = "bundle" THEN Nil
         ELSE [sim[c] EXCEPT !.state = Append(@, Head(sim[c].todo)), !.todo = Tail(@),
                             !.hold = Nil, !.step = AfterMsg(c)]]
    /\ result' = Nil
    /\ UNCHANGED <<nodeVars, tracer, forfeited, refilled, history>>

-----------------------------------------------------------------------------
(* SetTracer and DoCall. *)

Using(c) == At(c, "call") \/ (sim[c] # Nil /\ sim[c].kind = "range" /\ ~At(c, "install"))

\* SetTracer.  History: who has a tracer in use at the same time.
SetTracer(c) ==
    /\ \/ At(c, "install")
       \/ At(c, "replay") /\ sim[c].kind = "trace" /\ sim[c].todo = <<>>
    /\ tracer' = c
    /\ LET others == {d \in Clients \ {c} : Using(d)}
       IN  sim' = [d \in Clients |->
                     IF d = c THEN [sim[c] EXCEPT !.step = "call",
                                       !.overlapped = others # {} /\ sim[c].kind \in Replays]
                     ELSE IF d \in others /\ sim[d].kind \in Replays
                          THEN [sim[d] EXCEPT !.overlapped = TRUE] ELSE sim[d]]
    /\ result' = Nil
    /\ UNCHANGED <<nodeVars, gasVars, history>>

\* StateTracer.CaptureState: the slots an execution touched, each once.
CaptureSlots(ops, tx) == IF Contains(ops, tx) THEN ops ELSE Append(ops, tx)

\* KeccakTracer.CaptureState (and the loggers of go-ethereum): one more
\* operation for everything seen.
CaptureState(ops, tx) == Append(ops, tx)

\* KeccakTracer.Reset: a new slice; the one handed out stays.
ResetTracer(ops) == <<>>

\* DoCall reads a.tracer: the execution shows in the tracer found there.
\* (An estimate does not show what its tracer saw.)
Captured(tx) ==
    IF tracer = Nil THEN sim
    ELSE CASE sim[tracer].kind = "range" -> [sim EXCEPT ![tracer].ops = CaptureSlots(@, tx)]
           [] sim[tracer].kind = "trace" -> [sim EXCEPT ![tracer].ops = CaptureState(@, tx)]
           [] OTHER -> sim

\* The request returns; its tracer may stay in the field.
LeaveTracer(c) == tracer' = IF tracer = c THEN Nil ELSE tracer

\* The traced message, checked like any other; DoCall has its own gas.
TraceCall(c) ==
    /\ At(c, "call") /\ sim[c].kind = "trace"
    /\ IF Applies(fork, sim[c].state, sim[c].target)
       THEN LET seen == Captured(sim[c].target)
            IN  result' = seen[c] /\ sim' = [seen EXCEPT ![c] = Nil]
       ELSE result' = Nil /\ sim' = [sim EXCEPT ![c] = Nil]
    /\ LeaveTracer(c)
    /\ UNCHANGED <<nodeVars, gasVars, history>>

\* The two runs of the probe, each on a clone of the replayed state, with gas
\* and a tracer of their own that is reset between them.
ProbeCall(c) ==
    /\ At(c, "replay") /\ sim[c].kind = "trace" /\ sim[c].todo = <<>>
    /\ sim' = [sim EXCEPT ![c] = Nil]
    /\ LET ops0 == CaptureState(sim[c].ops, sim[c].target)
           ops1 == CaptureState(ResetTracer(ops0), sim[c].target)
       IN  result' = IF Applies(fork, sim[c].state, sim[c].target)
                     THEN [sim[c] EXCEPT !.ops = ops1] ELSE Nil
    /\ UNCHANGED <<nodeVars, gasVars, tracer, history>>

\* The estimate's message is a fake one, without nonce check.
EstimateCall(c) ==
    /\ At(c, "call") /\ sim[c].kind = "estimate"
    /\ sim' = [Captured(<<Nil, Nil>>) EXCEPT ![c] = Nil]
    /\ result' = Nil
    /\ LeaveTracer(c)
    /\ UNCHANGED <<nodeVars, gasVars, history>>

\* Faulty variant: the call does not check the nonce, as an estimate's.
RangeCallFake(c) ==
    /\ At(c, "call") /\ sim[c].kind = "range" /\ sim[c].todo # <<>>
    /\ sim' = [Captured(Head(sim[c].todo)) EXCEPT ![c].step = "replay"]
    /\ result' = Nil
    /\ UNCHANGED <<nodeVars, gasVars, tracer, history>>

\* StorageRangeAt: DoCall of the next transaction, which ExecuteTxs runs again.
RangeCall(c) ==
    /\ At(c, "call") /\ sim[c].kind = "range" /\ sim[c].todo # <<>>
    /\ LET tx == Head(sim[c].todo)
       IN  IF Applies(fork, sim[c].state, tx)
           THEN sim' = [Captured(tx) EXCEPT ![c].state = Append(@, tx), ![c].step = "replay"]
           ELSE sim' = [sim EXCEPT ![c].step = "replay"]
    /\ result' = Nil
    /\ UNCHANGED <<nodeVars, gasVars, tracer, history>>

RangeReturns(c) ==
    /\ At(c, "call") /\ sim[c].kind = "range" /\ sim[c].todo = <<>>
    /\ result' = sim[c]
    /\ sim' = [sim EXCEPT ![c] = Nil]
    /\ LeaveTracer(c)
    /\ UNCHANGED <<nodeVars, gasVars, history>>

-----------------------------------------------------------------------------

Init ==
    /\ fork = 0
    /\ applied = <<>> /\ txs = <<>>
    /\ gas = GasLimit /\ spent = 0 /\ forfeited = 0 /\ refilled = FALSE
    /\ tracer = Nil
    /\ sim = [c \in Clients |-> Nil]
    /\ result = Nil
    /\ short = FALSE /\ covered = TRUE

\* Transactions with the next nonce, and raw ones that may not have it.
Node ==
    /\ \/ \E a \in Accounts : Send(<<a, GetNonce(fork, applied, a)>>)
       \/ \E a \in Accounts : Send(<<a, 1>>)
       \/ \E f \in Later : ResetState(f) \/ ReExecTxPool(f)
       \/ \E f \in TraceForks : TraceBlocks(f)
       \/ ClearTxPool
    /\ result' = Nil

Arrive(c) ==
    /\ \/ /\ c \in Replayers
          /\ \E i \in DOMAIN txs : TraceTransaction(c, txs[i]) \/ StorageRangeAt(c, txs[i])
       \/ EstimateGas(c)
       \/ TraceTransactionBundle(c)
    /\ result' = Nil

Work(c) ==
    \/ Refuse(c)
    \/ Forfeit(c)
    \/ SubGas(c)
    \/ Applied(c)
    \/ SetTracer(c)
    \/ TraceCall(c)
    \/ ProbeCall(c)
    \/ EstimateCall(c)
    \/ RangeCall(c)
    \/ RangeReturns(c)

Next == Node \/ \E c \in Clients : Arrive(c) \/ Work(c)

Spec == Init /\ [][Next]_vars

-----------------------------------------------------------------------------
(* Properties. *)

Txs == Accounts \X Nat

\* The requests in progress.
Sims == [kind : {"trace", "range", "estimate", "bundle"},
         todo : Seq(Txs \cup {Nil}), target : Txs \cup {Nil},
         state : Seq(Txs), ops : Seq(Txs \cup {<<Nil, Nil>>}),
         hold : {Nil, "present", "old"},
         step : {"replay", "running", "install", "call"},
         excused : BOOLEAN, overlapped : BOOLEAN]

ASSUME NilAssumption == Nil \notin Sims /\ Nil \notin {"present", "old"}

\* Every variable keeps its type; the gas stays a natural number, and a
\* message holds gas exactly while it runs.
TypeOK ==
    /\ fork \in 0 .. MaxFork
    /\ applied \in Seq(Txs) /\ txs \in Seq(Txs)
    /\ gas \in Nat /\ spent \in Nat /\ forfeited \in Nat
    /\ tracer \in Clients \cup {Nil}
    /\ sim \in [Clients -> Sims \cup {Nil}]
    /\ result \in Sims \cup {Nil}
    /\ refilled \in BOOLEAN /\ short \in BOOLEAN /\ covered \in BOOLEAN
    /\ \A c \in Clients : sim[c] # Nil => (sim[c].hold # Nil <=> sim[c].step = "running")

\* The block's gas while pools are replaced under running messages
\* (a.gasPool in ExecuteMsg, AddGasPool): what is left, what running
\* messages hold of it, what executions used and what rejected messages had
\* bought add up to the limit; so no message returns gas to a pool it did
\* not buy from, and gas is lost only with a message that is rejected after
\* buyGas.  Unless a bundle refilled it, the node's state fits into the
\* block.
GasAddsUp ==
    /\ gas + TxGas * Cardinality({c \in Clients : sim[c] # Nil /\ sim[c].hold = "present"})
           + UsedGas * spent + TxGas * forfeited = GasLimit
    /\ ~refilled => Len(applied) <= spent

\* The transactions of the node's state before tx.
PastOf(tx) == SubSeq(applied, 1, Min({i \in DOMAIN applied : applied[i] = tx}) - 1)

\* A transaction of the node's state is traced in the state in which the
\* node executed it, although the trace replays the pool on a clone next to
\* everything else: unless the node was reset in between, the gas ran short, or
\* the pool holds more than the last reset left.  (TraceTransaction,
\* RunTxWithDifferentContext.)
TracedInItsPast ==
    /\ result # Nil /\ result.kind = "trace" /\ ~result.excused /\ ~short /\ covered
    /\ \E i \in DOMAIN applied : applied[i] = result.target
    => result.state = PastOf(result.target)

\* A request finds in its tracer its own executions, each once and in
\* order, unless another request had a tracer in use meanwhile; although
\* StorageRangeAt runs every transaction twice on the same state.
OwnTrace ==
    result # Nil /\ ~result.overlapped =>
        /\ result.kind = "trace" => result.ops = <<result.target>>
        /\ result.kind = "range" /\ ~result.excused => result.ops = result.state
=============================================================================
