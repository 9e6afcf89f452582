----------------------------- MODULE MferBackend -----------------------------
(***************************************************************************)
(* The requests that share the node's state and its transaction pool:      *)
(* mferbackend/rpcapi.go and mferbackend/mferactionapi.go over             *)
(* mfertxpool/txpool.go and Prepare, ResetToRoot, ExecuteTxs, ExecuteMsg   *)
(* of mferevm/evm.go.                                                      *)
(*                                                                         *)
(* Each RPC call runs in a goroutine of its own (a client here).  Some     *)
(* handlers hold the state lock, some do not.  A handler that panics runs  *)
(* its deferred unlock and the RPC server turns the panic into an error.   *)
(*                                                                         *)
(* The node's state is the sequence of transactions applied since it was   *)
(* last reset, cut into the layers of OverlayStateDB: marks[i] is how many *)
(* were applied when layer i was derived.  A transaction is                *)
(* <<id, sender, nonce>>.  It is rejected if its nonce is not the sender's *)
(* next one and may be rejected for its gas or its balance; rejected or    *)
(* not, it goes to the pool with its result.                               *)
(***************************************************************************)
EXTENDS Naturals, Sequences, FiniteSets

CONSTANTS
    Clients,          \* goroutines serving RPC calls
    Requests,         \* the RPC methods they call
    Senders,          \* accounts that send transactions
    MaxTxs,           \* bound on the transactions ever sent
    PrepareOutcomes,  \* how Prepare may end
    None

AllRequests == {"sendTransaction", "sendRawTransaction", "reExecTxPool",
                "resetState", "clearTxPool", "clearKeyCache", "traceBlocks"}

\* "chainErr": ChainID fails and Prepare returns the error.
\* "headerPanic": no header, nil dereference.
\* "fetchPanic": log.Panic in resetScratchPad, with the state on the root.
ASSUME RequestsAssumption ==
    /\ Requests \subseteq AllRequests
    /\ PrepareOutcomes \subseteq {"ok", "chainErr", "headerPanic", "fetchPanic"}
    /\ MaxTxs \in Nat
    /\ None \notin Clients

VARIABLES
    lock,     \* the client that holds stateLock, or None
    applied,  \* the transactions the node's state holds
    marks,    \* layer -> Len(applied) when it was derived
    txs,      \* pool.txs
    results,  \* pool.execResults
    sent,     \* how many transactions were made
    pc,       \* client -> where it is
    req,      \* client -> the request it serves
    todo,     \* client -> transactions ExecuteTxs has still to run
    outs,     \* client -> their results so far
    snap,     \* client -> the revision ExecuteMsg may revert to
    base,     \* history: how many pool entries precede the last reset of
              \* the state that leaves the pool alone
    parted    \* history: state and pool may have been changed by handlers
              \* that overlap without a lock, or re-executed on an old state

stateVars == <<applied, marks>>
poolVars == <<txs, results>>
execVars == <<todo, outs, snap>>
vars == <<lock, stateVars, poolVars, sent, pc, req, execVars, base, parted>>

Goto(c, label) == pc' = [pc EXCEPT ![c] = label]

\* StateDB.GetNonce.
GetNonce(from) == Cardinality({i \in DOMAIN applied : applied[i][2] = from})

\* The handler returns or panics: its locals are gone, and the deferred
\* StateUnlock runs if it holds the lock.
Return(c) ==
    /\ Goto(c, "idle")
    /\ req' = [req EXCEPT ![c] = None]
    /\ todo' = [todo EXCEPT ![c] = <<>>]
    /\ outs' = [outs EXCEPT ![c] = <<>>]
    /\ snap' = [snap EXCEPT ![c] = 0]
    /\ lock' = IF lock = c THEN None ELSE lock

-----------------------------------------------------------------------------
(* A call arrives. *)

Start(c, r) ==
    /\ pc[c] = "idle"
    /\ req' = [req EXCEPT ![c] = r]

\* SendTransaction completes its arguments and waits for the lock.
SendTransaction(c, from) ==
    /\ "sendTransaction" \in Requests
    /\ sent < MaxTxs
    /\ Start(c, "sendTransaction")
    /\ todo' = [todo EXCEPT ![c] = <<<<sent + 1, from, 0>>>>]
    /\ sent' = sent + 1
    /\ Goto(c, "lock")
    /\ UNCHANGED <<lock, stateVars, poolVars, outs, snap, base>>

\* ReExecTxPool and ResetState begin with StateLock.
ReExecOrReset(c) ==
    /\ \E r \in Requests \cap {"reExecTxPool", "resetState"} : Start(c, r)
    /\ Goto(c, "lock")
    /\ UNCHANGED <<lock, stateVars, poolVars, sent, execVars, base>>

\* ClearTxPool resets the pool before it takes the lock.
ClearTxPool(c) ==
    /\ "clearTxPool" \in Requests
    /\ Start(c, "clearTxPool")
    /\ Goto(c, "lock")
    /\ txs' = <<>>
    /\ results' = <<>>
    /\ base' = 0
    /\ UNCHANGED <<lock, stateVars, sent, execVars>>

\* SendRawTransaction takes no lock; the caller signed the transaction.
SendRawTransaction(c, from, nonce) ==
    /\ "sendRawTransaction" \in Requests
    /\ sent < MaxTxs
    /\ Start(c, "sendRawTransaction")
    /\ todo' = [todo EXCEPT ![c] = <<<<sent + 1, from, nonce>>>>]
    /\ sent' = sent + 1
    /\ Goto(c, "begin")
    /\ UNCHANGED <<lock, stateVars, poolVars, outs, snap, base>>

\* traceBlocks takes no lock.
TraceBlocks(c) ==
    /\ "traceBlocks" \in Requests
    /\ Start(c, "traceBlocks")
    /\ Goto(c, "prepare")
    /\ UNCHANGED <<lock, stateVars, poolVars, sent, execVars, base>>

\* Faulty variant: the layers are kept.
InitStateOnTop == applied' = <<>> /\ UNCHANGED marks

\* InitState: one empty layer over the root.
InitState == applied' = <<>> /\ marks' = <<0>>

\* ClearKeyCache: InitState(true, true), no lock.
ClearKeyCache(c) ==
    /\ "clearKeyCache" \in Requests
    /\ pc[c] = "idle"
    /\ InitState
    /\ base' = Len(txs)
    /\ UNCHANGED <<lock, poolVars, sent, pc, req, execVars>>

-----------------------------------------------------------------------------
(* Under the lock. *)

Acquire(c, r) ==
    /\ pc[c] = "lock"
    /\ req[c] = r
    /\ lock = None
    /\ lock' = c

\* SendTransaction signs with the nonce it reads under the lock.
LockToSend(c) ==
    /\ Acquire(c, "sendTransaction")
    /\ LET tx == todo[c][1]
       IN  todo' = [todo EXCEPT ![c] = <<<<tx[1], tx[2], GetNonce(tx[2])>>>>]
    /\ Goto(c, "begin")
    /\ UNCHANGED <<stateVars, poolVars, sent, req, outs, snap, base>>

LockToPrepare(c) ==
    /\ \E r \in {"reExecTxPool", "resetState"} : Acquire(c, r)
    /\ Goto(c, "prepare")
    /\ UNCHANGED <<stateVars, poolVars, sent, req, execVars, base>>

\* ClearTxPool: ResetToRoot and return.
LockToClear(c) ==
    /\ pc[c] = "lock" /\ req[c] = "clearTxPool" /\ lock = None
    /\ InitState
    /\ base' = 0
    /\ Return(c)
    /\ UNCHANGED <<poolVars, sent>>

\* Where a handler goes after Prepare came back, error or not.
AfterPrepare(r) ==
    CASE r = "reExecTxPool" -> "getPool"
      [] r = "traceBlocks"  -> "initState"
      [] OTHER              -> "return"

\* Prepare re-forks: InitState(true, false), InitFakeAccounts.
Prepare(c) ==
    /\ pc[c] = "prepare"
    /\ "ok" \in PrepareOutcomes
    /\ InitState
    /\ Goto(c, AfterPrepare(req[c]))
    /\ base' = Len(txs)
    /\ UNCHANGED <<lock, poolVars, sent, req, execVars>>

\* Prepare returns ChainID's error, which no handler looks at.
PrepareErr(c) ==
    /\ pc[c] = "prepare"
    /\ "chainErr" \in PrepareOutcomes
    /\ Goto(c, AfterPrepare(req[c]))
    /\ UNCHANGED <<lock, stateVars, poolVars, sent, req, execVars, base>>

\* Prepare panics, before or inside InitState; so does what traceBlocks does
\* after it (no header of the parent block, or InitState at its height).
PreparePanic(c) ==
    /\ pc[c] \in {"prepare", "initState"}
    /\ \/ /\ "headerPanic" \in PrepareOutcomes
          /\ UNCHANGED <<stateVars, base>>
       \/ /\ "fetchPanic" \in PrepareOutcomes
          /\ applied' = <<>> /\ marks' = <<>>
          /\ base' = Len(txs)
    /\ Return(c)
    /\ UNCHANGED <<poolVars, sent>>

\* traceBlocks forks at the parent of its first block and works on a clone
\* from there on.
TraceInit(c) ==
    /\ pc[c] = "initState"
    /\ InitState
    /\ base' = Len(txs)
    /\ Return(c)
    /\ UNCHANGED <<poolVars, sent>>

ResetReturns(c) ==
    /\ pc[c] = "return"
    /\ Return(c)
    /\ UNCHANGED <<stateVars, poolVars, sent, base>>

\* ReExecTxPool reads the pool after Prepare and will run all of it.
GetPoolTxs(c) ==
    /\ pc[c] = "getPool"
    /\ todo' = [todo EXCEPT ![c] = txs]
    /\ base' = 0
    /\ Goto(c, IF txs = <<>> THEN "results" ELSE "begin")
    /\ UNCHANGED <<lock, stateVars, poolVars, sent, req, outs, snap>>

-----------------------------------------------------------------------------
(* ExecuteTxs: ExecuteMsg for one transaction after the other. *)

\* Snapshot.  (The warm-up before it only reads, on clones.)
Begin(c) ==
    /\ pc[c] = "begin"
    /\ marks' = Append(marks, Len(applied))
    /\ snap' = [snap EXCEPT ![c] = Len(marks)]
    /\ Goto(c, "check")
    /\ UNCHANGED <<lock, applied, poolVars, sent, req, todo, outs, base>>

\* The result is recorded; the handler goes on with what is left.
Record(c, result) ==
    /\ outs' = [outs EXCEPT ![c] = Append(@, result)]
    /\ todo' = [todo EXCEPT ![c] = IF Len(@) = 1 THEN @ ELSE Tail(@)]
    /\ snap' = [snap EXCEPT ![c] = 0]
    /\ Goto(c, IF Len(todo[c]) > 1 THEN "begin"
               ELSE IF req[c] = "reExecTxPool" THEN "results" ELSE "add")

NonceOK(tx) == tx[3] = GetNonce(tx[2])

\* ApplyMessage accepts the message.
Accept(c) ==
    /\ pc[c] = "check"
    /\ NonceOK(Head(todo[c]))
    /\ Goto(c, "commit")
    /\ UNCHANGED <<lock, stateVars, poolVars, sent, req, execVars, base>>

\* ... and its writes reach the top layer.
Commit(c) ==
    /\ pc[c] = "commit"
    /\ applied' = Append(applied, Head(todo[c]))
    /\ Record(c, "ok")
    /\ UNCHANGED <<lock, marks, poolVars, sent, req, base>>

\* Faulty variant: the transaction is tried again.
RejectRetries(c) ==
    /\ pc[c] = "check"
    /\ snap[c] < Len(marks)
    /\ applied' = SubSeq(applied, 1, marks[snap[c] + 1])
    /\ marks' = SubSeq(marks, 1, snap[c])
    /\ Goto(c, "begin")
    /\ UNCHANGED <<lock, poolVars, sent, req, execVars, base>>

\* ApplyMessage rejects the message and RevertToSnapshot pops the layers.
Reject(c) ==
    /\ pc[c] = "check"
    /\ snap[c] < Len(marks)
    /\ applied' = SubSeq(applied, 1, marks[snap[c] + 1])
    /\ marks' = SubSeq(marks, 1, snap[c])
    /\ Record(c, "rejected")
    /\ UNCHANGED <<lock, poolVars, sent, req, base>>

\* The layer to go back to is gone: the walk runs off the root.
RejectPanics(c) ==
    /\ pc[c] = "check"
    /\ snap[c] >= Len(marks)
    /\ Return(c)
    /\ UNCHANGED <<stateVars, poolVars, sent, base>>

\* Faulty variant: a transaction that failed is not added.
AddTxIfOK(c) ==
    /\ txs' = IF outs[c][1] = "ok" THEN Append(txs, todo[c][1]) ELSE txs
    /\ results' = Append(results, outs[c][1])

\* pool.AddTx(tx, res[0]).
AddTx(c) ==
    /\ txs' = Append(txs, todo[c][1])
    /\ results' = Append(results, outs[c][1])

Add(c) ==
    /\ pc[c] = "add"
    /\ AddTx(c)
    /\ Return(c)
    /\ UNCHANGED <<stateVars, sent, base>>

\* pool.SetResults(execResults).
SetResults(c) ==
    /\ pc[c] = "results"
    /\ results' = outs[c]
    /\ Return(c)
    /\ UNCHANGED <<stateVars, txs, sent, base>>

-----------------------------------------------------------------------------

\* NewMferEVM has prepared the state; the pool is empty.
Init ==
    /\ lock = None
    /\ applied = <<>>
    /\ marks = <<0>>
    /\ txs = <<>>
    /\ results = <<>>
    /\ sent = 0
    /\ pc = [c \in Clients |-> "idle"]
    /\ req = [c \in Clients |-> None]
    /\ todo = [c \in Clients |-> <<>>]
    /\ outs = [c \in Clients |-> <<>>]
    /\ snap = [c \in Clients |-> 0]
    /\ base = 0
    /\ parted = FALSE

Arrive(c) ==
    \/ \E from \in Senders : SendTransaction(c, from)
    \/ ReExecOrReset(c)
    \/ ClearTxPool(c)
    \/ \E from \in Senders, nonce \in 0 .. MaxTxs : SendRawTransaction(c, from, nonce)
    \/ TraceBlocks(c)
    \/ ClearKeyCache(c)

TakeLock(c) ==
    \/ LockToSend(c)
    \/ LockToPrepare(c)
    \/ LockToClear(c)

Work(c) ==
    \/ Prepare(c)
    \/ PrepareErr(c)
    \/ PreparePanic(c)
    \/ TraceInit(c)
    \/ ResetReturns(c)
    \/ GetPoolTxs(c)
    \/ Begin(c)
    \/ Accept(c)
    \/ Commit(c)
    \/ Reject(c)
    \/ RejectPanics(c)
    \/ Add(c)
    \/ SetResults(c)

\* In the middle of changing the state or the pool.
Busy(c) ==
    \/ pc[c] \in {"prepare", "initState", "getPool", "begin", "check", "commit", "add", "results"}
    \/ pc[c] = "lock" /\ req[c] = "clearTxPool"

\* The handlers that change the state or the pool without the lock.
Unlocked == {"sendRawTransaction", "clearTxPool", "clearKeyCache", "traceBlocks"}

\* This step of c falls among the changes of another handler, and one of the
\* two has no lock.  (Only ClearKeyCache is neither busy before nor after.)
Overlaps(c) ==
    \E d \in Clients \ {c} :
        /\ Busy(d)
        /\ \/ Busy(c) /\ Unlocked \cap {req[c], req[d]} # {}
           \/ Busy(c)' /\ Unlocked \cap {req'[c], req[d]} # {}
           \/ pc[c] = "idle" /\ UNCHANGED pc

\* A pool that is re-executed on the empty state will explain it again; on
\* what a failed Prepare left it will not.
Parting(c) ==
    \/ Overlaps(c)
    \/ IF pc'[c] = "getPool" THEN applied' # <<>> ELSE parted

Tracked(c, A) == A /\ parted' = Parting(c)

Next == \E c \in Clients : Tracked(c, Arrive(c) \/ TakeLock(c) \/ Work(c))

Spec == Init /\ [][Next]_vars

\* A goroutine that can run does; sync.RWMutex does not starve a writer.
FairSpec ==
    /\ Spec
    /\ \A c \in Clients : WF_vars(Tracked(c, Work(c))) /\ SF_vars(Tracked(c, TakeLock(c)))

-----------------------------------------------------------------------------
(* Properties. *)

Labels == {"idle", "lock", "prepare", "initState", "return", "getPool",
           "begin", "check", "commit", "add", "results"}

Txs == (1 .. MaxTxs) \X Senders \X Nat

\* Every variable keeps its type; a layer begins within the transactions
\* applied.
TypeOK ==
    /\ lock \in Clients \cup {None}
    /\ applied \in Seq(Txs)
    /\ marks \in Seq(0 .. Len(applied))
    /\ txs \in Seq(Txs)
    /\ results \in Seq({"ok", "rejected"})
    /\ sent \in 0 .. MaxTxs
    /\ pc \in [Clients -> Labels]
    /\ req \in [Clients -> Requests \cup {None}]
    /\ todo \in [Clients -> Seq(Txs)]
    /\ outs \in [Clients -> Seq({"ok", "rejected"})]
    /\ snap \in [Clients -> Nat]
    /\ base \in Nat /\ parted \in BOOLEAN

\* The entries b + 1 .. j of a list of results that are reported as executed.
Executed(res, b, j) == {i \in b + 1 .. j : res[i] = "ok"}

\* A state holds exactly the transactions of a list that are reported as
\* executed after the first b entries, in the list's order: the n-th
\* executed one is the n-th of the state.
Explains(state, list, res, b) ==
    /\ Len(state) = Cardinality(Executed(res, b, Len(res)))
    /\ \A j \in Executed(res, b, Len(res)) :
           state[Cardinality(Executed(res, b, j))] = list[j]

\* The pool keeps the state's mutations: when nobody is at work, the state
\* holds exactly the transactions the pool reports as executed since the
\* last reset that left the pool alone, in the pool's order, and every
\* transaction has its result.  This is lost only by handlers that overlap
\* without the lock or by a re-execution after Prepare failed, and the next
\* re-execution that goes well brings it back.
PoolExplainsState ==
    ~parted /\ lock = None /\ (\A c \in Clients : ~Busy(c)) =>
        /\ Len(txs) = Len(results)
        /\ Explains(applied, txs, results, base)

\* Every call comes back and the lock with it, whatever panics on the way.
EveryRequestReturns == \A c \in Clients : pc[c] # "idle" ~> pc[c] = "idle"
=============================================================================
