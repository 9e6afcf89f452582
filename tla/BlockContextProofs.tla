-------------------------- MODULE BlockContextProofs --------------------------
(***************************************************************************)
(* Proofs about BlockContext, for every pin height, every bound on the     *)
(* chain, every set of deltas and every choice of faults: the node is      *)
(* never forked at a height the chain does not have, and no step takes a   *)
(* serving node down.                                                      *)
(***************************************************************************)
EXTENDS BlockContext, TLAPS

\* What the steps of a fetch rely on: the header that the updater or a trace
\* holds between the fetch and its use is one the chain has, and so is the
\* block a trace is on.
HeadersOnChain ==
    /\ PinHeight <= head
    /\ announced <= head
    /\ upc \in {"update", "fork"} => uheader \in 0 .. head
    /\ rpc = "prepared" => rheader \in 0 .. head
    /\ rpc # "idle" => target \in 0 .. head

\* What the updater relies on: from the first fork on there is a StateDB,
\* and with it a context.
ForkedHasState == main \in {"prefetch", "attach", "serve"} => stateDB

IInv == TypeOK /\ HeadersOnChain /\ ForkedHasState

-----------------------------------------------------------------------------

\* Unsigned subtraction (traceBlocks' number - 1) stays below 2^64 and is
\* the predecessor of every block but the first.
LEMMA PredRange == ASSUME NEW n \in 0 .. MaxHead PROVE Pred(n) \in 0 .. (Wrap - 1)
<1>1. n + Wrap - 1 \in Nat /\ Wrap \in Nat /\ Wrap > 0
  BY ContextAssumption
<1>. QED
  BY <1>1, SMT DEF Pred

\* The program starts with no header fetched and no block to trace.
LEMMA InitIInv == Init => IInv
<1>. SUFFICES ASSUME Init PROVE IInv
  OBVIOUS
<1>1. /\ head \in 0 .. MaxHead /\ lost \in 0 .. MaxHead /\ bn \in 0 .. head
      /\ PinHeight <= head
  BY ContextAssumption DEF Init
<1>2. TypeOK
  BY <1>1, ContextAssumption DEF Init, TypeOK
<1>3. HeadersOnChain /\ ForkedHasState
  BY <1>1 DEF Init, HeadersOnChain, ForkedHasState
<1>. QED
  BY <1>2, <1>3 DEF IInv

\* The chain grows and prunes; what was fetched stays on the chain.
LEMMA ChainIInv == IInv /\ (NewHead \/ Prune) => IInv'
<1>. SUFFICES ASSUME IInv, NewHead \/ Prune PROVE IInv'
  OBVIOUS
<1>. USE ContextAssumption
     DEF IInv, TypeOK, HeadersOnChain, ForkedHasState,
         ctxVars, vmContext, optVars, mainVars, upVars, subVars, rpcVars
<1>1. CASE NewHead
  <2>1. /\ announced' \in {announced, announced + 1}
        /\ missed' \in BOOLEAN
    BY <1>1, Zenon DEF NewHead
  <2>2. /\ head < MaxHead /\ head' = head + 1
        /\ UNCHANGED <<lost, ctxVars, optVars, mainVars, upc, uheader, polling, rpcVars>>
    BY <1>1 DEF NewHead
  <2>. QED
    BY <2>1, <2>2
<1>2. CASE Prune
  BY <1>2 DEF Prune
<1>. QED
  BY <1>1, <1>2

\* A step of main (NewMferEVM, Prepare, the server) keeps the invariant.
LEMMA StartIInv == IInv /\ Start => IInv'
<1>. SUFFICES ASSUME IInv, Start PROVE IInv'
  OBVIOUS
<1>. USE ContextAssumption
     DEF IInv, TypeOK, HeadersOnChain, ForkedHasState, chainVars,
         ctxVars, vmContext, optVars, upVars, subVars, rpcVars
<1>1. CASE Dial
  BY <1>1 DEF Dial
<1>2. CASE Redial
  BY <1>2 DEF Redial
<1>3. CASE FirstFork
  BY <1>3 DEF FirstFork, Wanted, SetVMContext
<1>4. CASE NoFirstHeader
  BY <1>4 DEF NoFirstHeader
<1>5. CASE Restart
  <2>0. stateDB' \in BOOLEAN /\ polling' \in BOOLEAN /\ missed' \in BOOLEAN
    BY <1>5, Zenon DEF Restart
  <2>1. /\ main' = "dial" /\ crashed' = "no"
        /\ upc' = "off" /\ uheader' = None
        /\ announced' = 0
        /\ number' = 0 /\ time' = 0 /\ delta' = 0 /\ timeDelta' = 0
        /\ UNCHANGED <<head, lost, pinBlock, rpc, rheader, target>>
    BY <1>5 DEF Restart, NewContext
  <2>2. bn' \in 0 .. head
    BY <1>5 DEF Restart
  <2>3. TypeOK'
    BY <2>0, <2>1, <2>2
  <2>. QED
    BY <2>1, <2>3
<1>6. CASE Prefetched \/ FirstPrefetchPanics
  BY <1>6 DEF Prefetched, FirstPrefetchPanics
<1>7. CASE Attach
  BY <1>7 DEF Attach
<1>. QED
  BY <1>1, <1>2, <1>3, <1>4, <1>5, <1>6, <1>7 DEF Start

\* A step of updatePendingBN keeps the invariant.
LEMMA UpdaterIInv == IInv /\ Updater => IInv'
<1>. SUFFICES ASSUME IInv, Updater PROVE IInv'
  OBVIOUS
<1>. USE ContextAssumption
     DEF IInv, TypeOK, HeadersOnChain, ForkedHasState, chainVars,
         ctxVars, vmContext, optVars, mainVars, subVars, rpcVars
<1>1. CASE Tick
  BY <1>1 DEF Tick
<1>1a. CASE TakeHead \/ TakeHeadFails
  <2>1. missed' \in BOOLEAN
    BY <1>1a, Zenon DEF TakeHead, TakeHeadFails
  <2>2. /\ announced > 0 /\ announced' = announced - 1
        /\ \/ uheader' = head /\ upc' = "update"
           \/ UNCHANGED <<uheader, upc>>
        /\ UNCHANGED <<chainVars, ctxVars, optVars, mainVars, polling, rpcVars>>
    BY <1>1a DEF TakeHead, TakeHeadFails
  <2>. QED
    BY <2>1, <2>2
<1>2. CASE UpdateContext
  BY <1>2 DEF UpdateContext, SetVMContext
<1>3. CASE CheckMissing \/ CheckMisread
  BY <1>3 DEF CheckMissing, CheckMisread, SelfCall
<1>4. CASE ReExecFetch
  BY <1>4 DEF ReExecFetch, NewContext, Wanted
<1>5. CASE ReExecFails
  BY <1>5 DEF ReExecFails, NewContext
<1>6. CASE ReExecFork
  BY <1>6 DEF ReExecFork, SetVMContext
<1>. QED
  BY <1>1, <1>1a, <1>2, <1>3, <1>4, <1>5, <1>6 DEF Updater

\* A step of a request keeps the invariant; the height of a trace is the
\* parent of a block on the chain.
LEMMA RequestIInv == IInv /\ Request => IInv'
<1>. SUFFICES ASSUME IInv, Request PROVE IInv'
  OBVIOUS
<1>. USE ContextAssumption
     DEF IInv, TypeOK, HeadersOnChain, ForkedHasState, chainVars,
         ctxVars, vmContext, optVars, mainVars, upVars, subVars, rpcVars
<1>1. CASE \E n \in 0 .. MaxHead : CallAt(n)
  BY <1>1 DEF CallAt, SetVMContextByBlockHeader
<1>2. CASE \E d \in Deltas : SetBlockNumberDelta(d)
  BY <1>2 DEF SetBlockNumberDelta
<1>3. CASE \E d \in TimeDeltas : SetTimeDelta(d)
  BY <1>3 DEF SetTimeDelta
<1>4. CASE RunTxWithDifferentContext
  BY <1>4 DEF RunTxWithDifferentContext
<1>5. CASE \E b \in 0 .. MaxHead : TraceFetch(b)
  BY <1>5 DEF TraceFetch, NewContext, Wanted
<1>6. CASE \E b \in 0 .. MaxHead : TraceChainErr(b)
  BY <1>6 DEF TraceChainErr
<1>7. CASE TracePrepared
  BY <1>7 DEF TracePrepared, SetVMContext
<1>8. CASE TraceFork
  BY <1>8, PredRange DEF TraceFork, SetVMContextByBlockHeader
<1>9. CASE TraceBlock
  BY <1>9 DEF TraceBlock, SetVMContextByBlockHeader
<1>10. CASE TraceDone
  BY <1>10 DEF TraceDone
<1>11. CASE TracePanics
  BY <1>11 DEF TracePanics
<1>12. CASE TraceNoHeader
  BY <1>12 DEF TraceNoHeader, NewContext
<1>. QED
  BY <1>1, <1>2, <1>3, <1>4, <1>5, <1>6, <1>7, <1>8, <1>9, <1>10, <1>11, <1>12
  DEF Request

\* IInv is inductive.
LEMMA NextIInv == IInv /\ [Next]_vars => IInv'
<1>. SUFFICES ASSUME IInv, [Next]_vars PROVE IInv'
  OBVIOUS
<1>1. CASE UNCHANGED vars
  BY <1>1 DEF vars, IInv, TypeOK, HeadersOnChain, ForkedHasState, chainVars,
              ctxVars, vmContext, optVars, mainVars, upVars, subVars, rpcVars
<1>. QED
  BY <1>1, ChainIInv, StartIInv, UpdaterIInv, RequestIInv DEF Next

\* Every state of BlockContext satisfies IInv.
LEMMA Inductive == Spec => []IInv
BY InitIInv, NextIInv, PTL DEF Spec

-----------------------------------------------------------------------------

\* A serving node has a StateDB, so that the updater's next context or its
\* call of mfer_reExecTxPool finds what it needs.
LEMMA ServingStep == IInv /\ [Next]_vars => (main = "serve" /\ Alive => Alive')
<1>. SUFFICES ASSUME IInv, [Next]_vars, main = "serve", Alive PROVE Alive'
  OBVIOUS
<1>. USE DEF Alive
<1>0. stateDB
  BY DEF IInv, ForkedHasState
<1>1. CASE NewHead \/ Prune
  BY <1>1 DEF NewHead, Prune, mainVars
<1>2. CASE Start
  BY <1>2 DEF Start, Dial, Redial, FirstFork, NoFirstHeader, Restart, Prefetched,
              FirstPrefetchPanics, Attach
<1>3. CASE Updater
  BY <1>0, <1>3 DEF Updater, Tick, TakeHead, TakeHeadFails, UpdateContext,
                    CheckMissing, CheckMisread, SelfCall, ReExecFetch, ReExecFails,
                    ReExecFork, mainVars
<1>4. CASE Request
  BY <1>4 DEF Request, CallAt, SetBlockNumberDelta, SetTimeDelta,
              RunTxWithDifferentContext, TraceFetch, TraceNoHeader, TraceChainErr, TracePrepared,
              TraceFork, TraceBlock, TraceDone, TracePanics, mainVars
<1>5. CASE UNCHANGED vars
  BY <1>5 DEF vars, mainVars
<1>. QED
  BY <1>1, <1>2, <1>3, <1>4, <1>5 DEF Next

-----------------------------------------------------------------------------

\* Type correctness of NewMferEVM, updatePendingBN and traceBlocks: whatever
\* header is stale when it is used, whatever request fails in the middle and
\* whichever block is traced (block 0, whose parent is 2^64 - 1, too), the
\* state is forked at a height of the chain.
THEOREM TypeCorrect == Spec => []TypeOK
<1>1. IInv => TypeOK
  BY DEF IInv
<1>. QED
  BY <1>1, Inductive, PTL

\* The header a step of the updater or of a trace uses was fetched from this
\* chain, and a node past its first Prepare has a StateDB.
THEOREM FetchedOnChain == Spec => [](HeadersOnChain /\ ForkedHasState)
<1>1. IInv => HeadersOnChain /\ ForkedHasState
  BY DEF IInv
<1>. QED
  BY <1>1, Inductive, PTL

\* Once main has come to serve, no goroutine takes the process down: the
\* nil context of a tick before Prepare and the nil SelfClient of a check
\* before stack.Attach are out of reach.
THEOREM Survival == Spec => ServingSurvives
<1>1. IInv /\ [Next]_vars => [main = "serve" /\ Alive => Alive']_vars
  BY ServingStep
<1>. QED
  BY <1>1, Inductive, PTL DEF Spec, ServingSurvives
=============================================================================
