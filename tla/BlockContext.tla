----------------------------- MODULE BlockContext -----------------------------
(***************************************************************************)
(* Which block the node pretends to be at: NewMferEVM, Prepare,            *)
(* setVMContext, SetVMContextByBlockHeader and updatePendingBN of          *)
(* mferevm/evm.go, with the two requests that touch the same fields,       *)
(* CallLocal (mferbackend/rpcapi.go) and traceBlocks                       *)
(* (mferbackend/mferactionapi.go), and the start of cmd/mfer-node/main.go. *)
(*                                                                         *)
(* Three goroutines meet here: main while it starts, the updater that      *)
(* follows the chain (not started when the node is pinned by "@height"),   *)
(* and a request.  A header is fetched in one step and used in another.    *)
(* Headers are modelled by their height.  The updater looks for a new head *)
(* every five seconds or, once a subscription to new heads works, only     *)
(* when one is announced.                                                  *)
(***************************************************************************)
EXTENDS Naturals

CONSTANTS
    PinHeight,   \* the height in "@height", the head when the node starts
    MaxHead,     \* bound on the height of the chain
    Deltas,      \* block number deltas in use
    TimeDeltas,  \* time deltas in use
    MaxTime,     \* bound on how far probes move the time
    Faults,      \* what may go wrong
    Wrap,        \* 2^64 in the code
    None

\* "header": a header request fails.
\* "chain": ChainID fails.
\* "zeroBalance": the zero address holds nothing at a height that is there,
\*     or its balance cannot be read.
\* "subscription": the connection of a subscription drops; the heads until
\*     it is subscribed again are not announced.
\* "prefetch": the key file cannot be opened or the storage batch fails,
\*     and resetScratchPad panics.
\* "slowStart": the first ten seconds pass before main is done.
ASSUME ContextAssumption ==
    /\ PinHeight \in Nat /\ MaxHead \in Nat
    /\ Wrap \in Nat
    /\ 0 < PinHeight /\ PinHeight < MaxHead /\ MaxHead + 1 < Wrap
    /\ Deltas \subseteq Nat /\ 0 \in Deltas
    /\ TimeDeltas \subseteq Nat /\ 0 \in TimeDeltas /\ MaxTime \in Nat
    /\ Faults \subseteq {"header", "chain", "zeroBalance", "subscription",
                        "prefetch", "slowStart"}
    /\ None \notin Nat

VARIABLES
    head,     \* the latest block of the upstream node
    lost,     \* upstream has pruned the states of the heights 0 .. lost
    bn,       \* *blockNumber: the height the state is forked at
    number,   \* vmContext.BlockNumber: the block transactions run in
    time,     \* vmContext.Time; a header's time is its height
    delta,    \* blockNumberDelta
    timeDelta, \* timeDelta
    pinBlock, \* the upstream URL ends in "@height"
    main,     \* how far the start of the program is
    stateDB,  \* StateDB is not nil
    crashed,  \* what took the process down, or "no"
    upc,      \* where the updater is
    uheader,  \* the header it fetched
    polling,  \* no subscription: the five-second ticker was not stopped
    announced, \* heads the subscription delivers that are not taken yet
    missed,   \* history: a head was not announced, or came without a
              \*     header, since the updater last got one
    rpc,      \* where the request is
    rheader,  \* the header it fetched
    target    \* the block it is to trace

chainVars == <<head, lost>>
vmContext == <<number, time>>
ctxVars == <<bn, vmContext>>
optVars == <<delta, timeDelta, pinBlock>>
mainVars == <<main, stateDB, crashed>>
subVars == <<polling, announced, missed>>
upVars == <<upc, uheader, subVars>>
rpcVars == <<rpc, rheader, target>>
vars == <<chainVars, ctxVars, optVars, mainVars, upVars, rpcVars>>

\* Unsigned subtraction.
Pred(n) == (n + Wrap - 1) % Wrap

\* The header Prepare and setVMContext ask for.
Wanted == IF pinBlock THEN bn ELSE head

\* Faulty variant: the context is the fetched block, not the next one.
SetVMContextSame(h) == number' = h + delta /\ time' = h + timeDelta

\* setVMContext: the block after the header's.
SetVMContext(h) == number' = h + 1 + delta /\ time' = h + timeDelta

\* SetVMContextByBlockHeader: the header's own block.
SetVMContextByBlockHeader(h) == number' = h /\ time' = h + timeDelta

\* Prepare begins with a new context.
NewContext == number' = 0 /\ time' = 0

-----------------------------------------------------------------------------
(* The upstream chain. *)

Subscribed == upc # "off" /\ ~polling

\* A subscription announces the head, unless its connection is down.
NewHead ==
    /\ head < MaxHead
    /\ head' = head + 1
    /\ \/ /\ announced' = IF Subscribed THEN announced + 1 ELSE announced
          /\ UNCHANGED missed
       \/ /\ Subscribed
          /\ "subscription" \in Faults
          /\ missed' = TRUE
          /\ UNCHANGED announced
    /\ UNCHANGED <<lost, ctxVars, optVars, mainVars, upc, uheader, polling, rpcVars>>

Prune ==
    /\ lost + 1 < head
    /\ lost' = lost + 1
    /\ UNCHANGED <<head, ctxVars, optVars, mainVars, upVars, rpcVars>>

-----------------------------------------------------------------------------
(* main: NewMferEVM, then the RPC server, then SelfClient. *)

Alive == crashed = "no"

\* A dialled client; the updater starts unless the height is pinned, and
\* polls if SubscribeNewHead fails.  (Each later dial starts one more, which
\* does what the first one does.)
Dial ==
    /\ Alive
    /\ main = "dial"
    /\ main' = "prepare"
    /\ IF pinBlock \/ upc # "off"
       THEN UNCHANGED <<upc, polling>>
       ELSE upc' = "select" /\ polling' \in BOOLEAN
    /\ UNCHANGED <<chainVars, ctxVars, optVars, stateDB, crashed,
                   uheader, announced, missed, rpcVars>>

\* Prepare fails in ChainID: dial again.
Redial ==
    /\ Alive
    /\ main = "prepare"
    /\ "chain" \in Faults
    /\ main' = "dial"
    /\ UNCHANGED <<chainVars, ctxVars, optVars, stateDB, crashed, upVars, rpcVars>>

\* Faulty variant: the StateDB is left to the first request.
FirstForkLazy ==
    /\ Alive
    /\ main = "prepare"
    /\ bn' = Wanted
    /\ SetVMContext(Wanted)
    /\ main' = "prefetch"
    /\ UNCHANGED <<chainVars, optVars, stateDB, crashed, upVars, rpcVars>>

\* Prepare gets its header, makes the StateDB and begins InitState.
FirstFork ==
    /\ Alive
    /\ main = "prepare"
    /\ bn' = Wanted
    /\ SetVMContext(Wanted)
    /\ stateDB' = TRUE
    /\ main' = "prefetch"
    /\ UNCHANGED <<chainVars, optVars, crashed, upVars, rpcVars>>

\* ... or gets none, and main dies of the nil header.
NoFirstHeader ==
    /\ Alive
    /\ main = "prepare"
    /\ "header" \in Faults
    /\ crashed' = "header"
    /\ UNCHANGED <<chainVars, ctxVars, optVars, main, stateDB, upVars, rpcVars>>

\* The process is started again; nothing of its state is kept.
Restart ==
    /\ ~Alive
    /\ crashed' = "no"
    /\ main' = "dial"
    /\ stateDB' = FALSE
    /\ bn' = IF pinBlock THEN PinHeight ELSE 0
    /\ NewContext
    /\ delta' = 0 /\ timeDelta' = 0
    /\ upc' = "off"
    /\ uheader' = None
    /\ polling' = FALSE /\ announced' = 0 /\ missed' = FALSE
    /\ UNCHANGED <<chainVars, pinBlock, rpcVars>>

\* Faulty variant: dial again after every Prepare.
PrefetchedRedial ==
    /\ Alive
    /\ main = "prefetch"
    /\ main' = "dial"
    /\ UNCHANGED <<chainVars, ctxVars, optVars, stateDB, crashed, upVars, rpcVars>>

Prefetched ==
    /\ Alive
    /\ main = "prefetch"
    /\ main' = "attach"
    /\ UNCHANGED <<chainVars, ctxVars, optVars, stateDB, crashed, upVars, rpcVars>>

\* InitState panics in main.
FirstPrefetchPanics ==
    /\ Alive
    /\ main = "prefetch"
    /\ "prefetch" \in Faults
    /\ crashed' = "prefetch"
    /\ UNCHANGED <<chainVars, ctxVars, optVars, main, stateDB, upVars, rpcVars>>

\* stack.Start, stack.Attach, SelfClient is set.
Attach ==
    /\ Alive
    /\ main = "attach"
    /\ main' = "serve"
    /\ UNCHANGED <<chainVars, ctxVars, optVars, stateDB, crashed, upVars, rpcVars>>

Start == \/ Dial \/ Redial \/ FirstFork \/ NoFirstHeader \/ Restart
         \/ Prefetched \/ FirstPrefetchPanics \/ Attach

-----------------------------------------------------------------------------
(* updatePendingBN. *)

\* The five-second ticker, unless a subscription stopped it: setVMContext
\* fetches its header.  (Without one it changes nothing.)
Tick ==
    /\ Alive
    /\ upc = "select"
    /\ polling
    /\ uheader' = head
    /\ upc' = "update"
    /\ UNCHANGED <<chainVars, ctxVars, optVars, mainVars, subVars, rpcVars>>

\* The select takes an announced head: setVMContext asks for the latest one.
TakeHead ==
    /\ Alive
    /\ upc = "select"
    /\ announced > 0
    /\ announced' = announced - 1
    /\ uheader' = head
    /\ missed' = FALSE
    /\ upc' = "update"
    /\ UNCHANGED <<chainVars, ctxVars, optVars, mainVars, polling, rpcVars>>

\* ... and gets none: nothing asks again before the next head.
TakeHeadFails ==
    /\ Alive
    /\ upc = "select"
    /\ announced > 0
    /\ "header" \in Faults
    /\ announced' = announced - 1
    /\ missed' = TRUE
    /\ UNCHANGED <<chainVars, ctxVars, optVars, mainVars, upc, uheader, polling, rpcVars>>

\* The context has no numbers to set before Prepare made it: a nil
\* dereference in a goroutine.
UpdateContext ==
    /\ Alive
    /\ upc = "update"
    /\ IF stateDB
       THEN SetVMContext(uheader) /\ UNCHANGED crashed
       ELSE crashed' = "context" /\ UNCHANGED vmContext
    /\ upc' = "select"
    /\ uheader' = None
    /\ UNCHANGED <<chainVars, bn, optVars, main, stateDB, subVars, rpcVars>>

\* The ten-second ticker found its state missing: the updater calls
\* mfer_reExecTxPool on the node itself, through SelfClient.
SelfCall ==
    /\ Alive
    /\ upc = "select"
    /\ stateDB
    /\ main = "serve" \/ "slowStart" \in Faults
    /\ IF main = "serve"
       THEN upc' = "reExec" /\ UNCHANGED crashed
       ELSE crashed' = "check" /\ UNCHANGED upc
    /\ UNCHANGED <<chainVars, ctxVars, optVars, main, stateDB, uheader, subVars, rpcVars>>

\* Faulty variant: the height of the context is checked, not the fork's.
CheckMissingContext == number <= lost /\ SelfCall

\* The check asks for the zero address's balance at the forked height; a
\* pruned one gives "missing trie node" or an empty balance.
CheckMissing == bn <= lost /\ SelfCall

\* A balance that is empty for another reason, or any other error, counts
\* as missing too.
CheckMisread == bn > lost /\ "zeroBalance" \in Faults /\ SelfCall

\* ReExecTxPool's Prepare: the context is zeroed and the header fetched.
ReExecFetch ==
    /\ upc = "reExec"
    /\ NewContext
    /\ uheader' = Wanted
    /\ upc' = "fork"
    /\ UNCHANGED <<chainVars, bn, optVars, mainVars, subVars, rpcVars>>

\* ChainID fails and nothing is done, or the header is missing and the
\* request panics with the context zeroed.
ReExecFails ==
    /\ upc = "reExec"
    /\ \/ "chain" \in Faults /\ UNCHANGED vmContext
       \/ "header" \in Faults /\ NewContext
    /\ upc' = "select"
    /\ UNCHANGED <<chainVars, bn, optVars, mainVars, uheader, subVars, rpcVars>>

\* The rest of Prepare: the context, the height, InitState.  A panic there
\* ends the request, which the server recovers; all of this is done by then.
ReExecFork ==
    /\ upc = "fork"
    /\ SetVMContext(uheader)
    /\ bn' = uheader
    /\ upc' = "select"
    /\ uheader' = None
    /\ UNCHANGED <<chainVars, optVars, mainVars, subVars, rpcVars>>

Updater == \/ Tick \/ TakeHead \/ TakeHeadFails \/ UpdateContext
           \/ CheckMissing \/ CheckMisread
           \/ ReExecFetch \/ ReExecFails \/ ReExecFork

-----------------------------------------------------------------------------
(* A request. *)

Serving == Alive /\ main = "serve"

\* eth_call with a block number (CallLocal): its header goes into the
\* context all requests share.  Without a header the context is kept.
CallAt(n) ==
    /\ Serving
    /\ n <= head
    /\ SetVMContextByBlockHeader(n)
    /\ UNCHANGED <<chainVars, bn, optVars, mainVars, upVars, rpcVars>>

SetBlockNumberDelta(d) ==
    /\ Serving
    /\ delta' = d
    /\ UNCHANGED <<timeDelta, pinBlock, chainVars, ctxVars, mainVars, upVars, rpcVars>>

SetTimeDelta(d) ==
    /\ Serving
    /\ timeDelta' = d
    /\ UNCHANGED <<delta, pinBlock, chainVars, ctxVars, mainVars, upVars, rpcVars>>

\* RunTxWithDifferentContext adds one to the time (and to the difficulty) of
\* its copy of the context, which shares the numbers with the node's.
RunTxWithDifferentContext ==
    /\ Serving
    /\ time < MaxTime
    /\ time' = time + 1
    /\ UNCHANGED <<chainVars, bn, number, optVars, mainVars, upVars, rpcVars>>

\* traceBlocks on block b: first Prepare.
TraceFetch(b) ==
    /\ Serving
    /\ rpc = "idle"
    /\ b <= head
    /\ target' = b
    /\ rheader' = Wanted
    /\ NewContext
    /\ rpc' = "prepared"
    /\ UNCHANGED <<chainVars, bn, optVars, mainVars, upVars>>

\* ... which panics without a header, the context zeroed ...
TraceNoHeader ==
    /\ Serving
    /\ rpc = "idle"
    /\ "header" \in Faults
    /\ NewContext
    /\ UNCHANGED <<chainVars, bn, optVars, mainVars, upVars, rpcVars>>

\* ... whose error is not looked at ...
TraceChainErr(b) ==
    /\ Serving
    /\ rpc = "idle"
    /\ b <= head
    /\ "chain" \in Faults
    /\ target' = b
    /\ rpc' = "context"
    /\ UNCHANGED <<chainVars, ctxVars, optVars, mainVars, upVars, rheader>>

\* ... the rest of Prepare, in which InitState may panic ...
TracePrepared ==
    /\ rpc = "prepared"
    /\ SetVMContext(rheader)
    /\ bn' = rheader
    /\ \/ rpc' = "context" /\ UNCHANGED target
       \/ "prefetch" \in Faults /\ rpc' = "idle" /\ target' = None
    /\ rheader' = None
    /\ UNCHANGED <<chainVars, optVars, mainVars, upVars>>

\* Faulty variant: the height is set whether or not there is a header.
TraceForkFirst ==
    /\ rpc = "context"
    /\ bn' = Pred(target)
    /\ rpc' = "block"
    /\ UNCHANGED <<chainVars, vmContext, optVars, mainVars, upVars, rheader, target>>

\* ... then the parent block's context, its height and InitState, which may
\* panic again ...
TraceFork ==
    /\ rpc = "context"
    /\ Pred(target) <= head
    /\ SetVMContextByBlockHeader(Pred(target))
    /\ bn' = Pred(target)
    /\ \/ rpc' = "block" /\ UNCHANGED target
       \/ "prefetch" \in Faults /\ rpc' = "idle" /\ target' = None
    /\ UNCHANGED <<chainVars, optVars, mainVars, upVars, rheader>>

\* ... then the block's own context, in which its transactions run on a
\* clone.
TraceBlock ==
    /\ rpc = "block"
    /\ SetVMContextByBlockHeader(target)
    /\ rpc' = "executing"
    /\ UNCHANGED <<chainVars, bn, optVars, mainVars, upVars, rheader, target>>

TraceDone ==
    /\ rpc = "executing"
    /\ rpc' = "idle"
    /\ target' = None
    /\ UNCHANGED <<chainVars, ctxVars, optVars, mainVars, upVars, rheader>>

\* No header for the parent (block 0 has none): a panic, before the height
\* is touched.
TracePanics ==
    /\ rpc = "context"
    /\ Pred(target) > head \/ "header" \in Faults
    /\ rpc' = "idle"
    /\ target' = None
    /\ UNCHANGED <<chainVars, ctxVars, optVars, mainVars, upVars, rheader>>

Request ==
    \/ \E n \in 0 .. MaxHead : CallAt(n)
    \/ \E d \in Deltas : SetBlockNumberDelta(d)
    \/ \E d \in TimeDeltas : SetTimeDelta(d)
    \/ RunTxWithDifferentContext
    \/ \E b \in 0 .. MaxHead : TraceFetch(b)
    \/ \E b \in 0 .. MaxHead : TraceChainErr(b)
    \/ TraceNoHeader
    \/ TracePrepared
    \/ TraceFork
    \/ TraceBlock
    \/ TraceDone
    \/ TracePanics

-----------------------------------------------------------------------------

Init ==
    /\ pinBlock \in BOOLEAN
    /\ head = PinHeight
    /\ lost = 0
    /\ bn = IF pinBlock THEN PinHeight ELSE 0
    /\ number = 0 /\ time = 0
    /\ delta = 0 /\ timeDelta = 0
    /\ main = "dial"
    /\ stateDB = FALSE
    /\ crashed = "no"
    /\ upc = "off" /\ uheader = None
    /\ polling = FALSE /\ announced = 0 /\ missed = FALSE
    /\ rpc = "idle" /\ rheader = None /\ target = None

Next == NewHead \/ Prune \/ Start \/ Updater \/ Request

Spec == Init /\ [][Next]_vars

\* The upstream node answers at last when asked again and again, the select
\* serves the tickers that run and the heads that are announced, and a
\* request or a start goes on.  Nothing makes a head come, be announced or
\* have its header found.
Fairness ==
    /\ WF_vars(Dial \/ Prefetched \/ Attach)
    /\ SF_vars(FirstFork)
    /\ SF_vars(Tick)
    /\ SF_vars(TakeHead \/ TakeHeadFails)
    /\ SF_vars(CheckMissing)
    /\ SF_vars(ReExecFetch)
    /\ WF_vars(UpdateContext \/ ReExecFork)
    /\ WF_vars(TracePrepared \/ TraceFork \/ TraceBlock \/ TraceDone \/ TracePanics)

FairSpec == Spec /\ Fairness

-----------------------------------------------------------------------------
(* Properties. *)

\* Every variable keeps its type; in particular the node is never forked at
\* a height the chain does not have, block 0's parent included.
TypeOK ==
    /\ head \in 0 .. MaxHead
    /\ lost \in 0 .. MaxHead
    /\ bn \in 0 .. head
    /\ number \in Nat /\ time \in Nat
    /\ delta \in Deltas /\ timeDelta \in TimeDeltas
    /\ pinBlock \in BOOLEAN
    /\ main \in {"dial", "prepare", "prefetch", "attach", "serve"}
    /\ stateDB \in BOOLEAN
    /\ crashed \in {"no", "header", "prefetch", "context", "check"}
    /\ upc \in {"off", "select", "update", "reExec", "fork"}
    /\ uheader \in (0 .. MaxHead) \cup {None}
    /\ polling \in BOOLEAN /\ announced \in 0 .. MaxHead /\ missed \in BOOLEAN
    /\ rpc \in {"idle", "prepared", "context", "block", "executing"}
    /\ rheader \in (0 .. MaxHead) \cup {None}
    /\ target \in (0 .. MaxHead) \cup {None}

\* "Detect missing state and re-fork": a node that is not pinned does not
\* stay on a height whose state is gone, although a trace may have put it
\* there and any single re-execution may fail.
ReforksWhenMissing == bn <= lost /\ main = "serve" /\ ~pinBlock ~> bn > lost

\* Whatever a request left in the context (eth_call, a trace, a probe that
\* moved its time), and however old the header a tick was holding: the
\* context of a node that polls comes back to the block after the head
\* again and again.  With a subscription the ticker is stopped, and the
\* context comes back only when a head is announced, provided its header
\* and the announcements of the heads after it are not missed; between two
\* heads it stays as the last request left it.
ContextCatchesUp ==
    LET atHead == number = head + 1 + delta /\ time = head + timeDelta
    IN  /\ main = "serve" /\ polling ~> atHead
        /\ main = "serve" /\ announced > 0 ~> atHead \/ missed

\* A start does not hang: however often NewMferEVM has to dial again after a
\* Prepare that failed, the node comes to serve, or the process dies.
StartEnds == main # "serve" ~> main = "serve" \/ ~Alive

\* The updater runs before the context, the state and SelfClient are there
\* and takes the process down when it needs one of them; it never does so
\* once main has come to serve.
ServingSurvives == [][main = "serve" /\ Alive => Alive']_vars
=============================================================================
