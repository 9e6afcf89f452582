--------------------------- MODULE TransactionArgs ---------------------------
(***************************************************************************)
(* Who a request runs as, and what it runs: the wallet options of          *)
(* mferbackend/backend.go and their setters, the argument conversions of   *)
(* mferbackend/ethinternaltypes.go, the impersonating signer, and the      *)
(* requests of rpcapi.go and mferactionapi.go that use them.               *)
(*                                                                         *)
(* Options are plain fields that any request may change while another one  *)
(* is between two reads of them.  Execution is one step here (MferBackend  *)
(* has its interleavings): a transaction is accepted iff its nonce is the  *)
(* sender's next.  Calldata is the sequence of addresses it mentions, and  *)
(* a transaction's hash is its content.                                    *)
(***************************************************************************)
EXTENDS Naturals, Sequences

CONSTANTS
    Accounts,    \* ordinary addresses
    Zero,        \* common.Address{}
    Rand,        \* FAKE_ACCOUNT_RAND
    Rich,        \* FAKE_ACCOUNT_RICH
    ChainID,     \* upstream's chain id
    OtherID,     \* an id given to OverrideChainID
    Clients,     \* goroutines serving RPC calls
    MaxTxs,      \* bound on the pool's length
    Nil

Addresses == Accounts \cup {Zero, Rand, Rich}

ASSUME ArgsAssumption ==
    /\ {Zero, Rand, Rich} \cap Accounts = {} /\ Nil \notin Addresses \cup Seq(Addresses)
    /\ Zero # Rand /\ Zero # Rich /\ Rand # Rich
    /\ ChainID # OtherID /\ Nil \notin {ChainID, OtherID} \cup Nat
    /\ MaxTxs \in Nat

VARIABLES
    randomized, passthrough, impersonated, override,  \* fields of MferBackend
    nonces,    \* the node's state: address -> nonce
    receipts,  \* ... and the hashes it has a receipt for
    txs,       \* pool.txs
    req,       \* client -> the request it serves, or Nil
    ran,       \* what the last eth_call ran and where, or Nil
    authors    \* history: <<hash, account the transaction was made for>>

options == <<randomized, passthrough, impersonated, override>>
stateVars == <<nonces, receipts, txs>>
vars == <<options, stateVars, req, ran, authors>>

-----------------------------------------------------------------------------
(* Arguments and their conversions. *)

NoArgs == [from |-> Nil, to |-> Zero, data |-> Nil, input |-> Nil, value |-> Nil, gas |-> Nil,
           gasPrice |-> Nil, maxFee |-> Nil, accessList |-> Nil, nonce |-> Nil]

Senders == Accounts \cup {Nil, Rand}

\* TransactionArgs as a client may send them: sender, and calldata under
\* one name or the other
Plain ==
    UNION {{[NoArgs EXCEPT !.from = f], [NoArgs EXCEPT !.from = f, !.data = <<Rand>>],
            [NoArgs EXCEPT !.from = f, !.input = <<Rand>>]} : f \in Senders}

\* ... and with one of the other fields or both styles of fees.
WithMore(a) ==
    {a, [a EXCEPT !.value = 1], [a EXCEPT !.gas = 0], [a EXCEPT !.gas = 1],
     [a EXCEPT !.gasPrice = 1], [a EXCEPT !.maxFee = 1],
     [a EXCEPT !.gasPrice = 1, !.maxFee = 1], [a EXCEPT !.accessList = <<>>]}

Given(x, default) == IF x = Nil THEN default ELSE x

\* TransactionArgs.data(): input is preferred.
CallData(args) == Given(args.input, Given(args.data, <<>>))

\* math.MaxUint64 / 2, and a third of the block's gas: two amounts that no
\* client gives.
CallGas == 3
SendGas == 2

\* ToMessage(0, nil): there is no base fee, so the 1559 fields only count
\* in the check.
ToMessage(args) ==
    IF args.gasPrice # Nil /\ args.maxFee # Nil THEN Nil
    ELSE [from |-> Given(args.from, Zero), to |-> args.to, nonce |-> Given(args.nonce, 0),
          value |-> Given(args.value, 0), gas |-> Given(args.gas, CallGas),
          price |-> Given(args.gasPrice, 0), data |-> CallData(args), fake |-> TRUE]

\* toTransaction.
ToTransaction(args) ==
    [type   |-> IF args.maxFee # Nil THEN 2 ELSE IF args.accessList # Nil THEN 1 ELSE 0,
     to     |-> args.to, nonce |-> args.nonce, gas |-> args.gas,
     price  |-> Given(IF args.maxFee # Nil THEN args.maxFee ELSE args.gasPrice, 0),
     value  |-> Given(args.value, 0), data |-> CallData(args)]

MferSignerS == "mferSigner"

\* SetFromSigner.SignatureValues and WithSignature: r is the sender.
SignatureValues(from) == [v |-> 1, r |-> from, s |-> MferSignerS, chain |-> ChainID]

\* A wallet's key signs for a chain id, or for none (Nil): external.
KeySignature(from, chain) == [v |-> 0, r |-> from, s |-> "ecdsa", chain |-> chain]

\* TxToMessage picks the signer by v and s; AsMessage's error is dropped
\* and leaves the zero address.
Sender(sig) ==
    IF sig.v = 1 /\ sig.s = MferSignerS THEN sig.r
    ELSE IF sig.chain \in {Nil, ChainID} THEN sig.r ELSE Zero

TxToMessage(tx) ==
    [from |-> Sender(tx.sig), to |-> tx.body.to, nonce |-> tx.body.nonce,
     value |-> tx.body.value, gas |-> tx.body.gas, price |-> tx.body.price,
     data |-> tx.body.data, fake |-> FALSE]

-----------------------------------------------------------------------------
(* preprocessArgs: From, and then Data, with the account impersonated. *)

ReplaceFrom(args, who) ==
    IF args.from = Rand THEN [args EXCEPT !.from = who] ELSE args

ReplaceData(args, who) ==
    IF args.data = Nil THEN args
    ELSE [args EXCEPT !.data = [i \in DOMAIN @ |-> IF @[i] = Rand THEN who ELSE @[i]]]

PreprocessArgs(args) ==
    IF ~randomized THEN args
    ELSE ReplaceData(ReplaceFrom(args, impersonated), impersonated)

\* SendTransaction after preprocessArgs: sender, fees, gas, nonce, signature.
SendFrom(args) == IF args.from \in {Nil, Zero} THEN impersonated ELSE args.from

Signed(args) ==
    LET from == SendFrom(args)
        full == [args EXCEPT !.gasPrice = 0, !.maxFee = Nil,
                             !.gas = Given(@, SendGas), !.nonce = nonces[from]]
    IN  [body |-> ToTransaction(full), sig |-> SignatureValues(from)]

\* Faulty variant: the nonce the client gave is kept.
EstimatedStale(args) == ToMessage([args EXCEPT !.gasPrice = Nil])

\* EstimateGas after preprocessArgs.
Estimated(args) ==
    ToMessage([args EXCEPT !.gasPrice = Nil, !.nonce = nonces[Given(args.from, Zero)]])

\* toCallArg: the fields the passthrough forwards.
ToCallArg(args) ==
    [from |-> args.from, to |-> args.to,
     data |-> IF args.data = <<>> THEN Nil ELSE args.data,
     value |-> args.value, gas |-> IF args.gas = 0 THEN Nil ELSE args.gas,
     gasPrice |-> args.gasPrice]

\* What upstream's eth_call runs for it: external.
UpstreamMessage(arg) ==
    [from |-> Given(arg.from, Zero), to |-> arg.to, value |-> Given(arg.value, 0),
     price |-> Given(arg.gasPrice, 0), data |-> Given(arg.data, <<>>)]

-----------------------------------------------------------------------------
(* Option setters.  History of a request in flight: the accounts           *)
(* impersonated and the modes (randomized or not) since it arrived.        *)

Moved == req' = [c \in Clients |->
                   IF req[c] = Nil THEN Nil
                   ELSE [req[c] EXCEPT !.who = @ \cup {impersonated'}, !.modes = @ \cup {randomized'}]]

Impersonate(account) ==
    /\ impersonated' = account /\ randomized' = randomized
    /\ Moved
    /\ UNCHANGED <<passthrough, override, stateVars, authors>>

ToggleRandAddr ==
    /\ randomized' = ~randomized /\ impersonated' = impersonated
    /\ Moved
    /\ UNCHANGED <<passthrough, override, stateVars, authors>>

TogglePassthrough ==
    /\ passthrough' = ~passthrough
    /\ UNCHANGED <<randomized, impersonated, override, stateVars, req, authors>>

\* OverrideChainID(0) resets.
OverrideChainID ==
    /\ override' = IF override = Nil THEN OtherID ELSE Nil
    /\ UNCHANGED <<randomized, passthrough, impersonated, stateVars, req, authors>>

-----------------------------------------------------------------------------
(* Requests. *)

\* Faulty variant: the nonce is moved by the handler and by ApplyMessage.
ExecutedTwice(state, tx) ==
    LET from == Sender(tx.sig)
    IN  IF tx.body.nonce # state.nonces[from] THEN state
        ELSE [nonces   |-> [state.nonces EXCEPT ![from] = @ + 2],
              receipts |-> state.receipts \cup {tx}]

\* ExecuteTxs on [nonces, receipts] for one transaction.
Executed(state, tx) ==
    LET from == Sender(tx.sig)
    IN  IF tx.body.nonce # state.nonces[from] THEN state
        ELSE [nonces   |-> [state.nonces EXCEPT ![from] = @ + 1],
              receipts |-> state.receipts \cup {tx}]

Execute(list, state) ==
    LET after[n \in 0 .. Len(list)] == IF n = 0 THEN state ELSE Executed(after[n - 1], list[n])
    IN  nonces' = after[Len(list)].nonces /\ receipts' = after[Len(list)].receipts

\* ExecuteTxs and AddTx.
RunAndAdd(tx, who) ==
    /\ Len(txs) < MaxTxs
    /\ Execute(<<tx>>, [nonces |-> nonces, receipts |-> receipts])
    /\ txs' = Append(txs, tx)
    /\ authors' = authors \cup {<<tx, who>>}

\* eth_sendTransaction (bound: without calldata, so that the pool stays
\* small) and eth_call arrive; Call reads Passthrough.
Begin(c, kind, args) ==
    /\ req[c] = Nil
    /\ kind = "send" => args.data = Nil /\ args.input = Nil
    /\ req' = [req EXCEPT ![c] = [kind |-> kind, args |-> args, asked |-> args, step |-> "from",
                                  who |-> {impersonated}, modes |-> {randomized},
                                  forward |-> kind = "call" /\ passthrough]]
    /\ UNCHANGED <<options, stateVars, authors>>

\* Faulty variant: the sender is left alone.
PreprocessFromNot(c) ==
    /\ req[c] # Nil /\ req[c].step = "from"
    /\ req' = [req EXCEPT ![c].step = IF randomized THEN "data" ELSE "run"]
    /\ UNCHANGED <<options, stateVars, authors>>

\* The first half of preprocessArgs.
PreprocessFrom(c) ==
    /\ req[c] # Nil /\ req[c].step = "from"
    /\ req' = [req EXCEPT ![c] =
                 IF randomized THEN [req[c] EXCEPT !.args = ReplaceFrom(@, impersonated), !.step = "data"]
                 ELSE [req[c] EXCEPT !.step = "run"]]
    /\ UNCHANGED <<options, stateVars, authors>>

\* The second half.
PreprocessData(c) ==
    /\ req[c] # Nil /\ req[c].step = "data"
    /\ req' = [req EXCEPT ![c] = [req[c] EXCEPT !.args = ReplaceData(@, impersonated), !.step = "run"]]
    /\ UNCHANGED <<options, stateVars, authors>>

\* The rest of SendTransaction, under the lock.
SendTransaction(c) ==
    /\ req[c] # Nil /\ req[c].step = "run" /\ req[c].kind = "send"
    /\ RunAndAdd(Signed(req[c].args), SendFrom(req[c].args))
    /\ req' = [req EXCEPT ![c] = Nil]
    /\ UNCHANGED <<options>>

\* The rest of CallPassthrough or CallLocal.
Call(c) ==
    /\ req[c] # Nil /\ req[c].step = "run" /\ req[c].kind = "call"
    /\ ran' = [asked |-> req[c].asked, who |-> req[c].who, modes |-> req[c].modes,
               forward |-> req[c].forward,
               msg |-> IF req[c].forward THEN UpstreamMessage(ToCallArg(req[c].args))
                       ELSE LET m == ToMessage(req[c].args)
                            IN  [from |-> m.from, to |-> m.to, value |-> m.value,
                                 price |-> m.price, data |-> m.data]]
    /\ req' = [req EXCEPT ![c] = Nil]
    /\ UNCHANGED <<options, stateVars, authors>>

\* PrintMoney: SendTransaction through SelfClient; Rich is never replaced.
PrintMoney(account) ==
    /\ RunAndAdd(Signed([NoArgs EXCEPT !.from = Rich, !.to = account, !.value = 1]), Rich)
    /\ UNCHANGED <<options, req>>

\* ChainId.
ChainIdAnswer == Given(override, ChainID)

\* SendRawTransaction, from a wallet that signs for the chain id it was
\* told or without one, with the nonce it was told (GetTransactionCount).
SendRawTransaction(from, chain) ==
    /\ chain \in {Nil, ChainIdAnswer}
    /\ RunAndAdd([body |-> [type |-> 0, to |-> Zero, nonce |-> nonces[from], gas |-> 1,
                            price |-> 0, value |-> 0, data |-> <<>>],
                  sig  |-> KeySignature(from, chain)], from)
    /\ UNCHANGED <<options, req>>

Fresh == [nonces |-> [a \in Addresses |-> 0], receipts |-> {}]

\* ResetState, or ReExecTxPool of the whole pool.
Reset(list) ==
    /\ Execute(list, Fresh)
    /\ UNCHANGED <<options, txs, req, authors>>

ClearTxPool ==
    /\ txs # <<>>
    /\ nonces' = Fresh.nonces /\ receipts' = {}
    /\ txs' = <<>>
    /\ authors' = {}
    /\ UNCHANGED <<options, req>>

-----------------------------------------------------------------------------
(* Queries. *)

\* Accounts: the first account offered to a wallet (four fake ones follow).
FirstAccount == IF randomized THEN Rand ELSE impersonated

\* pool.GetTransactionByHash: the first one.
Find(hash) == CHOOSE i \in DOMAIN txs : txs[i] = hash /\ \A j \in DOMAIN txs : txs[j] = hash => i <= j

\* newRPCTransaction: recovers the signer of a key's signature; the node's
\* own signature is not valid and leaves the zero address.
NewRPCTransaction(tx, index) ==
    [index |-> index, hash |-> tx, nonce |-> tx.body.nonce, input |-> tx.body.data,
     from |-> IF tx.sig.s = MferSignerS THEN Zero ELSE tx.sig.r]

\* Faulty variant: the sender as in a receipt.
GetTransactionByHashNow(hash) ==
    [NewRPCTransaction(hash, Find(hash)) EXCEPT !.from = impersonated]

\* GetTransactionByHash puts the executed sender over it.
GetTransactionByHash(hash) ==
    [NewRPCTransaction(hash, Find(hash)) EXCEPT !.from = TxToMessage(hash).from]

\* GetTransactionReceipt, where the state has one.
GetTransactionReceipt(hash) ==
    [index |-> Find(hash), from |-> impersonated]

\* RPCMarshalBlock: the hashes of a block's transactions.
RPCMarshalBlock(list) == [transactions |-> [i \in DOMAIN list |-> list[i]]]

\* GetBlockByNumber("latest"): the pool as the next block.
LatestBlock == RPCMarshalBlock(txs)

\* GetTxs.
GetTxs == [i \in DOMAIN txs |-> [idx |-> i, from |-> TxToMessage(txs[i]).from, hash |-> txs[i]]]

-----------------------------------------------------------------------------

Init ==
    /\ randomized \in BOOLEAN /\ passthrough = FALSE
    /\ impersonated \in Accounts /\ override = Nil
    /\ nonces = Fresh.nonces /\ receipts = {} /\ txs = <<>>
    /\ req = [c \in Clients |-> Nil]
    /\ ran = Nil
    /\ authors = {}

\* ran is the answer of the last step only.
Next ==
    \/ /\ ran' = Nil
       /\ \/ \E a \in Accounts : Impersonate(a)
          \/ ToggleRandAddr
          \/ TogglePassthrough
          \/ OverrideChainID
          \/ \E c \in Clients, kind \in {"send", "call"}, args \in Plain : Begin(c, kind, args)
          \/ \E c \in Clients : PreprocessFrom(c) \/ PreprocessData(c) \/ SendTransaction(c)
          \/ \E a \in Accounts : PrintMoney(a)
          \/ \E a \in Accounts, chain \in {Nil, ChainID, OtherID} : SendRawTransaction(a, chain)
          \/ Reset(<<>>)
          \/ Reset(txs)
          \/ ClearTxPool
    \/ \E c \in Clients : Call(c)

Spec == Init /\ [][Next]_vars
-----------------------------------------------------------------------------
(* Properties. *)

Messages == [from : Addresses, to : Addresses \cup {Nil}, value : {0, 1}, price : {0, 1},
             data : Seq(Addresses)]

\* Every variable keeps its type; no transaction carries 1559 fees.
TypeOK ==
    /\ randomized \in BOOLEAN /\ passthrough \in BOOLEAN
    /\ impersonated \in Accounts /\ override \in {Nil, OtherID}
    /\ nonces \in [Addresses -> 0 .. MaxTxs]
    /\ \A i \in DOMAIN txs : /\ txs[i].body.type \in {0, 1} /\ txs[i].body.price = 0
                             /\ txs[i].body.nonce \in 0 .. MaxTxs
                             /\ txs[i].sig.r \in Addresses
    /\ receipts \subseteq {txs[i] : i \in DOMAIN txs}
    /\ \A c \in Clients : req[c] # Nil => req[c].args.from \in Addresses \cup {Nil}
    /\ ran # Nil => ran.msg \in Messages

\* A hash given to a wallet keeps naming the account the transaction was
\* made for and its place in the pending block, whoever is impersonated or
\* randomized later; only a raw transaction signed for an overridden chain
\* id runs as the zero account.  (TxToMessage, GetTransactionByHash, GetTxs.
\* A receipt has the right place, but names whoever is impersonated when it
\* is asked for.)
HashNamesAuthor ==
    \A i \in DOMAIN txs :
        LET tx    == txs[i]
            found == GetTransactionByHash(tx)
        IN  /\ \A p \in authors :
                 p[1] = tx => found.from = IF tx.sig.chain = OtherID THEN Zero ELSE p[2]
            /\ GetTxs[i].from = found.from
            /\ found.index <= i
            /\ LatestBlock.transactions[found.index] = tx
            /\ tx \in receipts => GetTransactionReceipt(tx).index = found.index

SameCall(m, n) == m.from = n.from /\ m.to = n.to /\ m.value = n.value /\ m.data = n.data

\* Under every setting of the options the paths the same arguments can take
\* agree: the estimate runs the message the transaction will, a local call
\* the same one, and a forwarded call too unless it uses "input".  The
\* estimate and the call of a request without sender run as the zero
\* account, the transaction as the impersonated one.  The account offered
\* first runs as the impersonated one.
ViewsAgree ==
    \A c \in {d \in Clients : req[d] # Nil} : \A asked \in WithMore(req[c].asked) :
        LET args  == PreprocessArgs(asked)
            local == ToMessage(args)
            sent  == TxToMessage(Signed(args))
            est   == Estimated(args)
        IN  /\ asked.from = FirstAccount => sent.from = impersonated
            /\ args.from \notin {Nil, Zero} => SameCall(est, sent) /\ est.nonce = sent.nonce
            /\ local # Nil => /\ SameCall(local, est)
                              /\ args.input = Nil => SameCall(UpstreamMessage(ToCallArg(args)), local)

\* The account in the place of x while w is impersonated.
StandsFor(x, w) == IF x = Rand THEN w ELSE x

\* A call ran with v as its sender and w in its calldata for the random
\* address.
RunsAs(call, v, w) ==
    LET data == Given(call.asked.data, <<>>)
    IN  /\ call.msg.from = StandsFor(Given(call.asked.from, Zero), v)
        /\ call.msg.data = IF call.forward \/ call.asked.input = Nil
                           THEN [i \in DOMAIN data |-> StandsFor(data[i], w)]
                           ELSE call.asked.input

\* Whatever options move while a call is preprocessed, the random address is
\* replaced in both places or in none, as the mode was at one time: as its
\* sender by one account, and throughout the calldata given as "data" by one
\* account, that were impersonated since the request arrived.  They are the
\* same account unless the impersonation changed.  Calldata given as "input"
\* is not rewritten (preprocessArgs looks at Data only): a local call runs
\* it with the random address in it, as a sender that is somebody else.
OneIdentity ==
    ran # Nil =>
        \/ FALSE \in ran.modes /\ RunsAs(ran, Rand, Rand)
        \/ TRUE \in ran.modes /\ \E v, w \in ran.who : RunsAs(ran, v, w)

\* "We accept data and input": a call forwarded upstream carries the
\* calldata the client gave, under either name.
ForwardedWhole ==
    ran # Nil /\ ran.forward => (CallData(ran.asked) = <<>> <=> ran.msg.data = <<>>)
=============================================================================
