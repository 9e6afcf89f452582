------------------------ MODULE TransactionArgsProofs ------------------------
(***************************************************************************)
(* Proofs about TransactionArgs, for any set of accounts and clients and a *)
(* pool of any length.                                                     *)
(*                                                                         *)
(* Tidy says what the pool, the state and the requests in flight look      *)
(* like, how far the conversion of each of them is, and that every hash    *)
(* given out still leads to the account it was made for.  TypeOK,          *)
(* HashNamesAuthor and ViewsAgree follow from it; OneIdentity is an answer *)
(* of one step, from a Tidy state.                                         *)
(***************************************************************************)
EXTENDS TransactionArgs, InductionLemmas

Calldata == Seq(Addresses)

\* Arguments of a request, at any stage.
Args ==
    [from : Addresses \cup {Nil}, to : Addresses, data : Calldata \cup {Nil},
     input : Calldata \cup {Nil}, value : {Nil, 1}, gas : {Nil, 0, 1}, gasPrice : {Nil, 0, 1},
     maxFee : {Nil, 1}, accessList : {Nil, <<>>}, nonce : {Nil}]

\* Arguments that leave everything but sender and calldata open.
BareArgs ==
    {a \in Args : a.to = Zero /\ a.value = Nil /\ a.gas = Nil /\ a.gasPrice = Nil /\ a.maxFee = Nil
                  /\ a.accessList = Nil}

Bodies == [type : {0, 1}, to : Addresses, nonce : 0 .. MaxTxs, gas : {0, 1, SendGas}, price : {0},
           value : {0, 1}, data : Calldata]

Signatures == [v : {0, 1}, r : Addresses, s : {MferSignerS, "ecdsa"}, chain : {ChainID, OtherID, Nil}]

Transactions == [body : Bodies, sig : Signatures]

\* The options have their types.
OptionsOK ==
    /\ randomized \in BOOLEAN /\ passthrough \in BOOLEAN
    /\ impersonated \in Accounts /\ override \in {Nil, OtherID}

\* No account has used more nonces than there are transactions.
PoolOK ==
    /\ txs \in Seq(Transactions) /\ Len(txs) <= MaxTxs
    /\ nonces \in [Addresses -> 0 .. Len(txs)]
    /\ receipts \subseteq {txs[i] : i \in DOMAIN txs}

\* What the node made of the arguments so far, with options as they were at
\* some time since the request arrived.
Prepared(q) ==
    \/ q.step = "from" /\ q.args = q.asked
    \/ q.step = "data" /\ TRUE \in q.modes /\ \E v \in q.who : q.args = ReplaceFrom(q.asked, v)
    \/ q.step = "run" /\ FALSE \in q.modes /\ q.args = q.asked
    \/ /\ q.step = "run" /\ TRUE \in q.modes
       /\ \E v, w \in q.who : q.args = ReplaceData(ReplaceFrom(q.asked, v), w)

Requests == [kind : {"send", "call"}, args : BareArgs, asked : Plain, step : {"from", "data", "run"},
             who : SUBSET Accounts, modes : SUBSET BOOLEAN, forward : BOOLEAN]

\* The options as they are have been seen.
Watched(q) == impersonated \in q.who /\ randomized \in q.modes

RequestOK(q) == q \in Requests /\ Prepared(q) /\ Watched(q)

RequestsOK ==
    /\ DOMAIN req = Clients
    /\ \A c \in Clients : req[c] # Nil => RequestOK(req[c])

\* A hash leads to the account the transaction was made for, or to the zero
\* account if a wallet signed it for an overridden chain id.
AuthorsOK ==
    \A p \in authors : Sender(p[1].sig) = IF p[1].sig.chain = OtherID THEN Zero ELSE p[2]

RanOK == ran # Nil => ran.msg \in Messages

Tidy == OptionsOK /\ PoolOK /\ RequestsOK /\ AuthorsOK /\ RanOK

-----------------------------------------------------------------------------
(* Arguments. *)

LEMMA Names ==
    /\ Accounts \subseteq Addresses /\ Zero \in Addresses /\ Rand \in Addresses /\ Rich \in Addresses
    /\ Zero \notin Accounts /\ Rand \notin Accounts /\ Rich \notin Accounts /\ Nil \notin Addresses
    /\ Zero # Rand /\ Zero # Rich /\ Rand # Rich
    /\ ChainID # OtherID /\ Nil # ChainID /\ Nil # OtherID /\ MaxTxs \in Nat
BY ArgsAssumption DEF Addresses

LEMMA NilNoCalldata == Nil \notin Calldata
BY ArgsAssumption DEF Calldata

LEMMA NilNoNumber == \A n \in Nat : n # Nil
BY ArgsAssumption

\* BareArgs, as a set of records.
LEMMA BareFields ==
    ASSUME NEW a
    PROVE  a \in BareArgs <=>
             a \in [from : Addresses \cup {Nil}, to : {Zero}, data : Calldata \cup {Nil},
                    input : Calldata \cup {Nil}, value : {Nil}, gas : {Nil}, gasPrice : {Nil},
                    maxFee : {Nil}, accessList : {Nil}, nonce : {Nil}]
BY Names DEF BareArgs, Args

LEMMA OneRand == <<Rand>> \in Calldata
BY Names DEF Calldata

LEMMA NoArgsBare == NoArgs \in BareArgs
BY BareFields DEF NoArgs

LEMMA WithFrom ==
    ASSUME NEW a \in BareArgs, NEW f \in Addresses \cup {Nil}
    PROVE  [a EXCEPT !.from = f] \in BareArgs
BY BareFields

LEMMA WithData ==
    ASSUME NEW a \in BareArgs, NEW d \in Calldata
    PROVE  [a EXCEPT !.data = d] \in BareArgs
BY BareFields

LEMMA WithInput ==
    ASSUME NEW a \in BareArgs, NEW d \in Calldata
    PROVE  [a EXCEPT !.input = d] \in BareArgs
BY BareFields

LEMMA SendersType == Senders \subseteq Addresses \cup {Nil}
BY Names DEF Senders

LEMMA PlainForms ==
    ASSUME NEW a \in Plain
    PROVE  \E f \in Senders : \/ a = [NoArgs EXCEPT !.from = f]
                              \/ a = [NoArgs EXCEPT !.from = f, !.data = <<Rand>>]
                              \/ a = [NoArgs EXCEPT !.from = f, !.input = <<Rand>>]
BY DEF Plain

LEMMA PlainBare == Plain \subseteq BareArgs
<1>. SUFFICES ASSUME NEW a \in Plain PROVE a \in BareArgs
  OBVIOUS
<1>1. PICK f \in Senders : \/ a = [NoArgs EXCEPT !.from = f]
                           \/ a = [NoArgs EXCEPT !.from = f, !.data = <<Rand>>]
                           \/ a = [NoArgs EXCEPT !.from = f, !.input = <<Rand>>]
  BY PlainForms
<1>2. f \in Addresses \cup {Nil}
  BY SendersType
<1>3. [NoArgs EXCEPT !.from = f] \in BareArgs
  BY <1>2, NoArgsBare, WithFrom
<1>4. [NoArgs EXCEPT !.from = f, !.data = <<Rand>>] \in BareArgs
  BY <1>2, OneRand, BareFields DEF NoArgs
<1>5. [NoArgs EXCEPT !.from = f, !.input = <<Rand>>] \in BareArgs
  BY <1>2, OneRand, BareFields DEF NoArgs
<1>. QED
  BY <1>1, <1>3, <1>4, <1>5

LEMMA BareArgsArgs == BareArgs \subseteq Args
BY DEF BareArgs

LEMMA WithMoreType ==
    ASSUME NEW a \in BareArgs, NEW b \in WithMore(a)
    PROVE  b \in Args /\ b.from = a.from /\ b.data = a.data /\ b.input = a.input
<1>1. a \in Args
  BY BareArgsArgs
<1>. QED
  BY <1>1, ZenonT(40) DEF WithMore, Args

LEMMA ReplaceFromType ==
    ASSUME NEW a \in BareArgs, NEW w \in Accounts
    PROVE  /\ ReplaceFrom(a, w) \in BareArgs
           /\ ReplaceFrom(a, w).from = IF a.from = Rand THEN w ELSE a.from
           /\ ReplaceFrom(a, w).data = a.data /\ ReplaceFrom(a, w).input = a.input
<1>1. w \in Addresses \cup {Nil}
  BY Names
<1>2. [a EXCEPT !.from = w] \in BareArgs
  BY <1>1, WithFrom
<1>3. /\ [a EXCEPT !.from = w].from = w /\ [a EXCEPT !.from = w].data = a.data
      /\ [a EXCEPT !.from = w].input = a.input
  BY BareFields
<1>. QED
  BY <1>2, <1>3 DEF ReplaceFrom

\* Calldata with one account in the place of the random address.
LEMMA MappedData ==
    ASSUME NEW d \in Calldata, NEW w \in Accounts
    PROVE  [i \in DOMAIN d |-> IF d[i] = Rand THEN w ELSE d[i]] \in Calldata
<1>1. /\ Len(d) \in Nat /\ DOMAIN d = 1 .. Len(d) /\ \A i \in 1 .. Len(d) : d[i] \in Addresses
  BY DEF Calldata
<1>2. w \in Addresses
  BY Names
<1>3. [i \in DOMAIN d |-> IF d[i] = Rand THEN w ELSE d[i]] \in [1 .. Len(d) -> Addresses]
  BY <1>1, <1>2
<1>. QED
  BY <1>1, <1>3 DEF Calldata

LEMMA ReplaceDataType ==
    ASSUME NEW a \in BareArgs, NEW w \in Accounts
    PROVE  /\ ReplaceData(a, w) \in BareArgs
           /\ ReplaceData(a, w).from = a.from /\ ReplaceData(a, w).input = a.input
           /\ ReplaceData(a, w).data = IF a.data = Nil THEN Nil
                                       ELSE [i \in DOMAIN a.data |-> IF a.data[i] = Rand THEN w
                                                                     ELSE a.data[i]]
<1>1. CASE a.data = Nil
  BY <1>1 DEF ReplaceData
<1>2. CASE a.data # Nil
  <2>. DEFINE d == [i \in DOMAIN a.data |-> IF a.data[i] = Rand THEN w ELSE a.data[i]]
  <2>1. a.data \in Calldata
    BY <1>2, BareFields
  <2>2. d \in Calldata
    BY <2>1, MappedData
  <2>3. ReplaceData(a, w) = [a EXCEPT !.data = d]
    BY <1>2 DEF ReplaceData
  <2>. HIDE DEF d
  <2>4. [a EXCEPT !.data = d] \in BareArgs
    BY <2>2, WithData
  <2>5. /\ [a EXCEPT !.data = d].data = d /\ [a EXCEPT !.data = d].from = a.from
        /\ [a EXCEPT !.data = d].input = a.input
    BY BareFields
  <2>. QED
    BY <1>2, <2>3, <2>4, <2>5 DEF d
<1>. QED
  BY <1>1, <1>2

-----------------------------------------------------------------------------
(* Transactions and their execution. *)

LEMMA SenderType == ASSUME NEW g \in Signatures PROVE Sender(g) \in Addresses
BY Names DEF Sender, Signatures

\* An impersonated transaction runs as the account it is signed for.
LEMMA SignatureSender ==
    ASSUME NEW f \in Addresses
    PROVE  /\ SignatureValues(f) \in Signatures /\ SignatureValues(f).chain # OtherID
           /\ Sender(SignatureValues(f)) = f
BY Names DEF SignatureValues, Signatures, Sender, MferSignerS

LEMMA KeySender ==
    ASSUME NEW f \in Addresses, NEW chain \in {Nil, ChainID, OtherID}
    PROVE  /\ KeySignature(f, chain) \in Signatures
           /\ Sender(KeySignature(f, chain)) =
                IF KeySignature(f, chain).chain = OtherID THEN Zero ELSE f
BY Names DEF KeySignature, Signatures, Sender, MferSignerS

LEMMA CallDataType == ASSUME NEW a \in Args PROVE CallData(a) \in Calldata
BY DEF CallData, Given, Args, Calldata

LEMMA SendFromType ==
    ASSUME NEW a \in Args, impersonated \in Accounts
    PROVE  SendFrom(a) \in Addresses \ {Nil, Zero}
BY Names DEF SendFrom, Args

\* What SendTransaction makes of its arguments.
LEMMA SignedForm ==
    ASSUME NEW a \in Args, OptionsOK, PoolOK
    PROVE  /\ Signed(a) \in Transactions
           /\ Signed(a).sig = SignatureValues(SendFrom(a))
           /\ Signed(a).body.to = a.to /\ Signed(a).body.value = Given(a.value, 0)
           /\ Signed(a).body.data = CallData(a) /\ Signed(a).body.nonce = nonces[SendFrom(a)]
<1>. DEFINE from == SendFrom(a)
            full == [a EXCEPT !.gasPrice = 0, !.maxFee = Nil,
                              !.gas = Given(a.gas, SendGas), !.nonce = nonces[from]]
<1>1. from \in Addresses
  BY SendFromType DEF OptionsOK
<1>2. Signed(a) = [body |-> ToTransaction(full), sig |-> SignatureValues(from)]
  BY DEF Signed
<1>3. nonces[from] \in 0 .. MaxTxs
  BY <1>1, Names DEF PoolOK
<1>. HIDE DEF from
<1>4. /\ full.gasPrice = 0 /\ full.maxFee = Nil /\ full.gas = Given(a.gas, SendGas)
      /\ full.nonce = nonces[from] /\ full.to = a.to /\ full.value = a.value
      /\ full.input = a.input /\ full.data = a.data /\ full.accessList = a.accessList
  BY DEF Args
<1>. HIDE DEF full
<1>5. CallData(full) = CallData(a)
  BY <1>4 DEF CallData
<1>6. ToTransaction(full) = [type |-> IF a.accessList # Nil THEN 1 ELSE 0, to |-> a.to,
                             nonce |-> nonces[from], gas |-> Given(a.gas, SendGas),
                             price |-> Given(0, 0), value |-> Given(a.value, 0),
                             data |-> CallData(a)]
  BY <1>4, <1>5 DEF ToTransaction
<1>7. /\ Given(a.gas, SendGas) \in {0, 1, SendGas} /\ Given(0, 0) = 0 /\ Given(a.value, 0) \in {0, 1}
      /\ a.to \in Addresses
  BY DEF Given, Args
<1>8. ToTransaction(full) \in Bodies
  BY <1>3, <1>6, <1>7, CallDataType DEF Bodies
<1>9. SignatureValues(from) \in Signatures
  BY <1>1, SignatureSender
<1>10. Signed(a) \in Transactions
  BY <1>2, <1>8, <1>9 DEF Transactions
<1>. QED
  BY <1>2, <1>6, <1>10 DEF from

\* States in which at most n nonces of an account are used and receipts are
\* of R.
States(n, R) == [nonces : [Addresses -> 0 .. n], receipts : SUBSET R]

\* One transaction uses at most one nonce and leaves at most its receipt.
LEMMA ExecutedStep ==
    ASSUME NEW n \in Nat, NEW R, NEW st \in States(n, R), NEW tx \in Transactions
    PROVE  Executed(st, tx) \in States(n + 1, R \cup {tx})
<1>0. st \in [nonces : [Addresses -> 0 .. n], receipts : SUBSET R]
  BY DEF States
<1>1. Sender(tx.sig) \in Addresses
  BY SenderType DEF Transactions
<1>. DEFINE from == Sender(tx.sig)
<1>2. from \in Addresses
  BY <1>1
<1>. HIDE DEF from
<1>3. /\ st.nonces \in [Addresses -> 0 .. n + 1] /\ st.receipts \subseteq R \cup {tx}
      /\ [st.nonces EXCEPT ![from] = @ + 1] \in [Addresses -> 0 .. n + 1]
      /\ st.receipts \cup {tx} \subseteq R \cup {tx}
  BY <1>0, <1>2
<1>4. st = [nonces |-> st.nonces, receipts |-> st.receipts]
  BY <1>0
<1>5. st \in [nonces : [Addresses -> 0 .. n + 1], receipts : SUBSET (R \cup {tx})]
  BY <1>3, <1>4
<1>6. [nonces |-> [st.nonces EXCEPT ![from] = @ + 1], receipts |-> st.receipts \cup {tx}]
        \in [nonces : [Addresses -> 0 .. n + 1], receipts : SUBSET (R \cup {tx})]
  BY <1>3
<1>. QED
  BY <1>5, <1>6 DEF Executed, States, from

\* The loop of ExecuteTxs.
After(list, state) ==
    LET after[n \in 0 .. Len(list)] == IF n = 0 THEN state ELSE Executed(after[n - 1], list[n])
    IN  after[Len(list)]

Loops(g, m, list, state) ==
    g = [n \in 0 .. m |-> IF n = 0 THEN state ELSE Executed(g[n - 1], list[n])]

\* The loop has a value for any list.
LEMMA AfterLoop ==
    ASSUME NEW list \in Seq(Transactions), NEW state
    PROVE  \E g : Loops(g, Len(list), list, state) /\ After(list, state) = g[Len(list)]
<1>. DEFINE S == {m \in Nat : \E g : Loops(g, m, list, state)}
<1>1. 0 \in S
  <2>1. Loops([n \in 0 .. 0 |-> state], 0, list, state)
    BY DEF Loops
  <2>. QED
    BY <2>1
<1>2. ASSUME NEW m \in Nat, m \in S PROVE m + 1 \in S
  <2>1. PICK g : Loops(g, m, list, state)
    BY <1>2
  <2>. DEFINE h == [n \in 0 .. m + 1 |-> IF n <= m THEN g[n] ELSE Executed(g[m], list[m + 1])]
  <2>2. ASSUME NEW n \in 0 .. m + 1
        PROVE  h[n] = IF n = 0 THEN state ELSE Executed(h[n - 1], list[n])
    <3>1. CASE n = 0
      BY <2>1, <3>1 DEF Loops
    <3>2. CASE n \in 1 .. m
      <4>1. n \in 0 .. m /\ n - 1 \in 0 .. m + 1 /\ n - 1 <= m /\ n <= m /\ n # 0
        BY <3>2
      <4>2. h[n] = g[n] /\ h[n - 1] = g[n - 1]
        BY <4>1
      <4>3. g[n] = Executed(g[n - 1], list[n])
        BY <2>1, <4>1 DEF Loops
      <4>. QED
        BY <4>1, <4>2, <4>3
    <3>3. CASE n = m + 1
      <4>1. n - 1 = m /\ m \in 0 .. m + 1 /\ ~(n <= m) /\ n # 0 /\ m <= m
        BY <3>3
      <4>2. h[n] = Executed(g[m], list[n]) /\ h[n - 1] = g[m]
        BY <3>3, <4>1
      <4>. QED
        BY <4>1, <4>2
    <3>. QED
      BY <3>1, <3>2, <3>3
  <2>3. Loops(h, m + 1, list, state)
    BY <2>2 DEF Loops
  <2>4. \E k : Loops(k, m + 1, list, state)
    <3>. HIDE DEF h
    <3>. QED
      BY <2>3
  <2>5. m + 1 \in Nat
    OBVIOUS
  <2>. QED
    BY <2>4, <2>5, Zenon
<1>3. Len(list) \in S
  <2>. HIDE DEF S
  <2>1. Len(list) \in Nat
    OBVIOUS
  <2>. QED
    BY <1>1, <1>2, <2>1, SetInduction
<1>4. \E g : Loops(g, Len(list), list, state)
  BY <1>3
<1>. DEFINE f == CHOOSE g : Loops(g, Len(list), list, state)
<1>5. Loops(f, Len(list), list, state)
  BY <1>4
<1>6. After(list, state) = f[Len(list)]
  BY DEF After, Loops
<1>. QED
  BY <1>5, <1>6

\* Executing a list on a fresh state: no account uses more nonces than the
\* list has transactions, and receipts are of the list.
LEMMA AfterFresh ==
    ASSUME NEW list \in Seq(Transactions)
    PROVE  After(list, Fresh) \in States(Len(list), {list[i] : i \in 1 .. Len(list)})
<1>1. PICK g : Loops(g, Len(list), list, Fresh) /\ After(list, Fresh) = g[Len(list)]
  BY AfterLoop
<1>. DEFINE S == {m \in Nat : m <= Len(list) => g[m] \in States(m, {list[i] : i \in 1 .. m})}
<1>2. 0 \in S
  <2>1. g[0] = Fresh
    BY <1>1 DEF Loops
  <2>2. Fresh \in States(0, {list[i] : i \in 1 .. 0})
    BY DEF Fresh, States
  <2>. QED
    BY <2>1, <2>2
<1>3. ASSUME NEW m \in Nat, m \in S PROVE m + 1 \in S
  <2>. SUFFICES ASSUME m + 1 <= Len(list) PROVE g[m + 1] \in States(m + 1, {list[i] : i \in 1 .. m + 1})
    OBVIOUS
  <2>1. /\ m <= Len(list) /\ m + 1 \in 0 .. Len(list) /\ m + 1 # 0 /\ (m + 1) - 1 = m
        /\ list[m + 1] \in Transactions
    OBVIOUS
  <2>. DEFINE R == {list[i] : i \in 1 .. m}
              tx == list[m + 1]
  <2>2. g[m] \in States(m, R) /\ tx \in Transactions
    BY <1>3, <2>1
  <2>3. g[m + 1] = Executed(g[m], tx)
    BY <1>1, <2>1 DEF Loops
  <2>4. g[m + 1] \in States(m + 1, R \cup {tx})
    <3>. HIDE DEF R, tx
    <3>. QED
      BY <2>2, <2>3, ExecutedStep
  <2>5. R \cup {list[m + 1]} = {list[i] : i \in 1 .. m + 1}
    OBVIOUS
  <2>. QED
    BY <2>4, <2>5
<1>4. Len(list) \in S /\ Len(list) <= Len(list)
  <2>. HIDE DEF S
  <2>1. Len(list) \in Nat
    OBVIOUS
  <2>. QED
    BY <1>2, <1>3, <2>1, SetInduction
<1>. QED
  BY <1>1, <1>4

\* Executing one transaction.
LEMMA AfterOne ==
    ASSUME NEW tx \in Transactions, NEW state
    PROVE  After(<<tx>>, state) = Executed(state, tx)
<1>1. <<tx>> \in Seq(Transactions) /\ Len(<<tx>>) = 1 /\ <<tx>>[1] = tx
  OBVIOUS
<1>2. PICK g : Loops(g, Len(<<tx>>), <<tx>>, state) /\ After(<<tx>>, state) = g[Len(<<tx>>)]
  BY <1>1, AfterLoop
<1>3. g = [n \in 0 .. 1 |-> IF n = 0 THEN state ELSE Executed(g[n - 1], <<tx>>[n])]
  BY <1>1, <1>2, Zenon DEF Loops
<1>4. g[0] = state /\ g[1] = Executed(g[0], <<tx>>[1])
  BY <1>3
<1>. QED
  BY <1>1, <1>2, <1>4

LEMMA ExecuteAfter ==
    ASSUME NEW list, NEW state, Execute(list, state)
    PROVE  nonces' = After(list, state).nonces /\ receipts' = After(list, state).receipts
BY DEF Execute, After

-----------------------------------------------------------------------------
(* Every operation keeps pool and requests tidy. *)

LEMMA PoolFrame ==
    ASSUME PoolOK, UNCHANGED stateVars
    PROVE  PoolOK'
BY DEF PoolOK, stateVars

\* A transaction joins the pool and, if its nonce is next, the state.
LEMMA RunAndAddPool ==
    ASSUME PoolOK, NEW tx \in Transactions, NEW who, RunAndAdd(tx, who)
    PROVE  PoolOK'
<1>. DEFINE st == [nonces |-> nonces, receipts |-> receipts]
            R == {txs[i] : i \in DOMAIN txs}
            n == Len(txs)
<1>1. /\ Len(txs) < MaxTxs /\ Execute(<<tx>>, st) /\ txs' = Append(txs, tx)
  BY DEF RunAndAdd
<1>2. /\ txs \in Seq(Transactions) /\ n \in Nat /\ DOMAIN txs = 1 .. n
      /\ nonces \in [Addresses -> 0 .. n] /\ receipts \subseteq R
  BY DEF PoolOK
<1>3. st \in States(n, R)
  BY <1>2 DEF States
<1>4. nonces' = Executed(st, tx).nonces /\ receipts' = Executed(st, tx).receipts
  BY <1>1, ExecuteAfter, AfterOne
<1>5. /\ txs' \in Seq(Transactions) /\ Len(txs') = n + 1 /\ Len(txs') <= MaxTxs
      /\ DOMAIN txs' = 1 .. n + 1 /\ txs'[n + 1] = tx /\ \A i \in 1 .. n : txs'[i] = txs[i]
  BY <1>1, <1>2, Names
<1>6. R \cup {tx} \subseteq {txs'[i] : i \in DOMAIN txs'}
  BY <1>2, <1>5
<1>. HIDE DEF st, R, n
<1>7. Executed(st, tx) \in States(n + 1, R \cup {tx})
  BY <1>2, <1>3, ExecutedStep
<1>8. nonces' \in [Addresses -> 0 .. n + 1] /\ receipts' \subseteq R \cup {tx}
  BY <1>4, <1>7 DEF States
<1>. QED
  BY <1>5, <1>6, <1>8 DEF PoolOK

LEMMA ResetPool ==
    ASSUME PoolOK, NEW list, list = txs \/ list = <<>>, Reset(list)
    PROVE  PoolOK'
<1>. DEFINE R == {list[i] : i \in 1 .. Len(list)}
<1>1. /\ nonces' = After(list, Fresh).nonces /\ receipts' = After(list, Fresh).receipts
      /\ txs' = txs
  BY ExecuteAfter DEF Reset
<1>2. /\ list \in Seq(Transactions) /\ Len(list) <= Len(txs) /\ Len(txs) \in Nat /\ Len(list) \in Nat
      /\ R \subseteq {txs[i] : i \in DOMAIN txs}
  <2>1. txs \in Seq(Transactions) /\ Len(txs) \in Nat /\ DOMAIN txs = 1 .. Len(txs)
    BY DEF PoolOK
  <2>2. CASE list = txs
    BY <2>1, <2>2
  <2>3. CASE list = <<>>
    <3>1. Len(list) = 0 /\ list \in Seq(Transactions)
      BY <2>3
    <3>. QED
      BY <2>1, <3>1
  <2>. QED
    BY <2>2, <2>3
<1>3. After(list, Fresh) \in States(Len(list), R)
  BY <1>2, AfterFresh
<1>. HIDE DEF R
<1>4. nonces' \in [Addresses -> 0 .. Len(list)] /\ receipts' \subseteq R
  BY <1>1, <1>3 DEF States
<1>5. nonces' \in [Addresses -> 0 .. Len(txs)]
  BY <1>2, <1>4
<1>. QED
  BY <1>1, <1>2, <1>4, <1>5 DEF PoolOK

LEMMA ClearPool ==
    ASSUME PoolOK, ClearTxPool
    PROVE  PoolOK'
<1>1. nonces' = [a \in Addresses |-> 0] /\ receipts' = {} /\ txs' = <<>>
  BY DEF ClearTxPool, Fresh
<1>2. Len(<<>>) = 0 /\ <<>> \in Seq(Transactions)
  OBVIOUS
<1>. QED
  BY <1>1, <1>2, Names DEF PoolOK

\* Requests keep their stage while sender and calldata mean what they did.
LEMMA RequestsFrame ==
    ASSUME RequestsOK, req' = req, randomized' = randomized, impersonated' = impersonated
    PROVE  RequestsOK'
BY DEF RequestsOK, RequestOK, Prepared, Watched

\* A moved option is remembered by every request in flight.
LEMMA RequestsMoved ==
    ASSUME RequestsOK, Moved, OptionsOK'
    PROVE  RequestsOK'
<1>1. /\ DOMAIN req' = Clients
      /\ \A c \in Clients :
           req'[c] = IF req[c] = Nil THEN Nil
                     ELSE [req[c] EXCEPT !.who = req[c].who \cup {impersonated'},
                                         !.modes = req[c].modes \cup {randomized'}]
  BY DEF Moved
<1>2. ASSUME NEW c \in Clients, req'[c] # Nil
      PROVE  RequestOK(req[c])'
  <2>1. PICK q \in Requests : q = req[c] /\ Prepared(q) /\ req[c] # Nil
    BY <1>1, <1>2 DEF RequestsOK, RequestOK
  <2>2. PICK who \in SUBSET Accounts : who = q.who \cup {impersonated'}
    BY <2>1 DEF Requests, OptionsOK
  <2>3. PICK modes \in SUBSET BOOLEAN : modes = q.modes \cup {randomized'}
    <3>1. q.modes \in SUBSET BOOLEAN
      BY <2>1 DEF Requests
    <3>. QED
      BY <3>1, Zenon DEF OptionsOK
  <2>4. req'[c] = [q EXCEPT !.who = who, !.modes = modes]
    BY <1>1, <1>2, <2>1, <2>2, <2>3
  <2>5. /\ req'[c] \in Requests /\ req'[c].who = who /\ req'[c].modes = modes
        /\ req'[c].args = q.args /\ req'[c].asked = q.asked /\ req'[c].step = q.step
    BY <2>1, <2>4 DEF Requests
  <2>6. q.who \subseteq who /\ impersonated' \in who
    BY <2>2
  <2>7. q.modes \subseteq modes /\ randomized' \in modes
    BY <2>3, Zenon
  <2>8. Prepared(req'[c])
    <3>1. /\ FALSE \in q.modes => FALSE \in modes
          /\ TRUE \in q.modes => TRUE \in modes
      BY <2>7, Zenon
    <3>. QED
      BY <2>1, <2>5, <2>6, <3>1, Zenon DEF Prepared
  <2>. QED
    BY <2>5, <2>6, <2>7, <2>8, Zenon DEF RequestOK, Prepared, Watched
<1>. QED
  BY <1>1, <1>2 DEF RequestsOK

\* One client's request changes.
LEMMA RequestsUpdate ==
    ASSUME RequestsOK, NEW c \in Clients, NEW q, req' = [req EXCEPT ![c] = q],
           q = Nil \/ RequestOK(q), randomized' = randomized, impersonated' = impersonated
    PROVE  RequestsOK'
<1>1. /\ DOMAIN req' = Clients /\ req'[c] = q /\ \A d \in Clients \ {c} : req'[d] = req[d]
  BY DEF RequestsOK
<1>2. ASSUME NEW d \in Clients, req'[d] # Nil
      PROVE  RequestOK(req[d])'
  <2>1. RequestOK(req'[d])
    BY <1>1, <1>2 DEF RequestsOK
  <2>. QED
    BY <2>1 DEF RequestOK, Prepared, Watched
<1>. QED
  BY <1>1, <1>2 DEF RequestsOK

LEMMA BeginRequests ==
    ASSUME OptionsOK, RequestsOK, NEW c \in Clients, NEW kind \in {"send", "call"}, NEW args \in Plain,
           Begin(c, kind, args)
    PROVE  RequestsOK'
<1>. DEFINE q == [kind |-> kind, args |-> args, asked |-> args, step |-> "from",
                  who |-> {impersonated}, modes |-> {randomized},
                  forward |-> kind = "call" /\ passthrough]
<1>1. req' = [req EXCEPT ![c] = q] /\ randomized' = randomized /\ impersonated' = impersonated
  BY DEF Begin, options
<1>2. args \in BareArgs
  BY PlainBare
<1>3. /\ (kind = "call" /\ passthrough) \in BOOLEAN
      /\ {impersonated} \in SUBSET Accounts /\ {randomized} \in SUBSET BOOLEAN
  BY Zenon DEF OptionsOK
<1>4. q \in Requests
  BY <1>2, <1>3, Zenon DEF Requests
<1>5. Prepared(q) /\ Watched(q)
  BY Zenon DEF Prepared, Watched
<1>. HIDE DEF q
<1>. QED
  BY <1>1, <1>4, <1>5, RequestsUpdate DEF RequestOK

LEMMA PreprocessFromRequests ==
    ASSUME OptionsOK, RequestsOK, NEW c \in Clients, PreprocessFrom(c)
    PROVE  RequestsOK'
<1>. DEFINE old == req[c]
            q == IF randomized THEN [old EXCEPT !.args = ReplaceFrom(old.args, impersonated), !.step = "data"]
                 ELSE [old EXCEPT !.step = "run"]
<1>1. /\ req[c] # Nil /\ old.step = "from"
      /\ req' = [req EXCEPT ![c] = q] /\ randomized' = randomized /\ impersonated' = impersonated
  BY DEF PreprocessFrom, options
<1>2. old \in Requests /\ old.args = old.asked /\ Watched(old)
  BY <1>1 DEF RequestsOK, RequestOK, Prepared
<1>3. old.args \in BareArgs
  BY <1>2 DEF Requests
<1>. HIDE DEF old
<1>4. ReplaceFrom(old.args, impersonated) \in BareArgs
  BY <1>3, ReplaceFromType DEF OptionsOK
<1>5. q \in Requests
  BY <1>2, <1>4 DEF Requests
<1>6. CASE randomized
  <2>1. /\ q.step = "data" /\ q.args = ReplaceFrom(old.args, impersonated) /\ q.asked = old.asked
        /\ q.who = old.who /\ q.modes = old.modes
    BY <1>2, <1>6 DEF Requests
  <2>. HIDE DEF q
  <2>0. TRUE \in q.modes
    BY <1>2, <1>6, <2>1, Zenon DEF Watched, OptionsOK
  <2>2. Prepared(q) /\ Watched(q)
    BY <1>2, <2>0, <2>1, Zenon DEF Prepared, Watched
  <2>. QED
    BY <1>1, <1>5, <2>2, RequestsUpdate DEF RequestOK
<1>7. CASE ~randomized
  <2>1. /\ q.step = "run" /\ q.args = old.args /\ q.asked = old.asked
        /\ q.who = old.who /\ q.modes = old.modes
    BY <1>2, <1>7 DEF Requests
  <2>. HIDE DEF q
  <2>0. FALSE \in q.modes
    BY <1>2, <1>7, <2>1, Zenon DEF Watched, OptionsOK
  <2>2. Prepared(q) /\ Watched(q)
    BY <1>2, <2>0, <2>1, Zenon DEF Prepared, Watched
  <2>. QED
    BY <1>1, <1>5, <2>2, RequestsUpdate DEF RequestOK
<1>. QED
  BY <1>6, <1>7

LEMMA PreprocessDataRequests ==
    ASSUME OptionsOK, RequestsOK, NEW c \in Clients, PreprocessData(c)
    PROVE  RequestsOK'
<1>. DEFINE old == req[c]
            q == [old EXCEPT !.args = ReplaceData(old.args, impersonated), !.step = "run"]
<1>1. /\ req[c] # Nil /\ old.step = "data"
      /\ req' = [req EXCEPT ![c] = q] /\ randomized' = randomized /\ impersonated' = impersonated
  BY DEF PreprocessData, options
<1>2. /\ old \in Requests
      /\ TRUE \in old.modes /\ Watched(old)
      /\ \E v \in old.who : old.args = ReplaceFrom(old.asked, v)
  BY <1>1 DEF RequestsOK, RequestOK, Prepared
<1>3. old.args \in BareArgs
  BY <1>2 DEF Requests
<1>. HIDE DEF old
<1>4. ReplaceData(old.args, impersonated) \in BareArgs
  BY <1>3, ReplaceDataType DEF OptionsOK
<1>5. q \in Requests
  BY <1>2, <1>4 DEF Requests
<1>6. /\ q.step = "run" /\ q.args = ReplaceData(old.args, impersonated) /\ q.asked = old.asked
      /\ q.who = old.who /\ q.modes = old.modes
  BY <1>2 DEF Requests
<1>. HIDE DEF q
<1>7. Prepared(q) /\ Watched(q)
  BY <1>2, <1>6, Zenon DEF Prepared, Watched
<1>. QED
  BY <1>1, <1>5, <1>7, RequestsUpdate DEF RequestOK

-----------------------------------------------------------------------------
(* What a call runs. *)

\* The fields of a message that a client can see, for arguments as they
\* come out of preprocessArgs.
LEMMA LocalMessage ==
    ASSUME NEW a \in BareArgs
    PROVE  /\ ToMessage(a).from = Given(a.from, Zero) /\ ToMessage(a).to = Zero
           /\ ToMessage(a).value = 0 /\ ToMessage(a).price = 0
           /\ ToMessage(a).data = CallData(a)
<1>1. /\ a.gasPrice = Nil /\ a.maxFee = Nil /\ a.to = Zero /\ a.value = Nil
  BY BareFields
<1>. QED
  BY <1>1 DEF ToMessage, Given

LEMMA ForwardedMessage ==
    ASSUME NEW a \in BareArgs
    PROVE  /\ UpstreamMessage(ToCallArg(a)).from = Given(a.from, Zero)
           /\ UpstreamMessage(ToCallArg(a)).to = Zero
           /\ UpstreamMessage(ToCallArg(a)).value = 0 /\ UpstreamMessage(ToCallArg(a)).price = 0
           /\ UpstreamMessage(ToCallArg(a)).data = Given(a.data, <<>>)
<1>1. /\ a.gasPrice = Nil /\ a.maxFee = Nil /\ a.to = Zero /\ a.value = Nil
  BY BareFields
<1>. QED
  BY <1>1 DEF UpstreamMessage, ToCallArg, Given

\* What the last step of a call makes of a request.
CallMessage(q) ==
    IF q.forward THEN UpstreamMessage(ToCallArg(q.args))
    ELSE LET m == ToMessage(q.args)
         IN  [from |-> m.from, to |-> m.to, value |-> m.value, price |-> m.price, data |-> m.data]

LEMMA CallMessageForm ==
    ASSUME NEW q \in Requests
    PROVE  /\ CallMessage(q) \in Messages
           /\ CallMessage(q).from = Given(q.args.from, Zero)
           /\ CallMessage(q).data = IF q.forward \/ q.args.input = Nil THEN Given(q.args.data, <<>>)
                                    ELSE q.args.input
<1>. DEFINE a == q.args
            f == Given(a.from, Zero)
            d == IF q.forward THEN Given(a.data, <<>>) ELSE CallData(a)
<1>1. a \in BareArgs /\ a \in Args /\ q.forward \in BOOLEAN
  BY BareArgsArgs DEF Requests
<1>. HIDE DEF a
<1>2. CallMessage(q) = [from |-> f, to |-> Zero, value |-> 0, price |-> 0, data |-> d]
  <2>1. CASE q.forward
    <3>1. CallMessage(q) = UpstreamMessage(ToCallArg(a))
      BY <2>1 DEF CallMessage, a
    <3>2. UpstreamMessage(ToCallArg(a)) =
            [from |-> f, to |-> Zero, value |-> 0, price |-> 0, data |-> Given(a.data, <<>>)]
      BY <1>1, ForwardedMessage DEF UpstreamMessage
    <3>. QED
      BY <2>1, <3>1, <3>2
  <2>2. CASE ~q.forward
    <3>1. CallMessage(q) = [from |-> ToMessage(a).from, to |-> ToMessage(a).to,
                            value |-> ToMessage(a).value, price |-> ToMessage(a).price,
                            data |-> ToMessage(a).data]
      BY <2>2 DEF CallMessage, a
    <3>. QED
      BY <1>1, <2>2, <3>1, LocalMessage
  <2>. QED
    BY <2>1, <2>2
<1>3. f \in Addresses
  BY <1>1, Names DEF Given, Args
<1>4. d \in Seq(Addresses)
  BY <1>1, CallDataType DEF Given, Args, Calldata
<1>5. d = IF q.forward \/ a.input = Nil THEN Given(a.data, <<>>) ELSE a.input
  BY DEF CallData, Given
<1>. HIDE DEF f, d
<1>6. CallMessage(q) \in Messages
  BY <1>2, <1>3, <1>4, Names DEF Messages
<1>7. CallMessage(q).from = f /\ CallMessage(q).data = d
  BY <1>2
<1>. QED
  BY <1>5, <1>6, <1>7 DEF a, f

\* The answer to a request in its last step.
Answers(call, q) ==
    call.asked = q.asked /\ call.forward = q.forward /\ call.msg = CallMessage(q)

\* Nothing was replaced.
LEMMA RunsVerbatim ==
    ASSUME NEW q \in Requests, q.args = q.asked, NEW call, Answers(call, q)
    PROVE  RunsAs(call, Rand, Rand)
<1>1. \A x : StandsFor(x, Rand) = x
  BY DEF StandsFor
<1>2. /\ CallMessage(q).from = Given(q.asked.from, Zero)
      /\ CallMessage(q).data = IF q.forward \/ q.asked.input = Nil THEN Given(q.asked.data, <<>>)
                               ELSE q.asked.input
  BY CallMessageForm
<1>3. Given(q.asked.data, <<>>) \in Calldata
  BY PlainBare, BareArgsArgs DEF Requests, Args, Given, Calldata
<1>4. PICK d \in Calldata : d = Given(q.asked.data, <<>>)
  BY <1>3
<1>5. [i \in DOMAIN d |-> StandsFor(d[i], Rand)] = d
  BY <1>1, <1>4 DEF Calldata
<1>. QED
  BY <1>1, <1>2, <1>4, <1>5 DEF RunsAs, Answers

\* Both replacements were made.
LEMMA RunsReplaced ==
    ASSUME NEW q \in Requests, NEW v \in Accounts, NEW w \in Accounts,
           q.args = ReplaceData(ReplaceFrom(q.asked, v), w), NEW call, Answers(call, q)
    PROVE  RunsAs(call, v, w)
<1>. DEFINE a == q.asked
            b == ReplaceFrom(a, v)
<1>1. q.args = ReplaceData(b, w) /\ a \in BareArgs
  BY PlainBare DEF Requests
<1>. HIDE DEF a
<1>2. /\ b \in BareArgs /\ b.from = (IF a.from = Rand THEN v ELSE a.from)
      /\ b.data = a.data /\ b.input = a.input
  BY <1>1, ReplaceFromType
<1>. HIDE DEF b
<1>3. /\ q.args.from = b.from /\ q.args.input = b.input
      /\ q.args.data = IF b.data = Nil THEN Nil
                       ELSE [i \in DOMAIN b.data |-> IF b.data[i] = Rand THEN w ELSE b.data[i]]
  BY <1>1, <1>2, ReplaceDataType
<1>4. /\ CallMessage(q).from = Given(q.args.from, Zero)
      /\ CallMessage(q).data = IF q.forward \/ q.args.input = Nil THEN Given(q.args.data, <<>>)
                               ELSE q.args.input
  BY CallMessageForm
<1>5. CallMessage(q).from = StandsFor(Given(a.from, Zero), v)
  BY <1>2, <1>3, <1>4, Names DEF Given, StandsFor
<1>6. ASSUME NEW d, d = Given(a.data, <<>>)
      PROVE  Given(q.args.data, <<>>) = [i \in DOMAIN d |-> StandsFor(d[i], w)]
  <2>1. CASE a.data = Nil
    <3>1. d = <<>> /\ Given(q.args.data, <<>>) = <<>>
      BY <1>2, <1>3, <1>6, <2>1 DEF Given
    <3>. QED
      BY <3>1
  <2>2. CASE a.data # Nil
    <3>1. d = a.data /\ d \in Calldata
      BY <1>1, <1>6, <2>2, BareArgsArgs DEF Given, Args
    <3>2. PICK m \in Calldata : m = [i \in DOMAIN d |-> IF d[i] = Rand THEN w ELSE d[i]]
      BY <3>1, MappedData
    <3>3. q.args.data = m /\ m # Nil
      BY <1>2, <1>3, <2>2, <3>1, <3>2, NilNoCalldata
    <3>. QED
      BY <3>2, <3>3 DEF Given, StandsFor
  <2>. QED
    BY <2>1, <2>2
<1>7. PICK d : d = Given(a.data, <<>>)
  OBVIOUS
<1>8. CallMessage(q).data = IF q.forward \/ a.input = Nil THEN [i \in DOMAIN d |-> StandsFor(d[i], w)]
                            ELSE a.input
  BY <1>2, <1>3, <1>4, <1>6, <1>7
<1>. QED
  BY <1>5, <1>7, <1>8 DEF RunsAs, Answers, a

LEMMA CallTidy ==
    ASSUME Tidy, NEW c \in Clients, Call(c)
    PROVE  Tidy' /\ OneIdentity'
<1>. DEFINE q == req[c]
<1>1. /\ req[c] # Nil /\ q.step = "run"
      /\ ran' = [asked |-> q.asked, who |-> q.who, modes |-> q.modes, forward |-> q.forward,
                 msg |-> CallMessage(q)]
      /\ req' = [req EXCEPT ![c] = Nil] /\ UNCHANGED <<options, stateVars, authors>>
  BY DEF Call, CallMessage
<1>2. RequestOK(q)
  BY <1>1 DEF Tidy, RequestsOK
<1>3. q \in Requests
  BY <1>2 DEF RequestOK
<1>. HIDE DEF q
<1>4. /\ ran'.asked = q.asked /\ ran'.who = q.who /\ ran'.modes = q.modes /\ ran'.forward = q.forward
      /\ ran'.msg = CallMessage(q)
  BY <1>1
<1>5. RanOK'
  BY <1>3, <1>4, CallMessageForm DEF RanOK
<1>6. OneIdentity'
  <2>1. /\ Prepared(q) /\ q.who \in SUBSET Accounts
    BY <1>2, <1>3 DEF RequestOK, Requests
  <2>2. \/ FALSE \in q.modes /\ q.args = q.asked
        \/ TRUE \in q.modes /\ \E v, w \in q.who : q.args = ReplaceData(ReplaceFrom(q.asked, v), w)
    BY <1>1, <2>1 DEF Prepared
  <2>3. PICK call : call = ran'
    OBVIOUS
  <2>4. Answers(call, q) /\ call.who = q.who /\ call.modes = q.modes
    BY <1>4, <2>3 DEF Answers
  <2>5. q.args = q.asked => RunsAs(call, Rand, Rand)
    BY <1>3, <2>4, RunsVerbatim
  <2>6. ASSUME NEW v \in q.who, NEW w \in q.who, q.args = ReplaceData(ReplaceFrom(q.asked, v), w)
        PROVE  RunsAs(call, v, w)
    BY <1>3, <2>1, <2>4, <2>6, RunsReplaced
  <2>7. \/ FALSE \in call.modes /\ RunsAs(call, Rand, Rand)
        \/ TRUE \in call.modes /\ \E v, w \in call.who : RunsAs(call, v, w)
    BY <2>2, <2>4, <2>5, <2>6, Zenon
  <2>. QED
    BY <2>3, <2>7 DEF OneIdentity
<1>7. /\ randomized' = randomized /\ passthrough' = passthrough /\ impersonated' = impersonated
      /\ override' = override /\ authors' = authors /\ UNCHANGED stateVars
  BY <1>1 DEF options
<1>8. OptionsOK' /\ AuthorsOK'
  BY <1>7 DEF Tidy, OptionsOK, AuthorsOK
<1>9. PoolOK'
  BY <1>7, PoolFrame DEF Tidy
<1>10. RequestsOK'
  BY <1>1, <1>7, RequestsUpdate DEF Tidy
<1>. QED
  BY <1>5, <1>6, <1>8, <1>9, <1>10 DEF Tidy

-----------------------------------------------------------------------------
(* Whom a hash names. *)

LEMMA AddAuthor ==
    ASSUME AuthorsOK, NEW tx \in Transactions, NEW who,
           Sender(tx.sig) = IF tx.sig.chain = OtherID THEN Zero ELSE who, RunAndAdd(tx, who)
    PROVE  AuthorsOK'
<1>1. authors' = authors \cup {<<tx, who>>}
  BY DEF RunAndAdd
<1>. QED
  BY <1>1 DEF AuthorsOK

\* A transaction the node signs is made for the account it runs as.
LEMMA SignedAuthor ==
    ASSUME NEW a \in Args, OptionsOK, PoolOK
    PROVE  Sender(Signed(a).sig) = IF Signed(a).sig.chain = OtherID THEN Zero ELSE SendFrom(a)
<1>1. SendFrom(a) \in Addresses /\ Signed(a).sig = SignatureValues(SendFrom(a))
  BY SignedForm, SendFromType DEF OptionsOK
<1>. QED
  BY <1>1, SignatureSender

LEMMA SendTidy ==
    ASSUME Tidy, ran' = Nil,
           \/ \E c \in Clients : SendTransaction(c)
           \/ \E a \in Accounts : PrintMoney(a)
           \/ \E a \in Accounts, chain \in {Nil, ChainID, OtherID} : SendRawTransaction(a, chain)
    PROVE  Tidy'
<1>0. OptionsOK /\ PoolOK /\ RequestsOK /\ AuthorsOK
  BY DEF Tidy
<1>1. ASSUME UNCHANGED options, RequestsOK', NEW tx \in Transactions, NEW who, RunAndAdd(tx, who),
             Sender(tx.sig) = IF tx.sig.chain = OtherID THEN Zero ELSE who
      PROVE  Tidy'
  <2>1. OptionsOK'
    BY <1>0, <1>1 DEF OptionsOK, options
  <2>2. PoolOK' /\ AuthorsOK'
    BY <1>0, <1>1, RunAndAddPool, AddAuthor
  <2>3. RanOK'
    BY DEF RanOK
  <2>. QED
    BY <1>1, <2>1, <2>2, <2>3 DEF Tidy
<1>2. ASSUME UNCHANGED options, req' = req PROVE RequestsOK'
  BY <1>0, <1>2, RequestsFrame DEF options
<1>3. ASSUME NEW c \in Clients, SendTransaction(c) PROVE Tidy'
  <2>. DEFINE a == req[c].args
  <2>1. /\ req[c] # Nil /\ RunAndAdd(Signed(a), SendFrom(a)) /\ req' = [req EXCEPT ![c] = Nil]
        /\ UNCHANGED options
    BY <1>3 DEF SendTransaction
  <2>2. a \in Args
    BY <1>0, <2>1, BareArgsArgs DEF RequestsOK, RequestOK, Requests
  <2>. HIDE DEF a
  <2>3. RequestsOK'
    BY <1>0, <2>1, RequestsUpdate DEF options
  <2>4. /\ Signed(a) \in Transactions
        /\ Sender(Signed(a).sig) = IF Signed(a).sig.chain = OtherID THEN Zero ELSE SendFrom(a)
    BY <1>0, <2>2, SignedForm, SignedAuthor
  <2>. QED
    BY <1>1, <2>1, <2>3, <2>4
<1>4. ASSUME NEW acc \in Accounts, PrintMoney(acc) PROVE Tidy'
  <2>. DEFINE a == [NoArgs EXCEPT !.from = Rich, !.to = acc, !.value = 1]
  <2>1. RunAndAdd(Signed(a), Rich) /\ UNCHANGED options /\ req' = req
    BY <1>4 DEF PrintMoney
  <2>2. a \in Args
    BY Names DEF Args, NoArgs
  <2>3. SendFrom(a) = Rich
    BY Names DEF SendFrom, NoArgs
  <2>. HIDE DEF a
  <2>4. /\ Signed(a) \in Transactions
        /\ Sender(Signed(a).sig) = IF Signed(a).sig.chain = OtherID THEN Zero ELSE Rich
    BY <1>0, <2>2, <2>3, SignedForm, SignedAuthor
  <2>. QED
    BY <1>1, <1>2, <2>1, <2>4
<1>5. ASSUME NEW from \in Accounts, NEW chain \in {Nil, ChainID, OtherID}, SendRawTransaction(from, chain)
      PROVE  Tidy'
  <2>. DEFINE body == [type |-> 0, to |-> Zero, nonce |-> nonces[from], gas |-> 1, price |-> 0,
                       value |-> 0, data |-> <<>>]
              tx == [body |-> body, sig |-> KeySignature(from, chain)]
  <2>1. RunAndAdd(tx, from) /\ UNCHANGED options /\ req' = req
    BY <1>5 DEF SendRawTransaction
  <2>2. nonces[from] \in 0 .. MaxTxs /\ from \in Addresses
    BY <1>0, Names DEF PoolOK
  <2>3. body \in Bodies
    BY <2>2, Names DEF Bodies, Calldata
  <2>4. /\ KeySignature(from, chain) \in Signatures
        /\ Sender(KeySignature(from, chain)) =
             IF KeySignature(from, chain).chain = OtherID THEN Zero ELSE from
    BY <2>2, KeySender
  <2>. HIDE DEF body
  <2>5. tx \in Transactions /\ tx.sig = KeySignature(from, chain)
    BY <2>3, <2>4 DEF Transactions
  <2>. HIDE DEF tx
  <2>. QED
    BY <1>1, <1>2, <2>1, <2>4, <2>5
<1>. QED
  BY <1>3, <1>4, <1>5

LEMMA OptionsTidy ==
    ASSUME Tidy, ran' = Nil, \/ \E a \in Accounts : Impersonate(a)
                             \/ ToggleRandAddr \/ TogglePassthrough \/ OverrideChainID
    PROVE  Tidy'
<1>0. OptionsOK /\ PoolOK /\ RequestsOK /\ AuthorsOK
  BY DEF Tidy
<1>1. OptionsOK'
  BY <1>0 DEF OptionsOK, Impersonate, ToggleRandAddr, TogglePassthrough, OverrideChainID
<1>2. authors' = authors /\ UNCHANGED stateVars
  BY DEF Impersonate, ToggleRandAddr, TogglePassthrough, OverrideChainID
<1>3. PoolOK' /\ AuthorsOK'
  BY <1>0, <1>2, PoolFrame DEF AuthorsOK
<1>4. RequestsOK'
  <2>1. CASE (\E a \in Accounts : Impersonate(a)) \/ ToggleRandAddr
    <3>1. Moved
      BY <2>1 DEF Impersonate, ToggleRandAddr
    <3>. QED
      BY <1>0, <1>1, <3>1, RequestsMoved
  <2>2. CASE TogglePassthrough \/ OverrideChainID
    <3>1. req' = req /\ randomized' = randomized /\ impersonated' = impersonated
      BY <2>2 DEF TogglePassthrough, OverrideChainID
    <3>. QED
      BY <1>0, <3>1, RequestsFrame
  <2>. QED
    BY <2>1, <2>2
<1>5. RanOK'
  BY DEF RanOK
<1>. QED
  BY <1>1, <1>3, <1>4, <1>5 DEF Tidy

LEMMA ConvertTidy ==
    ASSUME Tidy, ran' = Nil,
           \/ \E c \in Clients, kind \in {"send", "call"}, args \in Plain : Begin(c, kind, args)
           \/ \E c \in Clients : PreprocessFrom(c) \/ PreprocessData(c)
    PROVE  Tidy'
<1>0. OptionsOK /\ PoolOK /\ RequestsOK /\ AuthorsOK
  BY DEF Tidy
<1>1. UNCHANGED options /\ UNCHANGED stateVars /\ authors' = authors
  BY DEF Begin, PreprocessFrom, PreprocessData
<1>2. OptionsOK'
  BY <1>0, <1>1 DEF OptionsOK, options
<1>3. PoolOK' /\ AuthorsOK'
  BY <1>0, <1>1, PoolFrame DEF AuthorsOK
<1>4. RequestsOK'
  BY <1>0, BeginRequests, PreprocessFromRequests, PreprocessDataRequests
<1>5. RanOK'
  BY DEF RanOK
<1>. QED
  BY <1>2, <1>3, <1>4, <1>5 DEF Tidy

LEMMA RewindTidy ==
    ASSUME Tidy, ran' = Nil, Reset(<<>>) \/ Reset(txs) \/ ClearTxPool
    PROVE  Tidy'
<1>0. OptionsOK /\ PoolOK /\ RequestsOK /\ AuthorsOK
  BY DEF Tidy
<1>1. UNCHANGED options /\ req' = req /\ authors' \in {authors, {}}
  BY DEF Reset, ClearTxPool
<1>2. OptionsOK'
  BY <1>0, <1>1 DEF OptionsOK, options
<1>3. RequestsOK'
  BY <1>0, <1>1, RequestsFrame DEF options
<1>4. PoolOK'
  BY <1>0, ResetPool, ClearPool
<1>5. AuthorsOK' /\ RanOK'
  BY <1>0, <1>1 DEF AuthorsOK, RanOK
<1>. QED
  BY <1>2, <1>3, <1>4, <1>5 DEF Tidy

LEMMA TidyAlways == Spec => [](Tidy /\ OneIdentity)
<1>1. Init => Tidy /\ OneIdentity
  <2>. SUFFICES ASSUME Init PROVE Tidy /\ OneIdentity
    OBVIOUS
  <2>1. OptionsOK
    BY DEF Init, OptionsOK
  <2>2. PoolOK
    <3>1. nonces = [a \in Addresses |-> 0] /\ receipts = {} /\ txs = <<>>
      BY DEF Init, Fresh
    <3>2. Len(<<>>) = 0 /\ <<>> \in Seq(Transactions)
      OBVIOUS
    <3>. QED
      BY <3>1, <3>2, Names DEF PoolOK
  <2>3. RequestsOK /\ AuthorsOK /\ RanOK /\ OneIdentity
    BY DEF Init, RequestsOK, AuthorsOK, RanOK, OneIdentity
  <2>. QED
    BY <2>1, <2>2, <2>3 DEF Tidy
<1>2. Tidy /\ OneIdentity /\ [Next]_vars => Tidy' /\ OneIdentity'
  <2>. SUFFICES ASSUME Tidy, OneIdentity, [Next]_vars PROVE Tidy' /\ OneIdentity'
    OBVIOUS
  <2>1. ASSUME NEW c \in Clients, Call(c) PROVE Tidy' /\ OneIdentity'
    BY <2>1, CallTidy
  <2>2. CASE UNCHANGED vars
    <3>1. /\ UNCHANGED options /\ UNCHANGED stateVars /\ req' = req /\ ran' = ran /\ authors' = authors
      BY <2>2 DEF vars
    <3>2. OptionsOK' /\ AuthorsOK' /\ RanOK' /\ OneIdentity'
      BY <3>1 DEF Tidy, OptionsOK, AuthorsOK, RanOK, OneIdentity, options
    <3>3. PoolOK' /\ RequestsOK'
      BY <3>1, PoolFrame, RequestsFrame DEF Tidy, options
    <3>. QED
      BY <3>2, <3>3 DEF Tidy
  <2>3. CASE Next /\ ~\E c \in Clients : Call(c)
    <3>1. ran' = Nil
      BY <2>3 DEF Next
    <3>2. OneIdentity'
      BY <3>1 DEF OneIdentity
    <3>3. Tidy'
      BY <2>3, <3>1, OptionsTidy, ConvertTidy, SendTidy, RewindTidy DEF Next
    <3>. QED
      BY <3>2, <3>3
  <2>. QED
    BY <2>1, <2>2, <2>3
<1>. QED
  BY <1>1, <1>2, PTL DEF Spec

-----------------------------------------------------------------------------
(* The theorems. *)

\* Every variable keeps its type, and no transaction in the pool carries
\* 1559 fees, for any number of accounts, clients and transactions.
THEOREM TypeCorrect == Spec => []TypeOK
<1>1. Tidy => TypeOK
  <2>. SUFFICES ASSUME Tidy PROVE TypeOK
    OBVIOUS
  <2>1. /\ randomized \in BOOLEAN /\ passthrough \in BOOLEAN
        /\ impersonated \in Accounts /\ override \in {Nil, OtherID}
    BY Zenon DEF Tidy, OptionsOK
  <2>2. /\ txs \in Seq(Transactions) /\ Len(txs) <= MaxTxs
        /\ nonces \in [Addresses -> 0 .. Len(txs)]
        /\ receipts \subseteq {txs[i] : i \in DOMAIN txs}
    BY DEF Tidy, PoolOK
  <2>3. nonces \in [Addresses -> 0 .. MaxTxs]
    BY <2>2, Names
  <2>4. \A i \in DOMAIN txs : txs[i] \in Transactions
    BY <2>2
  <2>5. \A i \in DOMAIN txs : /\ txs[i].body.type \in {0, 1} /\ txs[i].body.price = 0
                              /\ txs[i].body.nonce \in 0 .. MaxTxs
                              /\ txs[i].sig.r \in Addresses
    BY <2>4 DEF Transactions, Bodies, Signatures
  <2>6. ASSUME NEW c \in Clients, req[c] # Nil PROVE req[c].args.from \in Addresses \cup {Nil}
    <3>1. req[c].args \in Args
      BY <2>6, BareArgsArgs DEF Tidy, RequestsOK, RequestOK, Requests
    <3>. QED
      BY <3>1 DEF Args
  <2>7. ran # Nil => ran.msg \in Messages
    BY DEF Tidy, RanOK
  <2>. QED
    BY <2>1, <2>2, <2>3, <2>5, <2>6, <2>7, Zenon DEF TypeOK
<1>. QED
  BY <1>1, TidyAlways, PTL

\* The first place of a transaction in the pool.
LEMMA FindFirst ==
    ASSUME PoolOK, NEW i \in DOMAIN txs
    PROVE  /\ Find(txs[i]) \in DOMAIN txs /\ txs[Find(txs[i])] = txs[i] /\ Find(txs[i]) <= i
<1>. DEFINE hash == txs[i]
            T == {j \in DOMAIN txs : txs[j] = hash}
<1>1. DOMAIN txs \subseteq Nat
  BY DEF PoolOK
<1>2. T \subseteq Nat /\ T # {} /\ i \in T
  BY <1>1
<1>3. PICK x \in T : \A y \in T : x <= y
  <2>. HIDE DEF T
  <2>. QED
    BY <1>2, LeastNatural
<1>4. \E j \in DOMAIN txs : txs[j] = hash /\ \A k \in DOMAIN txs : txs[k] = hash => j <= k
  BY <1>3
<1>. HIDE DEF hash
<1>5. /\ Find(hash) \in DOMAIN txs /\ txs[Find(hash)] = hash
      /\ \A k \in DOMAIN txs : txs[k] = hash => Find(hash) <= k
  BY <1>4 DEF Find
<1>. QED
  BY <1>5 DEF hash

\* A hash given to a wallet keeps naming the account the transaction was
\* made for and its place in the pending block, whoever is impersonated or
\* randomized later and however often the pool is re-executed.
THEOREM HashesNameAuthors == Spec => []HashNamesAuthor
<1>1. Tidy => HashNamesAuthor
  <2>. SUFFICES ASSUME Tidy, NEW i \in DOMAIN txs
                PROVE  LET tx    == txs[i]
                           found == GetTransactionByHash(tx)
                       IN  /\ \A p \in authors :
                                p[1] = tx => found.from = IF tx.sig.chain = OtherID THEN Zero ELSE p[2]
                           /\ GetTxs[i].from = found.from
                           /\ found.index <= i
                           /\ LatestBlock.transactions[found.index] = tx
                           /\ tx \in receipts => GetTransactionReceipt(tx).index = found.index
    BY DEF HashNamesAuthor
  <2>. DEFINE tx == txs[i]
              found == GetTransactionByHash(tx)
  <2>1. found.index = Find(tx) /\ found.from = TxToMessage(tx).from
    BY DEF GetTransactionByHash, NewRPCTransaction
  <2>2. TxToMessage(tx).from = Sender(tx.sig)
    BY DEF TxToMessage
  <2>3. Find(tx) \in DOMAIN txs /\ txs[Find(tx)] = tx /\ Find(tx) <= i
    BY FindFirst DEF Tidy
  <2>4. GetTxs[i].from = TxToMessage(tx).from
    BY DEF GetTxs
  <2>5. \A j \in DOMAIN txs : LatestBlock.transactions[j] = txs[j]
    BY DEF LatestBlock, RPCMarshalBlock
  <2>6. GetTransactionReceipt(tx).index = Find(tx)
    BY DEF GetTransactionReceipt
  <2>. HIDE DEF found, tx
  <2>7. ASSUME NEW p \in authors, p[1] = tx
        PROVE  found.from = IF tx.sig.chain = OtherID THEN Zero ELSE p[2]
    BY <2>1, <2>2, <2>7 DEF Tidy, AuthorsOK
  <2>8. /\ GetTxs[i].from = found.from /\ found.index <= i
        /\ LatestBlock.transactions[found.index] = tx
        /\ GetTransactionReceipt(tx).index = found.index
    BY <2>1, <2>3, <2>4, <2>5, <2>6
  <2>. QED
    BY <2>7, <2>8 DEF found, tx
<1>. QED
  BY <1>1, TidyAlways, PTL

\* preprocessArgs changes sender and calldata only.
LEMMA PreprocessForm ==
    ASSUME NEW a \in Args, OptionsOK
    PROVE  /\ PreprocessArgs(a) \in Args
           /\ PreprocessArgs(a).from =
                IF randomized /\ a.from = Rand THEN impersonated ELSE a.from
<1>1. CASE ~randomized
  BY <1>1 DEF PreprocessArgs
<1>2. CASE randomized
  <2>. DEFINE w == impersonated
              b == ReplaceFrom(a, w)
              e == [i \in DOMAIN b.data |-> IF b.data[i] = Rand THEN w ELSE b.data[i]]
  <2>1. w \in Accounts /\ w \in Addresses
    BY Names DEF OptionsOK
  <2>. HIDE DEF w
  <2>2. b \in Args /\ b.from = IF a.from = Rand THEN w ELSE a.from
    BY <2>1 DEF ReplaceFrom, Args
  <2>. HIDE DEF b
  <2>3. CASE b.data = Nil
    BY <1>2, <2>2, <2>3 DEF PreprocessArgs, ReplaceData, b, w
  <2>4. CASE b.data # Nil
    <3>1. b.data \in Calldata
      BY <2>2, <2>4 DEF Args
    <3>2. e \in Calldata
      BY <2>1, <3>1, MappedData
    <3>3. PreprocessArgs(a) = [b EXCEPT !.data = e]
      BY <1>2, <2>4 DEF PreprocessArgs, ReplaceData, b, w
    <3>. HIDE DEF e
    <3>4. [b EXCEPT !.data = e] \in Args /\ [b EXCEPT !.data = e].from = b.from
      BY <2>2, <3>2 DEF Args
    <3>. QED
      BY <1>2, <2>2, <3>3, <3>4 DEF w
  <2>. QED
    BY <2>3, <2>4
<1>. QED
  BY <1>1, <1>2

\* What EstimateGas runs.
LEMMA EstimateForm ==
    ASSUME NEW a \in Args, PoolOK
    PROVE  /\ Estimated(a).from = Given(a.from, Zero) /\ Estimated(a).to = a.to
           /\ Estimated(a).value = Given(a.value, 0) /\ Estimated(a).data = CallData(a)
           /\ Estimated(a).nonce = nonces[Given(a.from, Zero)]
<1>. DEFINE n == nonces[Given(a.from, Zero)]
            e == [a EXCEPT !.gasPrice = Nil, !.nonce = n]
<1>1. Given(a.from, Zero) \in Addresses
  BY Names DEF Given, Args
<1>2. n \in Nat
  BY <1>1 DEF PoolOK
<1>. HIDE DEF n
<1>3. n # Nil
  BY <1>2, NilNoNumber
<1>4. /\ e.gasPrice = Nil /\ e.nonce = n /\ e.from = a.from /\ e.to = a.to /\ e.value = a.value
      /\ e.data = a.data /\ e.input = a.input
  BY DEF Args
<1>5. Estimated(a) = ToMessage(e)
  BY DEF Estimated, n
<1>. HIDE DEF e
<1>6. /\ ToMessage(e).from = Given(e.from, Zero) /\ ToMessage(e).to = e.to
      /\ ToMessage(e).value = Given(e.value, 0) /\ ToMessage(e).data = CallData(e)
      /\ ToMessage(e).nonce = Given(e.nonce, 0)
  BY <1>4 DEF ToMessage
<1>7. CallData(e) = CallData(a) /\ Given(e.nonce, 0) = n
  BY <1>3, <1>4 DEF CallData, Given
<1>. QED
  BY <1>4, <1>5, <1>6, <1>7 DEF n

\* What a local call runs, if the arguments are not refused.
LEMMA LocalForm ==
    ASSUME NEW a \in Args, ToMessage(a) # Nil
    PROVE  /\ ToMessage(a).from = Given(a.from, Zero) /\ ToMessage(a).to = a.to
           /\ ToMessage(a).value = Given(a.value, 0) /\ ToMessage(a).data = CallData(a)
<1>1. ~(a.gasPrice # Nil /\ a.maxFee # Nil)
  BY DEF ToMessage
<1>. QED
  BY <1>1 DEF ToMessage

\* Under every setting of the options, and for every choice of the optional
\* fields, the estimate, the transaction, the local and the forwarded call
\* made from the same arguments run the same message, with the exceptions
\* ViewsAgree names.
THEOREM AllViewsAgree == Spec => []ViewsAgree
<1>1. Tidy => ViewsAgree
  <2>. SUFFICES ASSUME Tidy, NEW c \in Clients, req[c] # Nil, NEW asked \in WithMore(req[c].asked)
                PROVE  LET args  == PreprocessArgs(asked)
                           local == ToMessage(args)
                           sent  == TxToMessage(Signed(args))
                           est   == Estimated(args)
                       IN  /\ asked.from = FirstAccount => sent.from = impersonated
                           /\ args.from \notin {Nil, Zero} =>
                                SameCall(est, sent) /\ est.nonce = sent.nonce
                           /\ local # Nil =>
                                /\ SameCall(local, est)
                                /\ args.input = Nil =>
                                     SameCall(UpstreamMessage(ToCallArg(args)), local)
    BY DEF ViewsAgree
  <2>. DEFINE args  == PreprocessArgs(asked)
              local == ToMessage(args)
              sent  == TxToMessage(Signed(args))
              est   == Estimated(args)
              up    == UpstreamMessage(ToCallArg(args))
  <2>0. OptionsOK /\ PoolOK
    BY DEF Tidy
  <2>1. req[c].asked \in BareArgs
    BY PlainBare DEF Tidy, RequestsOK, RequestOK, Requests
  <2>2. asked \in Args
    BY <2>1, WithMoreType
  <2>3. args \in Args /\ args.from = IF randomized /\ asked.from = Rand THEN impersonated ELSE asked.from
    BY <2>0, <2>2, PreprocessForm
  <2>. HIDE DEF args
  <2>4. /\ Signed(args).sig = SignatureValues(SendFrom(args))
        /\ Signed(args).body.to = args.to /\ Signed(args).body.value = Given(args.value, 0)
        /\ Signed(args).body.data = CallData(args)
        /\ Signed(args).body.nonce = nonces[SendFrom(args)]
        /\ SendFrom(args) \in Addresses
    BY <2>0, <2>3, SignedForm, SendFromType DEF OptionsOK
  <2>5. /\ sent.from = SendFrom(args) /\ sent.to = args.to /\ sent.value = Given(args.value, 0)
        /\ sent.data = CallData(args) /\ sent.nonce = nonces[SendFrom(args)]
    BY <2>4, SignatureSender DEF TxToMessage
  <2>6. /\ est.from = Given(args.from, Zero) /\ est.to = args.to
        /\ est.value = Given(args.value, 0) /\ est.data = CallData(args)
        /\ est.nonce = nonces[Given(args.from, Zero)]
    BY <2>0, <2>3, EstimateForm
  <2>7. local # Nil => /\ local.from = Given(args.from, Zero) /\ local.to = args.to
                       /\ local.value = Given(args.value, 0) /\ local.data = CallData(args)
    BY <2>3, LocalForm
  <2>8. /\ up.from = Given(args.from, Zero) /\ up.to = args.to /\ up.value = Given(args.value, 0)
        /\ args.input = Nil => up.data = CallData(args)
    BY DEF UpstreamMessage, ToCallArg, Given, CallData
  <2>. HIDE DEF local, sent, est, up
  <2>9. asked.from = FirstAccount => sent.from = impersonated
    BY <2>0, <2>3, <2>5, Names DEF FirstAccount, SendFrom, OptionsOK
  <2>10. args.from \notin {Nil, Zero} => SendFrom(args) = args.from /\ Given(args.from, Zero) = args.from
    BY DEF SendFrom, Given
  <2>11. args.from \notin {Nil, Zero} => SameCall(est, sent) /\ est.nonce = sent.nonce
    BY <2>5, <2>6, <2>10 DEF SameCall
  <2>12. local # Nil => SameCall(local, est) /\ (args.input = Nil => SameCall(up, local))
    BY <2>6, <2>7, <2>8 DEF SameCall
  <2>. QED
    BY <2>9, <2>11, <2>12 DEF args, local, sent, est, up
<1>. QED
  BY <1>1, TidyAlways, PTL

\* preprocessArgs replaces the random address, as the sender and in data, by
\* accounts impersonated since the request arrived or in neither place, with
\* any number of other requests in flight and options changing; calldata
\* given as input runs as it is.
THEOREM SingleIdentity == Spec => []OneIdentity
BY TidyAlways, PTL
=============================================================================
