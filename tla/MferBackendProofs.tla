-------------------------- MODULE MferBackendProofs --------------------------
(***************************************************************************)
(* Proofs about MferBackend, for any number of clients, senders and        *)
(* transactions and every way Prepare may end.                             *)
(***************************************************************************)
EXTENDS MferBackend, FiniteSetTheorems, SequenceTheorems, TLAPS

Results == {"ok", "rejected"}

\* The requests that work under the state lock.
Locked == {"sendTransaction", "reExecTxPool", "resetState"}

\* A handler that has entered its critical section.
Inside(c) == pc[c] \notin {"idle", "lock"} /\ req[c] \in Locked

\* StateLock: exactly the handler that is inside holds the lock.
LockHeld == \A c \in Clients : lock = c <=> Inside(c)

\* The layers of the state are derived one after the other.
MarksOrdered == \A i, j \in 1 .. Len(marks) : i <= j => marks[i] <= marks[j]

Sends(c) == req[c] \in {"sendTransaction", "sendRawTransaction"}

\* Which requests come by a program point, and what they carry there.
Local(c) ==
    /\ pc[c] = "lock" => req[c] \in Locked \cup {"clearTxPool"}
    /\ pc[c] = "lock" /\ req[c] = "sendTransaction" => Len(todo[c]) = 1
    /\ pc[c] = "prepare" => req[c] \in {"reExecTxPool", "resetState", "traceBlocks"}
    /\ pc[c] = "initState" => req[c] = "traceBlocks"
    /\ pc[c] = "return" => req[c] = "resetState"
    /\ pc[c] \in {"getPool", "results"} => req[c] = "reExecTxPool"
    /\ pc[c] \in {"idle", "lock", "prepare", "getPool"} => outs[c] = <<>>
    /\ pc[c] \in {"begin", "check", "commit"} =>
          \/ Sends(c) /\ Len(todo[c]) = 1 /\ outs[c] = <<>>
          \/ req[c] = "reExecTxPool" /\ Len(todo[c]) > 0
    /\ pc[c] = "add" => Sends(c) /\ Len(todo[c]) = 1 /\ Len(outs[c]) = 1

\* What holds whether or not handlers overlap.
Shape ==
    /\ TypeOK
    /\ MarksOrdered
    /\ LockHeld
    /\ \A c \in Clients : Local(c)

\* The pool explains the state.
PoolOK ==
    /\ Len(txs) = Len(results)
    /\ base \in 0 .. Len(txs)
    /\ Explains(applied, txs, results, base)

\* A re-execution: the results so far explain the state, and the rest of the
\* pool is still to be run.
Replayed(c) == base = 0 /\ Explains(applied, txs, outs[c], 0)

Follows(pool, res, rest) ==
    /\ Len(pool) = Len(res) + Len(rest)
    /\ \A j \in 1 .. Len(rest) : pool[Len(res) + j] = rest[j]

Remaining(c) == Follows(txs, outs[c], todo[c])

\* How far the one handler at work has come with the state and the pool.
Progress(c) ==
    /\ pc[c] = "lock" => txs = <<>> /\ results = <<>>
    /\ pc[c] \in {"prepare", "initState"} => PoolOK
    /\ pc[c] = "getPool" => applied = <<>>
    /\ pc[c] \in {"begin", "check", "commit"} /\ Sends(c) => PoolOK
    /\ pc[c] \in {"begin", "check", "commit"} /\ req[c] = "reExecTxPool" =>
          Replayed(c) /\ Remaining(c)
    /\ pc[c] = "check" => Len(marks) = snap[c] + 1 /\ marks[snap[c] + 1] = Len(applied)
    /\ pc[c] = "add" =>
          /\ Len(txs) = Len(results)
          /\ base \in 0 .. Len(txs)
          /\ Explains(applied, Append(txs, todo[c][1]), Append(results, outs[c][1]), base)
    /\ pc[c] = "results" => Replayed(c) /\ Len(outs[c]) = Len(txs)

\* Unless handlers have overlapped, at most one is at work, and the state is
\* what the pool says up to what that one has done.
Explained ==
    ~parted =>
        /\ \A c, d \in Clients : Busy(c) /\ Busy(d) => c = d
        /\ (\A c \in Clients : ~Busy(c)) => PoolOK
        /\ \A c \in Clients : Busy(c) => Progress(c)

Step(c) == Arrive(c) \/ TakeLock(c) \/ Work(c)

-----------------------------------------------------------------------------
(* Sequences and nonces. *)

\* A nonce counts transactions.
LEMMA NonceType == ASSUME applied \in Seq(Txs), NEW from PROVE GetNonce(from) \in Nat
<1>1. IsFiniteSet(1 .. Len(applied))
  BY FS_Interval
<1>2. IsFiniteSet({i \in DOMAIN applied : applied[i][2] = from})
  BY <1>1, FS_Subset
<1>. QED
  BY <1>2, FS_CardinalityType DEF GetNonce

\* Counting down a list of calls.
LEMMA Positive ==
    ASSUME NEW n \in Nat
    PROVE  /\ n = 1 \/ n > 0 => n > 0
           /\ n > 0 => n = 1 \/ n > 1
           /\ n > 1 => n # 1 /\ n - 1 > 0
OBVIOUS

\* The fields of a transaction.
LEMMA TxFields == ASSUME NEW tx \in Txs
                  PROVE  tx[1] \in 1 .. MaxTxs /\ tx[2] \in Senders /\ tx[3] \in Nat
BY DEF Txs

\* A handler's call is made of the fields of a transaction.
LEMMA TxOf == ASSUME NEW i \in 1 .. MaxTxs, NEW from \in Senders, NEW n \in Nat
              PROVE  <<<<i, from, n>>>> \in Seq(Txs) /\ Len(<<<<i, from, n>>>>) = 1
BY DEF Txs

\* RevertToSnapshot pops layers: what is left is a state and its layers.
LEMMA PopLayers ==
    ASSUME applied \in Seq(Txs), marks \in Seq(0 .. Len(applied)), MarksOrdered,
           NEW n \in Nat, n < Len(marks)
    PROVE  /\ SubSeq(applied, 1, marks[n + 1]) \in Seq(Txs)
           /\ Len(SubSeq(applied, 1, marks[n + 1])) = marks[n + 1]
           /\ SubSeq(marks, 1, n) \in Seq(0 .. marks[n + 1])
           /\ Len(SubSeq(marks, 1, n)) = n
           /\ \A i \in 1 .. n : SubSeq(marks, 1, n)[i] = marks[i]
<1>1. n + 1 \in 1 .. Len(marks) /\ marks[n + 1] \in 0 .. Len(applied)
  OBVIOUS
<1>2. \A i \in 1 .. n : marks[i] \in 0 .. marks[n + 1]
  BY <1>1 DEF MarksOrdered
<1>. QED
  BY <1>1, <1>2

-----------------------------------------------------------------------------
(* Shape is inductive. *)

\* The node starts with nobody inside.
LEMMA InitShape == Init => Shape
<1>. SUFFICES ASSUME Init PROVE Shape
  OBVIOUS
<1>1. applied \in Seq(Txs) /\ txs \in Seq(Txs) /\ results \in Seq(Results)
      /\ marks \in Seq(0 .. Len(applied))
  BY DEF Init
<1>2. todo \in [Clients -> Seq(Txs)] /\ outs \in [Clients -> Seq(Results)]
       /\ snap \in [Clients -> Nat]
  BY DEF Init
<1>3. pc \in [Clients -> Labels] /\ req \in [Clients -> Requests \cup {None}]
       /\ lock \in Clients \cup {None}
  BY DEF Init, Labels
<1>4. sent \in 0 .. MaxTxs /\ base \in Nat
  BY RequestsAssumption DEF Init
<1>5. parted \in BOOLEAN
  BY DEF Init
<1>6. TypeOK
  BY <1>1, <1>2, <1>3, <1>4, <1>5 DEF TypeOK, Results
<1>7. MarksOrdered
  BY DEF Init, MarksOrdered
<1>8. LockHeld
  BY RequestsAssumption DEF Init, LockHeld, Inside
<1>9. \A c \in Clients : Local(c)
  BY DEF Init, Local
<1>. QED
  BY <1>6, <1>7, <1>8, <1>9 DEF Shape

\* A step of one handler leaves the locals of the others alone.
LEMMA OthersKeep ==
    ASSUME TypeOK, NEW c \in Clients, Step(c), NEW d \in Clients \ {c}
    PROVE  /\ pc'[d] = pc[d] /\ req'[d] = req[d] /\ todo'[d] = todo[d]
           /\ outs'[d] = outs[d] /\ snap'[d] = snap[d]
<1>. USE DEF TypeOK, execVars, Goto
<1>1. CASE Arrive(c)
  BY <1>1 DEF Arrive, SendTransaction, ReExecOrReset, ClearTxPool, SendRawTransaction,
              TraceBlocks, ClearKeyCache, Start
<1>2. CASE TakeLock(c)
  BY <1>2 DEF TakeLock, LockToSend, LockToPrepare, LockToClear, Acquire, Return
<1>3. CASE Work(c)
  <2>1. CASE Prepare(c) \/ PrepareErr(c) \/ PreparePanic(c) \/ TraceInit(c)
             \/ ResetReturns(c) \/ GetPoolTxs(c)
    BY <2>1 DEF Prepare, PrepareErr, PreparePanic, TraceInit, ResetReturns, GetPoolTxs, Return
  <2>2. CASE Begin(c) \/ Accept(c) \/ Commit(c) \/ Reject(c) \/ RejectPanics(c)
    BY <2>2 DEF Begin, Accept, Commit, Reject, RejectPanics, Record, Return
  <2>3. CASE Add(c) \/ SetResults(c)
    BY <2>3 DEF Add, SetResults, Return
  <2>. QED
    BY <1>3, <2>1, <2>2, <2>3 DEF Work
<1>. QED
  BY <1>1, <1>2, <1>3 DEF Step

\* So only its own place in the code and the lock matter for Shape.
LEMMA ShapeOfOne ==
    ASSUME Shape, NEW c \in Clients, Step(c),
           TypeOK', MarksOrdered', Local(c)',
           lock' = c <=> Inside(c)',
           \A d \in Clients \ {c} : lock' = d <=> lock = d
    PROVE  Shape'
<1>. USE DEF Shape
<1>1. \A d \in Clients \ {c} : Local(d)'
  BY OthersKeep DEF Local, Sends
<1>2. \A d \in Clients \ {c} : Inside(d)' <=> Inside(d)
  BY OthersKeep DEF Inside
<1>3. LockHeld'
  BY <1>2 DEF LockHeld
<1>. QED
  BY <1>1, <1>3

\* Returning (or panicking) from a handler gives the lock back if it was
\* held, and forgets the locals.
LEMMA ReturnEffect ==
    ASSUME Shape, NEW c \in Clients, Return(c)
    PROVE  /\ pc'[c] = "idle" /\ req'[c] = None /\ todo'[c] = <<>> /\ outs'[c] = <<>>
           /\ pc' \in [Clients -> Labels] /\ req' \in [Clients -> Requests \cup {None}]
           /\ todo' \in [Clients -> Seq(Txs)] /\ outs' \in [Clients -> Seq(Results)]
           /\ snap' \in [Clients -> Nat] /\ lock' \in Clients \cup {None}
           /\ Local(c)'
           /\ lock' # c /\ ~Inside(c)'
           /\ \A d \in Clients \ {c} : lock' = d <=> lock = d
<1>. USE DEF Return, Shape, TypeOK, Goto, Labels, Results
<1>1. /\ pc'[c] = "idle" /\ req'[c] = None /\ todo'[c] = <<>> /\ outs'[c] = <<>>
      /\ pc' \in [Clients -> Labels] /\ req' \in [Clients -> Requests \cup {None}]
      /\ todo' \in [Clients -> Seq(Txs)] /\ outs' \in [Clients -> Seq(Results)]
      /\ snap' \in [Clients -> Nat] /\ lock' \in Clients \cup {None}
  OBVIOUS
<1>2. Local(c)'
  BY <1>1 DEF Local
<1>3. lock' # c /\ \A d \in Clients \ {c} : lock' = d <=> lock = d
  BY RequestsAssumption
<1>. QED
  BY <1>1, <1>2, <1>3 DEF Inside

\* Two states that agree on the layers have them in the same order.
LEMMA MarksKept == ASSUME MarksOrdered, UNCHANGED marks PROVE MarksOrdered'
BY DEF MarksOrdered

\* InitState leaves one layer, at the bottom.
LEMMA InitStateEffect ==
    ASSUME InitState
    PROVE  applied' = <<>> /\ marks' = <<0>> /\ MarksOrdered'
           /\ applied' \in Seq(Txs) /\ marks' \in Seq(0 .. Len(applied'))
BY DEF InitState, MarksOrdered

\* A call that arrives keeps Shape.
LEMMA ArriveShape ==
    ASSUME Shape, NEW c \in Clients, Arrive(c), parted' \in BOOLEAN
    PROVE  Shape'
<1>. USE DEF Shape
<1>0. Step(c)
  BY DEF Step
<1>1. ASSUME NEW from \in Senders, SendTransaction(c, from) PROVE Shape'
  <2>. USE <1>1 DEF SendTransaction, Start, Goto, stateVars, poolVars
  <2>0. /\ sent + 1 \in 1 .. MaxTxs /\ sent' \in 0 .. MaxTxs
        /\ <<<<sent + 1, from, 0>>>> \in Seq(Txs)
        /\ Len(<<<<sent + 1, from, 0>>>>) = 1
    BY TxOf, RequestsAssumption DEF TypeOK
  <2>1. /\ pc[c] = "idle" /\ pc'[c] = "lock" /\ req'[c] = "sendTransaction"
        /\ Len(todo'[c]) = 1 /\ UNCHANGED <<outs, lock>>
        /\ todo' \in [Clients -> Seq(Txs)]
    BY <2>0 DEF TypeOK
  <2>2. TypeOK'
    BY <2>0, <2>1 DEF TypeOK, Labels
  <2>3. Local(c)'
    BY <2>1 DEF Local, Locked
  <2>4. lock' = c <=> Inside(c)'
    BY <2>1 DEF LockHeld, Inside
  <2>. QED
    BY <1>0, <2>1, <2>2, <2>3, <2>4, MarksKept, ShapeOfOne
<1>2. CASE ReExecOrReset(c)
  <2>. USE <1>2 DEF ReExecOrReset, Start, Goto, stateVars, poolVars, execVars
  <2>1. /\ pc[c] = "idle" /\ pc'[c] = "lock" /\ req'[c] \in {"reExecTxPool", "resetState"}
        /\ UNCHANGED <<outs, todo, lock>>
    BY DEF TypeOK
  <2>2. TypeOK'
    BY <2>1 DEF TypeOK, Labels
  <2>3. Local(c)'
    BY <2>1 DEF Local, Locked
  <2>4. lock' = c <=> Inside(c)'
    BY <2>1 DEF LockHeld, Inside
  <2>. QED
    BY <1>0, <2>1, <2>2, <2>3, <2>4, MarksKept, ShapeOfOne
<1>3. CASE ClearTxPool(c)
  <2>. USE <1>3 DEF ClearTxPool, Start, Goto, stateVars, execVars
  <2>1. /\ pc[c] = "idle" /\ pc'[c] = "lock" /\ req'[c] = "clearTxPool"
        /\ UNCHANGED <<outs, todo, lock>>
    BY DEF TypeOK
  <2>2. TypeOK'
    BY <2>1 DEF TypeOK, Labels
  <2>3. Local(c)'
    BY <2>1 DEF Local, Locked
  <2>4. lock' = c <=> Inside(c)'
    BY <2>1 DEF LockHeld, Inside
  <2>. QED
    BY <1>0, <2>1, <2>2, <2>3, <2>4, MarksKept, ShapeOfOne
<1>4. ASSUME NEW from \in Senders, NEW nonce \in 0 .. MaxTxs,
             SendRawTransaction(c, from, nonce)
      PROVE  Shape'
  <2>. USE <1>4 DEF SendRawTransaction, Start, Goto, stateVars, poolVars
  <2>0. /\ sent + 1 \in 1 .. MaxTxs /\ sent' \in 0 .. MaxTxs
        /\ <<<<sent + 1, from, nonce>>>> \in Seq(Txs)
        /\ Len(<<<<sent + 1, from, nonce>>>>) = 1
    <3>1. sent \in 0 .. MaxTxs /\ sent < MaxTxs /\ sent' = sent + 1
      BY DEF TypeOK
    <3>2. sent + 1 \in 1 .. MaxTxs /\ sent' \in 0 .. MaxTxs /\ nonce \in Nat
      BY <3>1, RequestsAssumption
    <3>. QED
      BY <3>2, TxOf
  <2>1. /\ pc[c] = "idle" /\ pc'[c] = "begin" /\ req'[c] = "sendRawTransaction"
        /\ Len(todo'[c]) = 1 /\ UNCHANGED <<outs, lock>>
        /\ todo' \in [Clients -> Seq(Txs)]
    BY <2>0 DEF TypeOK
  <2>2. TypeOK'
    BY <2>0, <2>1 DEF TypeOK, Labels
  <2>3. Local(c)'
    BY <2>1 DEF Local, Locked, Sends
  <2>4. lock' = c <=> Inside(c)'
    BY <2>1 DEF LockHeld, Inside, Locked
  <2>. QED
    BY <1>0, <2>1, <2>2, <2>3, <2>4, MarksKept, ShapeOfOne
<1>5. CASE TraceBlocks(c)
  <2>. USE <1>5 DEF TraceBlocks, Start, Goto, stateVars, poolVars, execVars
  <2>1. /\ pc[c] = "idle" /\ pc'[c] = "prepare" /\ req'[c] = "traceBlocks"
        /\ UNCHANGED <<outs, todo, lock>>
    BY DEF TypeOK
  <2>2. TypeOK'
    BY <2>1 DEF TypeOK, Labels
  <2>3. Local(c)'
    BY <2>1 DEF Local, Locked
  <2>4. lock' = c <=> Inside(c)'
    BY <2>1 DEF LockHeld, Inside, Locked
  <2>. QED
    BY <1>0, <2>1, <2>2, <2>3, <2>4, MarksKept, ShapeOfOne
<1>6. CASE ClearKeyCache(c)
  <2>. USE <1>6 DEF ClearKeyCache, poolVars, execVars
  <2>1. TypeOK'
    BY InitStateEffect DEF TypeOK
  <2>2. Local(c)' /\ UNCHANGED <<lock, pc, req>>
    BY DEF Local, Sends
  <2>3. lock' = c <=> Inside(c)'
    BY <2>2 DEF LockHeld, Inside
  <2>. QED
    BY <1>0, <2>1, <2>2, <2>3, InitStateEffect, ShapeOfOne
<1>. QED
  BY <1>1, <1>2, <1>3, <1>4, <1>5, <1>6 DEF Arrive

\* Taking the lock keeps Shape: it was free, so nobody else is inside.
LEMMA TakeLockShape ==
    ASSUME Shape, NEW c \in Clients, TakeLock(c), parted' \in BOOLEAN
    PROVE  Shape'
<1>. USE DEF Shape
<1>0. Step(c)
  BY DEF Step
<1>1. CASE LockToSend(c)
  <2>. USE <1>1 DEF LockToSend, Acquire, Goto, stateVars, poolVars
  <2>1. Len(todo[c]) = 1 /\ todo[c] \in Seq(Txs) /\ todo[c][1] \in Txs
    BY DEF Local, TypeOK
  <2>. DEFINE tx == todo[c][1]
              call == <<<<tx[1], tx[2], GetNonce(tx[2])>>>>
  <2>2. call \in Seq(Txs) /\ Len(call) = 1
    BY <2>1, TxFields, TxOf, NonceType DEF TypeOK
  <2>3. /\ todo' = [todo EXCEPT ![c] = call]
        /\ pc'[c] = "begin" /\ req'[c] = "sendTransaction" /\ UNCHANGED outs
        /\ lock = None /\ lock' = c
    BY DEF TypeOK
  <2>. HIDE DEF call
  <2>4. TypeOK'
    BY <2>2, <2>3 DEF TypeOK, Labels
  <2>5. Local(c)'
    BY <2>2, <2>3 DEF Local, Sends, Locked, TypeOK
  <2>6. lock' = c <=> Inside(c)'
    BY <2>3 DEF Inside, Locked
  <2>. QED
    BY <1>0, <2>3, <2>4, <2>5, <2>6, MarksKept, ShapeOfOne, RequestsAssumption
<1>2. CASE LockToPrepare(c)
  <2>. USE <1>2 DEF LockToPrepare, Acquire, Goto, stateVars, poolVars, execVars
  <2>1. /\ pc'[c] = "prepare" /\ req'[c] \in {"reExecTxPool", "resetState"}
        /\ pc[c] = "lock" /\ UNCHANGED <<todo, outs>> /\ lock = None /\ lock' = c
    BY DEF TypeOK
  <2>2. TypeOK'
    BY <2>1 DEF TypeOK, Labels
  <2>3. Local(c)'
    BY <2>1 DEF Local
  <2>4. lock' = c <=> Inside(c)'
    BY <2>1 DEF Inside, Locked
  <2>. QED
    BY <1>0, <2>1, <2>2, <2>3, <2>4, MarksKept, ShapeOfOne, RequestsAssumption
<1>3. CASE LockToClear(c)
  <2>. USE <1>3 DEF LockToClear, poolVars
  <2>1. TypeOK'
    BY InitStateEffect, ReturnEffect DEF TypeOK, Results
  <2>. QED
    BY <1>0, <2>1, InitStateEffect, ReturnEffect, ShapeOfOne
<1>. QED
  BY <1>1, <1>2, <1>3 DEF TakeLock

\* Prepare and what surrounds it keep Shape, errors and panics included.
LEMMA PrepareShape ==
    ASSUME Shape, NEW c \in Clients, parted' \in BOOLEAN,
           Prepare(c) \/ PrepareErr(c) \/ PreparePanic(c) \/ TraceInit(c)
           \/ ResetReturns(c) \/ GetPoolTxs(c)
    PROVE  Shape'
<1>. USE DEF Shape
<1>0. Step(c)
  BY DEF Step, Work
<1>1. ASSUME pc[c] = "prepare", Goto(c, AfterPrepare(req[c])), UNCHANGED <<lock, req, execVars>>
      PROVE  /\ pc' \in [Clients -> Labels] /\ Local(c)' /\ (lock' = c <=> Inside(c)')
             /\ UNCHANGED <<todo, outs, snap>>
  <2>1. req[c] \in {"reExecTxPool", "resetState", "traceBlocks"} /\ outs[c] = <<>>
    BY <1>1 DEF Local
  <2>2. /\ pc' \in [Clients -> Labels] /\ pc'[c] = AfterPrepare(req[c])
        /\ AfterPrepare(req[c]) = (CASE req[c] = "reExecTxPool" -> "getPool"
                                     [] req[c] = "traceBlocks" -> "initState"
                                     [] req[c] = "resetState" -> "return")
    BY <1>1, <2>1 DEF TypeOK, Goto, AfterPrepare, Labels
  <2>3. Local(c)'
    BY <1>1, <2>1, <2>2 DEF Local, execVars
  <2>4. lock' = c <=> Inside(c)'
    BY <1>1, <2>1, <2>2 DEF LockHeld, Inside, Locked
  <2>. QED
    BY <1>1, <2>2, <2>3, <2>4 DEF execVars
<1>2. CASE Prepare(c)
  <2>. USE <1>2 DEF Prepare, poolVars
  <2>1. TypeOK'
    BY <1>1, InitStateEffect DEF TypeOK
  <2>. QED
    BY <1>0, <1>1, <2>1, InitStateEffect, ShapeOfOne
<1>3. CASE PrepareErr(c)
  <2>. USE <1>3 DEF PrepareErr, poolVars, stateVars
  <2>1. TypeOK'
    BY <1>1 DEF TypeOK
  <2>. QED
    BY <1>0, <1>1, <2>1, MarksKept, ShapeOfOne
<1>4. CASE PreparePanic(c)
  <2>. USE <1>4 DEF PreparePanic, poolVars, stateVars
  <2>1. /\ applied' \in Seq(Txs) /\ marks' \in Seq(0 .. Len(applied')) /\ base' \in Nat
        /\ MarksOrdered'
    <3>1. CASE UNCHANGED <<applied, marks, base>>
      BY <3>1, MarksKept DEF TypeOK
    <3>2. CASE applied' = <<>> /\ marks' = <<>> /\ base' = Len(txs)
      BY <3>2 DEF TypeOK, MarksOrdered
    <3>. QED
      BY <3>1, <3>2
  <2>2. TypeOK'
    BY <2>1, ReturnEffect DEF TypeOK, Results
  <2>. QED
    BY <1>0, <2>1, <2>2, ReturnEffect, ShapeOfOne
<1>5. CASE TraceInit(c)
  <2>. USE <1>5 DEF TraceInit, poolVars
  <2>1. TypeOK'
    BY InitStateEffect, ReturnEffect, SMTT(30) DEF TypeOK, Results
  <2>. QED
    BY <1>0, <2>1, InitStateEffect, ReturnEffect, ShapeOfOne
<1>6. CASE ResetReturns(c)
  <2>. USE <1>6 DEF ResetReturns, poolVars, stateVars
  <2>1. TypeOK'
    BY ReturnEffect DEF TypeOK, Results
  <2>. QED
    BY <1>0, <2>1, MarksKept, ReturnEffect, ShapeOfOne
<1>7. CASE GetPoolTxs(c)
  <2>. USE <1>7 DEF GetPoolTxs, Goto, poolVars, stateVars
  <2>1. req[c] = "reExecTxPool" /\ outs[c] = <<>> /\ pc[c] = "getPool"
    BY DEF Local
  <2>2. /\ pc'[c] = (IF txs = <<>> THEN "results" ELSE "begin")
        /\ todo'[c] = txs /\ UNCHANGED <<req, outs, lock>>
    BY DEF TypeOK
  <2>3. TypeOK'
    BY <2>1 DEF TypeOK, Labels
  <2>4. txs # <<>> => Len(txs) > 0
    BY DEF TypeOK
  <2>5. Local(c)'
    BY <2>1, <2>2, <2>4 DEF Local
  <2>6. lock' = c <=> Inside(c)'
    BY <2>1, <2>2 DEF LockHeld, Inside, Locked
  <2>. QED
    BY <1>0, <2>2, <2>3, <2>5, <2>6, MarksKept, ShapeOfOne
<1>. QED
  BY <1>2, <1>3, <1>4, <1>5, <1>6, <1>7

\* Recording a result keeps a handler's locals in order: it goes on with a
\* shorter list or, with its last transaction still at hand, to the pool.
LEMMA RecordEffect ==
    ASSUME Shape, NEW c \in Clients, NEW result \in Results, Record(c, result),
           pc[c] \in {"check", "commit"}, UNCHANGED <<lock, req>>
    PROVE  /\ pc' \in [Clients -> Labels] /\ todo' \in [Clients -> Seq(Txs)]
           /\ outs' \in [Clients -> Seq(Results)] /\ snap' \in [Clients -> Nat]
           /\ outs'[c] = Append(outs[c], result)
           /\ todo'[c] = IF Len(todo[c]) = 1 THEN todo[c] ELSE Tail(todo[c])
           /\ pc'[c] = IF Len(todo[c]) > 1 THEN "begin"
                       ELSE IF req[c] = "reExecTxPool" THEN "results" ELSE "add"
           /\ Local(c)' /\ (lock' = c <=> Inside(c)')
<1>. USE DEF Sends
<1>0. /\ todo[c] \in Seq(Txs) /\ outs[c] \in Seq(Results) /\ Len(todo[c]) \in Nat
      /\ Local(c) /\ TypeOK /\ LockHeld
  BY DEF Shape, TypeOK, Results
<1>1. /\ todo[c] \in Seq(Txs) /\ Len(todo[c]) > 0 /\ outs[c] \in Seq(Results)
      /\ \/ Sends(c) /\ Len(todo[c]) = 1 /\ outs[c] = <<>>
         \/ req[c] = "reExecTxPool"
  <2>1. \/ Sends(c) /\ Len(todo[c]) = 1 /\ outs[c] = <<>>
        \/ req[c] = "reExecTxPool" /\ Len(todo[c]) > 0
    BY <1>0 DEF Local
  <2>2. Len(todo[c]) = 1 \/ Len(todo[c]) > 0
    BY <2>1, Zenon
  <2>3. Len(todo[c]) > 0
    BY <1>0, <2>2, Positive, Zenon
  <2>. QED
    BY <1>0, <2>1, <2>3, Zenon
<1>6. Len(todo[c]) = 1 \/ Len(todo[c]) > 1
  BY <1>0, <1>1, Positive, Zenon
<1>2. /\ Append(outs[c], result) \in Seq(Results)
      /\ Len(Append(outs[c], result)) = Len(outs[c]) + 1
      /\ Tail(todo[c]) \in Seq(Txs) /\ Len(Tail(todo[c])) = Len(todo[c]) - 1
  BY <1>1
<1>3. /\ pc' \in [Clients -> Labels] /\ todo' \in [Clients -> Seq(Txs)]
      /\ outs' \in [Clients -> Seq(Results)] /\ snap' \in [Clients -> Nat]
      /\ outs'[c] = Append(outs[c], result)
      /\ todo'[c] = IF Len(todo[c]) = 1 THEN todo[c] ELSE Tail(todo[c])
      /\ pc'[c] = IF Len(todo[c]) > 1 THEN "begin"
                  ELSE IF req[c] = "reExecTxPool" THEN "results" ELSE "add"
  BY <1>0, <1>1, <1>2 DEF Record, Goto, TypeOK, Labels, Results
<1>4. Local(c)'
  <2>1. CASE Len(todo[c]) > 1
    <3>1. /\ Len(todo[c]) # 1 /\ Len(Tail(todo[c])) > 0
      BY <1>0, <1>2, <2>1, Positive, ZenonT(40)
    <3>2. /\ req'[c] = "reExecTxPool" /\ pc'[c] = "begin" /\ todo'[c] = Tail(todo[c])
      BY <1>1, <1>3, <2>1, <3>1
    <3>. QED
      BY <3>1, <3>2 DEF Local
  <2>2. CASE Len(todo[c]) = 1 /\ req[c] = "reExecTxPool"
    BY <1>3, <2>2 DEF Local
  <2>3. CASE Len(todo[c]) = 1 /\ Sends(c) /\ outs[c] = <<>>
    BY <1>2, <1>3, <2>3 DEF Local
  <2>. QED
    BY <1>1, <1>6, <2>1, <2>2, <2>3, Zenon
<1>5. lock' = c <=> Inside(c)'
  BY <1>0, <1>3 DEF LockHeld, Inside
<1>. QED
  BY <1>3, <1>4, <1>5

\* ExecuteTxs and the handlers' last steps keep Shape, whatever another
\* handler has done to the layers in between.
LEMMA ExecuteShape ==
    ASSUME Shape, NEW c \in Clients, parted' \in BOOLEAN,
           Begin(c) \/ Accept(c) \/ Commit(c) \/ Reject(c) \/ RejectPanics(c)
           \/ Add(c) \/ SetResults(c)
    PROVE  Shape'
<1>. USE DEF Shape
<1>0. Step(c)
  BY DEF Step, Work
<1>1. CASE Begin(c)
  <2>. USE <1>1 DEF Begin, Goto, poolVars
  <2>1. pc[c] = "begin" /\ pc'[c] = "check" /\ UNCHANGED <<req, todo, outs, lock>>
    BY DEF TypeOK
  <2>2. /\ marks' \in Seq(0 .. Len(applied)) /\ Len(marks') = Len(marks) + 1
        /\ \A i \in 1 .. Len(marks) : marks'[i] = marks[i] /\ marks[i] <= Len(applied)
        /\ marks'[Len(marks) + 1] = Len(applied)
    BY DEF TypeOK
  <2>3. MarksOrdered'
    BY <2>2, SMTT(30) DEF MarksOrdered, TypeOK
  <2>4. TypeOK'
    BY <2>2 DEF TypeOK, Labels
  <2>5. Local(c)'
    BY <2>1 DEF Local, Sends
  <2>6. lock' = c <=> Inside(c)'
    BY <2>1 DEF LockHeld, Inside
  <2>. QED
    BY <1>0, <2>1, <2>3, <2>4, <2>5, <2>6, ShapeOfOne
<1>2. CASE Accept(c)
  <2>. USE <1>2 DEF Accept, Goto, stateVars, poolVars, execVars
  <2>1. pc[c] = "check" /\ pc'[c] = "commit" /\ UNCHANGED <<req, todo, outs, lock>>
    BY DEF TypeOK
  <2>2. TypeOK'
    BY DEF TypeOK, Labels
  <2>3. Local(c)'
    BY <2>1 DEF Local, Sends
  <2>4. lock' = c <=> Inside(c)'
    BY <2>1 DEF LockHeld, Inside
  <2>. QED
    BY <1>0, <2>1, <2>2, <2>3, <2>4, MarksKept, ShapeOfOne
<1>3. CASE Commit(c)
  <2>. USE <1>3 DEF Commit, poolVars
  <2>1. todo[c] \in Seq(Txs) /\ Len(todo[c]) > 0 /\ Head(todo[c]) \in Txs
    BY DEF Local, TypeOK
  <2>2. applied' \in Seq(Txs) /\ Len(applied') = Len(applied) + 1
    BY <2>1 DEF TypeOK
  <2>3. marks' \in Seq(0 .. Len(applied'))
    <3>1. 0 .. Len(applied) \subseteq 0 .. Len(applied')
      BY <2>2 DEF TypeOK
    <3>. QED
      BY <3>1 DEF TypeOK
  <2>4. TypeOK'
    BY <2>2, <2>3, RecordEffect DEF TypeOK, Results
  <2>. QED
    BY <1>0, <2>4, MarksKept, RecordEffect, ShapeOfOne DEF Results
<1>4. CASE Reject(c)
  <2>. USE <1>4 DEF Reject, poolVars
  <2>1. snap[c] \in Nat /\ snap[c] < Len(marks)
    BY DEF TypeOK
  <2>2. /\ applied' \in Seq(Txs) /\ marks' \in Seq(0 .. Len(applied'))
        /\ Len(marks') = snap[c] /\ \A i \in 1 .. snap[c] : marks'[i] = marks[i]
    BY <2>1, PopLayers DEF TypeOK
  <2>3. MarksOrdered'
    <3>1. Len(marks) \in Nat /\ 1 .. snap[c] \subseteq 1 .. Len(marks)
      BY <2>1, SMTT(30) DEF TypeOK
    <3>. QED
      BY <2>1, <2>2, <3>1 DEF MarksOrdered
  <2>4. TypeOK'
    BY <2>2, RecordEffect DEF TypeOK, Results
  <2>. QED
    BY <1>0, <2>3, <2>4, RecordEffect, ShapeOfOne DEF Results
<1>5. CASE RejectPanics(c)
  <2>. USE <1>5 DEF RejectPanics, poolVars, stateVars
  <2>1. TypeOK'
    BY ReturnEffect DEF TypeOK, Results
  <2>. QED
    BY <1>0, <2>1, MarksKept, ReturnEffect, ShapeOfOne
<1>6. CASE Add(c)
  <2>. USE <1>6 DEF Add, AddTx, stateVars
  <2>1. todo[c][1] \in Txs /\ outs[c][1] \in Results
    BY DEF Local, TypeOK, Results
  <2>2. txs' \in Seq(Txs) /\ results' \in Seq(Results)
    BY <2>1 DEF TypeOK, Results
  <2>3. TypeOK'
    BY <2>2, ReturnEffect DEF TypeOK, Results
  <2>. QED
    BY <1>0, <2>3, MarksKept, ReturnEffect, ShapeOfOne
<1>7. CASE SetResults(c)
  <2>. USE <1>7 DEF SetResults, stateVars
  <2>1. TypeOK'
    BY ReturnEffect DEF TypeOK, Results
  <2>. QED
    BY <1>0, <2>1, MarksKept, ReturnEffect, ShapeOfOne
<1>. QED
  BY <1>1, <1>2, <1>3, <1>4, <1>5, <1>6, <1>7

\* Shape is inductive.
LEMMA NextShape == Shape /\ [Next]_vars => Shape'
<1>. SUFFICES ASSUME Shape, [Next]_vars PROVE Shape'
  OBVIOUS
<1>1. ASSUME NEW c \in Clients, Tracked(c, Step(c)) PROVE Shape'
  <2>1. Step(c) /\ parted' = Parting(c)
    BY <1>1 DEF Tracked
  <2>2. parted' \in BOOLEAN
    <3>1. parted \in BOOLEAN
      BY DEF Shape, TypeOK
    <3>. QED
      BY <2>1, <3>1, Zenon DEF Parting
  <2>. QED
    BY <2>1, <2>2, ArriveShape, TakeLockShape, PrepareShape, ExecuteShape DEF Step, Work
<1>2. CASE UNCHANGED vars
  BY <1>2 DEF vars, stateVars, poolVars, execVars, Shape, TypeOK, MarksOrdered, LockHeld,
              Inside, Local, Sends
<1>. QED
  BY <1>1, <1>2 DEF Next, Step

\* Every state of MferBackend has this shape.
LEMMA ShapeInductive == Spec => []Shape
BY InitShape, NextShape, PTL DEF Spec

-----------------------------------------------------------------------------
(* What a list of results explains. *)

\* The executed entries up to a place are finitely many.
LEMMA ExecutedFinite ==
    ASSUME NEW res \in Seq(Results), NEW b \in Nat, NEW j \in Nat
    PROVE  /\ IsFiniteSet(Executed(res, b, j))
           /\ Cardinality(Executed(res, b, j)) \in Nat
<1>1. IsFiniteSet(b + 1 .. j)
  BY FS_Interval
<1>2. IsFiniteSet(Executed(res, b, j))
  BY <1>1, FS_Subset DEF Executed
<1>. QED
  BY <1>2, FS_CardinalityType

\* They do not depend on what comes later in the list.
LEMMA ExecutedPrefix ==
    ASSUME NEW res \in Seq(Results), NEW r \in Results, NEW b \in Nat,
           NEW j \in 0 .. Len(res)
    PROVE  Executed(Append(res, r), b, j) = Executed(res, b, j)
BY DEF Executed

\* One more entry counts if it was executed.
LEMMA ExecutedAppend ==
    ASSUME NEW res \in Seq(Results), NEW r \in Results, NEW b \in 0 .. Len(res)
    PROVE  LET n == Len(res) + 1 IN
           /\ Len(Append(res, r)) = n
           /\ Executed(Append(res, r), b, n) =
                 IF r = "ok" THEN Executed(res, b, Len(res)) \cup {n}
                             ELSE Executed(res, b, Len(res))
           /\ n \notin Executed(res, b, Len(res))
<1>. DEFINE n == Len(res) + 1
<1>1. /\ Len(Append(res, r)) = n /\ Append(res, r)[n] = r
      /\ \A i \in 1 .. Len(res) : Append(res, r)[i] = res[i]
      /\ n \in b + 1 .. n
  OBVIOUS
<1>2. b + 1 .. n = (b + 1 .. Len(res)) \cup {n} /\ n \notin b + 1 .. Len(res)
  OBVIOUS
<1>3. \A i \in b + 1 .. Len(res) : i \in 1 .. Len(res)
  OBVIOUS
<1>4. Executed(Append(res, r), b, n) =
         IF r = "ok" THEN Executed(res, b, Len(res)) \cup {n} ELSE Executed(res, b, Len(res))
  <2>. HIDE DEF n
  <2>. QED
    BY <1>1, <1>2, <1>3 DEF Executed
<1>. QED
  BY <1>1, <1>2, <1>4 DEF Executed

\* The first b entries are set aside: the empty state is explained by a list
\* that has no others.
LEMMA ExplainsNothing ==
    ASSUME NEW list, NEW res \in Seq(Results)
    PROVE  Explains(<<>>, list, res, Len(res))
<1>1. Executed(res, Len(res), Len(res)) = {}
  BY DEF Executed
<1>. QED
  BY <1>1, FS_EmptySet DEF Explains

\* A rejected transaction is added to the list and not to the state.
LEMMA ExplainsRejected ==
    ASSUME NEW state, NEW list, NEW more, NEW res \in Seq(Results), NEW b \in 0 .. Len(res),
           Explains(state, list, res, b),
           \A j \in 1 .. Len(res) : more[j] = list[j]
    PROVE  Explains(state, more, Append(res, "rejected"), b)
<1>. DEFINE res2 == Append(res, "rejected")
            n == Len(res) + 1
<1>1. "rejected" \in Results /\ "rejected" # "ok"
  BY DEF Results
<1>2. Len(res2) = n /\ Executed(res2, b, Len(res2)) = Executed(res, b, Len(res))
  <2>1. Len(res2) = n /\ Executed(res2, b, n) = Executed(res, b, Len(res))
    BY <1>1, ExecutedAppend
  <2>. QED
    BY <2>1, Zenon
<1>3. ASSUME NEW j \in Executed(res, b, Len(res))
      PROVE  state[Cardinality(Executed(res2, b, j))] = more[j]
  <2>1. j \in 1 .. Len(res) /\ j \in 0 .. Len(res)
    BY <1>3 DEF Executed
  <2>2. Executed(res2, b, j) = Executed(res, b, j)
    BY <1>1, <2>1, ExecutedPrefix
  <2>. QED
    BY <2>1, <2>2 DEF Explains
<1>. QED
  BY <1>2, <1>3 DEF Explains

\* An executed one is added to both.
LEMMA ExplainsOk ==
    ASSUME NEW S, NEW state \in Seq(S), NEW tx \in S, NEW list, NEW more,
           NEW res \in Seq(Results), NEW b \in 0 .. Len(res),
           Explains(state, list, res, b),
           \A j \in 1 .. Len(res) : more[j] = list[j],
           more[Len(res) + 1] = tx
    PROVE  Explains(Append(state, tx), more, Append(res, "ok"), b)
<1>. DEFINE res2 == Append(res, "ok")
            n == Len(res) + 1
            old == Executed(res, b, Len(res))
<1>0. "ok" \in Results /\ b \in Nat /\ Len(res) \in Nat
  BY DEF Results
<1>1. Len(res2) = n /\ Executed(res2, b, n) = old \cup {n} /\ n \notin old
  BY <1>0, ExecutedAppend
<1>2. IsFiniteSet(old) /\ Cardinality(old) \in Nat
  BY <1>0, ExecutedFinite
<1>3. Cardinality(old \cup {n}) = Cardinality(old) + 1
  BY <1>1, <1>2, FS_AddElement
<1>4. Len(state) = Cardinality(old)
  BY DEF Explains
<1>5. Len(Append(state, tx)) = Cardinality(Executed(res2, b, Len(res2)))
  <2>1. Len(Append(state, tx)) = Len(state) + 1
    OBVIOUS
  <2>. QED
    BY <1>1, <1>3, <1>4, <2>1, Zenon
<1>6. ASSUME NEW j \in old
      PROVE  Append(state, tx)[Cardinality(Executed(res2, b, j))] = more[j]
  <2>1. j \in 1 .. Len(res) /\ j \in 0 .. Len(res) /\ j \in Nat /\ j \in b + 1 .. j
    BY <1>6, <1>0 DEF Executed
  <2>2. Executed(res2, b, j) = Executed(res, b, j)
    BY <1>0, <2>1, ExecutedPrefix
  <2>3. state[Cardinality(Executed(res, b, j))] = more[j]
    BY <2>1 DEF Explains
  <2>4. IsFiniteSet(Executed(res, b, j)) /\ Cardinality(Executed(res, b, j)) \in Nat
    BY <1>0, <2>1, ExecutedFinite
  <2>5. Cardinality(Executed(res, b, j)) # 0
    <3>1. j \in Executed(res, b, j)
      BY <1>6, <2>1 DEF Executed
    <3>. QED
      BY <2>4, <3>1, FS_EmptySet
  <2>6. Cardinality(Executed(res, b, j)) <= Cardinality(old)
    <3>1. Executed(res, b, j) \subseteq old
      BY <1>0, <2>1 DEF Executed
    <3>. QED
      BY <1>2, <3>1, FS_Subset
  <2>7. Cardinality(Executed(res, b, j)) \in 1 .. Len(state)
    BY <1>2, <1>4, <2>4, <2>5, <2>6
  <2>. QED
    BY <2>2, <2>3, <2>7
<1>7. Append(state, tx)[Cardinality(Executed(res2, b, n))] = more[n]
  <2>1. Append(state, tx)[Len(state) + 1] = tx
    OBVIOUS
  <2>. QED
    BY <1>1, <1>3, <1>4, <2>1, Zenon
<1>. QED
  BY <1>1, <1>5, <1>6, <1>7 DEF Explains

-----------------------------------------------------------------------------
(* Explained is inductive. *)

\* A handler at work that is not one of the unlocked ones is inside.
LEMMA BusyInside ==
    ASSUME Shape, NEW d \in Clients, Busy(d), req[d] \notin Unlocked
    PROVE  Inside(d)
<1>1. Local(d)
  BY DEF Shape
<1>. QED
  BY <1>1 DEF Local, Busy, Unlocked, Inside, Locked, Sends

\* The same of the state after a step.
LEMMA BusyInsideNext ==
    ASSUME Shape', NEW d \in Clients, Busy(d)', req'[d] \notin Unlocked
    PROVE  Inside(d)'
<1>1. Local(d)'
  BY DEF Shape
<1>. QED
  BY <1>1 DEF Local, Busy, Unlocked, Inside, Locked, Sends

\* The pool of an empty state, after a reset that leaves the pool alone.
LEMMA PoolAfterReset ==
    ASSUME Shape, Len(txs) = Len(results), applied' = <<>>, base' = Len(txs),
           UNCHANGED <<txs, results>>
    PROVE  PoolOK'
<1>1. Explains(<<>>, txs, results, Len(results)) /\ Len(txs) \in Nat
  BY ExplainsNothing DEF Shape, TypeOK, Results
<1>. QED
  BY <1>1 DEF PoolOK

LEMMA PoolKept ==
    ASSUME PoolOK, UNCHANGED <<applied, txs, results, base>>
    PROVE  PoolOK'
BY DEF PoolOK, Explains, Executed

\* A step that keeps the state, the pool and who is at work.
LEMMA QuietStep ==
    ASSUME Shape, Explained, ~parted, NEW c \in Clients, Step(c), ~Busy(c), ~Busy(c)',
           UNCHANGED <<applied, marks, txs, results, base>>
    PROVE  Explained'
<1>1. \A d \in Clients \ {c} : Busy(d)' <=> Busy(d)
  BY OthersKeep DEF Busy, Shape
<1>2. PoolOK => PoolOK'
  BY PoolKept
<1>3. ASSUME NEW d \in Clients \ {c}, Progress(d) PROVE Progress(d)'
  <2>1. /\ pc'[d] = pc[d] /\ req'[d] = req[d] /\ todo'[d] = todo[d]
        /\ outs'[d] = outs[d] /\ snap'[d] = snap[d]
    BY OthersKeep DEF Shape
  <2>. QED
    BY <1>2, <1>3, <2>1 DEF Progress, Sends, Replayed, Remaining
<1>. QED
  BY <1>1, <1>2, <1>3 DEF Explained

\* A step that changes the state or the pool without making handlers overlap
\* is the step of the only handler at work.
LEMMA AloneAtWork ==
    ASSUME Shape, Shape', Explained, NEW c \in Clients, Step(c), ~Overlaps(c),
           ~parted \/ (pc[c] = "prepare" /\ req[c] = "reExecTxPool"),
           Busy(c) \/ Busy(c)' \/ (pc[c] = "idle" /\ UNCHANGED pc)
    PROVE  \A d \in Clients \ {c} : ~Busy(d) /\ ~Busy(d)'
<1>. SUFFICES ASSUME NEW d \in Clients \ {c}, Busy(d) PROVE FALSE
  BY OthersKeep DEF Busy, Shape
<1>1. req'[d] = req[d] /\ Busy(d)' /\ c # d
  BY OthersKeep DEF Busy, Shape
<1>2. CASE pc[c] = "prepare" /\ req[c] = "reExecTxPool"
  <2>1. Busy(c) /\ req[c] \notin Unlocked /\ Inside(c)
    BY <1>2 DEF Busy, Unlocked, Inside, Locked
  <2>2. req[d] \notin Unlocked
    BY <2>1 DEF Overlaps
  <2>3. Inside(d)
    BY <2>2, BusyInside
  <2>. QED
    BY <1>1, <2>1, <2>3 DEF Shape, LockHeld
<1>3. CASE ~parted /\ Busy(c)
  BY <1>1, <1>3 DEF Explained
<1>4. CASE Busy(c)'
  <2>1. req[d] \notin Unlocked /\ req'[c] \notin Unlocked
    BY <1>4 DEF Overlaps
  <2>2. Inside(d)' /\ Inside(c)'
    BY <1>1, <1>4, <2>1, BusyInsideNext
  <2>. QED
    BY <1>1, <2>2 DEF Shape, LockHeld
<1>5. CASE pc[c] = "idle" /\ UNCHANGED pc
  BY <1>5 DEF Overlaps
<1>. QED
  BY <1>2, <1>3, <1>4, <1>5

\* So Explained is about that handler alone.
LEMMA ExplainedOfOne ==
    ASSUME NEW c \in Clients, \A d \in Clients \ {c} : ~Busy(d)',
           Busy(c)' => Progress(c)', ~Busy(c)' => PoolOK'
    PROVE  Explained'
BY DEF Explained

\* Where the one handler at work starts from: its own progress, or a pool
\* that explains the state.
Begun(c) ==
    /\ Busy(c) => Progress(c)
    /\ ~Busy(c) => PoolOK

\* What a step of that handler has to reach.
Reached(c) == (Busy(c)' => Progress(c)') /\ (~Busy(c)' => PoolOK')

\* A call that arrives: ClearTxPool empties the pool before it has the lock,
\* the others begin with a pool that explains the state.
LEMMA ArriveExplained ==
    ASSUME Shape, NEW c \in Clients, Begun(c),
           \/ ClearTxPool(c)
           \/ \E from \in Senders, nonce \in 0 .. MaxTxs : SendRawTransaction(c, from, nonce)
           \/ TraceBlocks(c)
           \/ ClearKeyCache(c)
    PROVE  Reached(c)
<1>. USE DEF Begun, Reached
<1>1. CASE ClearTxPool(c)
  <2>1. pc'[c] = "lock" /\ req'[c] = "clearTxPool" /\ txs' = <<>> /\ results' = <<>>
    BY <1>1 DEF ClearTxPool, Start, Goto, Shape, TypeOK
  <2>. QED
    BY <2>1 DEF Progress, Busy
<1>2. ASSUME NEW from \in Senders, NEW nonce \in 0 .. MaxTxs,
             SendRawTransaction(c, from, nonce)
      PROVE  Reached(c)
  <2>1. /\ pc[c] = "idle" /\ pc'[c] = "begin" /\ req'[c] = "sendRawTransaction"
        /\ UNCHANGED <<applied, txs, results, base>>
    BY <1>2 DEF SendRawTransaction, Start, Goto, Shape, TypeOK, stateVars, poolVars
  <2>2. PoolOK'
    BY <2>1, PoolKept DEF Busy
  <2>. QED
    BY <2>1, <2>2 DEF Progress, Busy
<1>3. CASE TraceBlocks(c)
  <2>1. /\ pc[c] = "idle" /\ pc'[c] = "prepare" /\ UNCHANGED <<applied, txs, results, base>>
    BY <1>3 DEF TraceBlocks, Start, Goto, Shape, TypeOK, stateVars, poolVars
  <2>2. PoolOK'
    BY <2>1, PoolKept DEF Busy
  <2>. QED
    BY <2>1, <2>2 DEF Progress, Busy
<1>4. CASE ClearKeyCache(c)
  <2>1. /\ pc[c] = "idle" /\ UNCHANGED <<pc, req, txs, results>>
        /\ applied' = <<>> /\ base' = Len(txs)
    BY <1>4 DEF ClearKeyCache, InitState, poolVars
  <2>2. PoolOK'
    BY <2>1, PoolAfterReset DEF Busy, PoolOK
  <2>. QED
    BY <2>1, <2>2 DEF Busy
<1>. QED
  BY <1>1, <1>2, <1>3, <1>4

\* Taking the lock with a pool that explains the state, or to reset the
\* state to the pool that ClearTxPool emptied.
LEMMA TakeLockExplained ==
    ASSUME Shape, NEW c \in Clients, Begun(c), TakeLock(c)
    PROVE  Reached(c)
<1>. USE DEF Begun, Reached
<1>1. CASE LockToSend(c)
  <2>1. /\ pc[c] = "lock" /\ req[c] = "sendTransaction" /\ pc'[c] = "begin"
        /\ req'[c] = "sendTransaction" /\ UNCHANGED <<applied, txs, results, base>>
    BY <1>1 DEF LockToSend, Acquire, Goto, Shape, TypeOK, stateVars, poolVars
  <2>2. PoolOK'
    BY <2>1, PoolKept DEF Busy
  <2>. QED
    BY <2>1, <2>2 DEF Progress, Busy
<1>2. CASE LockToPrepare(c)
  <2>1. /\ pc[c] = "lock" /\ req[c] \in {"reExecTxPool", "resetState"} /\ pc'[c] = "prepare"
        /\ UNCHANGED <<applied, txs, results, base>>
    BY <1>2 DEF LockToPrepare, Acquire, Goto, Shape, TypeOK, stateVars, poolVars
  <2>2. PoolOK'
    BY <2>1, PoolKept DEF Busy
  <2>. QED
    BY <2>1, <2>2 DEF Progress, Busy
<1>3. CASE LockToClear(c)
  <2>1. /\ Busy(c) /\ pc[c] = "lock" /\ pc'[c] = "idle" /\ UNCHANGED <<txs, results>>
        /\ applied' = <<>> /\ base' = 0
    BY <1>3 DEF LockToClear, InitState, Return, Goto, Shape, TypeOK, poolVars, Busy
  <2>2. txs = <<>> /\ results = <<>>
    BY <2>1 DEF Progress
  <2>3. PoolOK'
    BY <2>1, <2>2, PoolAfterReset
  <2>. QED
    BY <2>1, <2>3 DEF Busy
<1>. QED
  BY <1>1, <1>2, <1>3 DEF TakeLock

\* Prepare either leaves the state to the pool or sets the pool aside; a
\* re-execution goes on with the empty state.
LEMMA PrepareExplained ==
    ASSUME Shape, NEW c \in Clients, Begun(c),
           Prepare(c) \/ PrepareErr(c) \/ PreparePanic(c) \/ TraceInit(c) \/ GetPoolTxs(c),
           pc'[c] = "getPool" => applied' = <<>>
    PROVE  Reached(c)
<1>. USE DEF Begun, Reached
<1>1. CASE Prepare(c) \/ PrepareErr(c)
  <2>1. /\ pc[c] = "prepare" /\ pc'[c] \in {"getPool", "initState", "return"}
        /\ UNCHANGED <<txs, results, req>>
        /\ \/ applied' = <<>> /\ base' = Len(txs)
           \/ UNCHANGED <<applied, base>>
    BY <1>1 DEF Prepare, PrepareErr, AfterPrepare, InitState, Goto, Shape, TypeOK,
                stateVars, poolVars
  <2>2. PoolOK'
    BY <2>1, PoolAfterReset, PoolKept DEF Busy, Progress, PoolOK
  <2>. QED
    BY <2>1, <2>2 DEF Progress, Busy
<1>2. CASE PreparePanic(c) \/ TraceInit(c)
  <2>1. /\ pc[c] \in {"prepare", "initState"} /\ pc'[c] = "idle" /\ UNCHANGED <<txs, results>>
        /\ \/ applied' = <<>> /\ base' = Len(txs)
           \/ UNCHANGED <<applied, base>>
    BY <1>2 DEF PreparePanic, TraceInit, InitState, Return, Goto, Shape, TypeOK,
                stateVars, poolVars
  <2>2. PoolOK'
    BY <2>1, PoolAfterReset, PoolKept DEF Busy, Progress, PoolOK
  <2>. QED
    BY <2>1, <2>2 DEF Busy
<1>3. CASE GetPoolTxs(c)
  <2>1. /\ pc[c] = "getPool" /\ pc'[c] = (IF txs = <<>> THEN "results" ELSE "begin")
        /\ UNCHANGED <<applied, txs, results, req, outs>> /\ todo'[c] = txs /\ base' = 0
    BY <1>3 DEF GetPoolTxs, Goto, Shape, TypeOK, stateVars, poolVars
  <2>2. outs[c] = <<>> /\ req[c] = "reExecTxPool" /\ applied = <<>>
    BY <2>1 DEF Shape, Local, Progress, Busy
  <2>3. Explains(<<>>, txs, <<>>, 0)
    <3>1. <<>> \in Seq(Results) /\ Len(<<>>) = 0
      OBVIOUS
    <3>. QED
      BY <3>1, ExplainsNothing
  <2>4. Replayed(c)'
    BY <2>1, <2>2, <2>3 DEF Replayed
  <2>5. Len(outs'[c]) = 0 /\ txs' \in Seq(Txs) /\ Len(txs') \in Nat
    BY <2>1, <2>2 DEF Shape, TypeOK
  <2>6. Remaining(c)'
    BY <2>1, <2>5 DEF Remaining, Follows
  <2>7. txs = <<>> => Len(outs'[c]) = Len(txs')
    BY <2>1, <2>5
  <2>. QED
    BY <2>1, <2>2, <2>4, <2>6, <2>7 DEF Progress, Busy, Sends
<1>. QED
  BY <1>1, <1>2, <1>3

\* The next result of a re-execution explains the next state.
LEMMA ReplayExplained ==
    ASSUME NEW state \in Seq(Txs), NEW pool \in Seq(Txs), NEW res \in Seq(Results),
           NEW tx \in Txs, NEW result \in Results, NEW b \in 0 .. Len(res), NEW more,
           Explains(state, pool, res, b),
           \A j \in 1 .. Len(res) : more[j] = pool[j],
           more[Len(res) + 1] = tx
    PROVE  Explains(IF result = "ok" THEN Append(state, tx) ELSE state,
                    more, Append(res, result), b)
<1>1. CASE result = "ok"
  BY <1>1, ExplainsOk
<1>2. CASE result = "rejected"
  BY <1>2, ExplainsRejected
<1>. QED
  BY <1>1, <1>2 DEF Results

\* The first of the calls that are left.
LEMMA FirstLeft ==
    ASSUME NEW rest \in Seq(Txs), Len(rest) > 0
    PROVE  /\ 1 \in 1 .. Len(rest) /\ Head(rest) = rest[1] /\ rest[1] \in Txs
           /\ Len(rest) > 1 \/ Len(rest) = 1
           /\ Len(rest) = 1 => ~(Len(rest) > 1)
           /\ Len(rest) > 1 => Len(rest) # 1
<1>1. Len(rest) \in Nat
  OBVIOUS
<1>2. Head(rest) = rest[1]
  OBVIOUS
<1>. DEFINE n == Len(rest)
<1>3. 1 \in 1 .. n /\ (n > 1 \/ n = 1) /\ (n = 1 => ~(n > 1)) /\ (n > 1 => n # 1)
  <2>. HIDE DEF n
  <2>1. n \in Nat /\ n > 0
    BY <1>1 DEF n
  <2>. QED
    BY <2>1
<1>4. rest[1] \in Txs
  BY <1>3
<1>. QED
  BY <1>2, <1>3, <1>4

\* One transaction less to run, one result more.
LEMMA FollowsNext ==
    ASSUME NEW pool \in Seq(Txs), NEW res \in Seq(Results), NEW rest \in Seq(Txs),
           NEW result \in Results, Len(rest) > 0, Follows(pool, res, rest)
    PROVE  /\ pool[Len(res) + 1] = rest[1]
           /\ Len(rest) = 1 => Len(Append(res, result)) = Len(pool)
           /\ Len(rest) > 1 => Follows(pool, Append(res, result), Tail(rest))
<1>1. Len(Append(res, result)) = Len(res) + 1
  OBVIOUS
<1>2. pool[Len(res) + 1] = rest[1]
  BY FirstLeft DEF Follows
<1>3. Len(rest) = 1 => Len(Append(res, result)) = Len(pool)
  BY <1>1 DEF Follows
<1>4. ASSUME Len(rest) > 1
      PROVE  Follows(pool, Append(res, result), Tail(rest))
  <2>1. /\ Len(Tail(rest)) = Len(rest) - 1
        /\ \A j \in 1 .. Len(rest) - 1 : Tail(rest)[j] = rest[j + 1]
    BY <1>4
  <2>2. ASSUME NEW j \in 1 .. Len(rest) - 1
        PROVE  pool[(Len(res) + 1) + j] = rest[j + 1]
    <3>1. j + 1 \in 1 .. Len(rest) /\ (Len(res) + 1) + j = Len(res) + (j + 1)
      OBVIOUS
    <3>. QED
      BY <3>1 DEF Follows
  <2>3. Len(pool) = (Len(res) + 1) + (Len(rest) - 1)
    BY <1>4 DEF Follows
  <2>. QED
    BY <1>1, <2>1, <2>2, <2>3, Zenon DEF Follows
<1>. QED
  BY <1>2, <1>3, <1>4

\* Recording a result, with the state that goes with it.
LEMMA RecordExplained ==
    ASSUME Shape, NEW c \in Clients, Progress(c), pc[c] \in {"check", "commit"},
           NEW result \in Results, Record(c, result),
           UNCHANGED <<txs, results, base, req, lock>>,
           applied' = IF result = "ok" THEN Append(applied, Head(todo[c])) ELSE applied
    PROVE  Reached(c)
<1>. DEFINE res == outs[c]
            rest == todo[c]
<1>1. /\ res \in Seq(Results) /\ rest \in Seq(Txs) /\ txs \in Seq(Txs)
      /\ applied \in Seq(Txs) /\ results \in Seq(Results) /\ Local(c)
  BY DEF Shape, TypeOK, Results
<1>2. /\ outs'[c] = Append(res, result)
      /\ todo'[c] = IF Len(rest) = 1 THEN rest ELSE Tail(rest)
      /\ pc'[c] = IF Len(rest) > 1 THEN "begin"
                  ELSE IF req[c] = "reExecTxPool" THEN "results" ELSE "add"
  BY RecordEffect
<1>3. \/ Sends(c) /\ Len(rest) = 1 /\ res = <<>>
      \/ req[c] = "reExecTxPool" /\ Len(rest) > 0
  BY <1>1 DEF Local
<1>4. CASE Sends(c) /\ Len(rest) = 1 /\ res = <<>>
  <2>1. Head(rest) = rest[1] /\ rest[1] \in Txs /\ Append(res, result) = <<result>>
    BY <1>1, <1>4
  <2>2. PoolOK
    BY <1>4 DEF Progress
  <2>3. /\ Len(txs) = Len(results) /\ base \in 0 .. Len(results)
        /\ Explains(applied, txs, results, base)
    BY <2>2 DEF PoolOK
  <2>4. /\ \A j \in 1 .. Len(results) : Append(txs, rest[1])[j] = txs[j]
        /\ Append(txs, rest[1])[Len(results) + 1] = rest[1]
    BY <1>1, <2>1, <2>3
  <2>5. Explains(applied', Append(txs, rest[1]), Append(results, result), base)
    BY <1>1, <2>1, <2>3, <2>4, ReplayExplained
  <2>6. /\ pc'[c] = "add" /\ todo'[c] = rest /\ outs'[c] = <<result>> /\ ~(Len(rest) > 1)
        /\ outs'[c][1] = result
    <3>1. ~(Len(rest) > 1)
      BY <1>4
    <3>2. req[c] # "reExecTxPool"
      BY <1>4 DEF Sends
    <3>. QED
      BY <1>2, <1>4, <2>1, <3>1, <3>2
  <2>7. Progress(c)'
    BY <2>3, <2>5, <2>6 DEF Progress
  <2>. QED
    BY <2>6, <2>7 DEF Busy, Reached
<1>5. CASE req[c] = "reExecTxPool" /\ Len(rest) > 0
  <2>1. Replayed(c) /\ Remaining(c)
    BY <1>5 DEF Progress
  <2>2. base = 0 /\ Explains(applied, txs, res, 0) /\ Follows(txs, res, rest)
    BY <2>1 DEF Replayed, Remaining
  <2>3. /\ Head(rest) = rest[1] /\ rest[1] \in Txs /\ 0 \in 0 .. Len(res)
        /\ Len(rest) > 1 \/ Len(rest) = 1
        /\ Len(rest) = 1 => ~(Len(rest) > 1)
        /\ Len(rest) > 1 => Len(rest) # 1
    BY <1>1, <1>5, FirstLeft
  <2>4. /\ txs[Len(res) + 1] = rest[1]
        /\ Len(rest) = 1 => Len(Append(res, result)) = Len(txs)
        /\ Len(rest) > 1 => Follows(txs, Append(res, result), Tail(rest))
    BY <1>1, <1>5, <2>2, FollowsNext
  <2>5. Explains(applied', txs, Append(res, result), 0)
    BY <1>1, <2>2, <2>3, <2>4, ReplayExplained
  <2>6. Replayed(c)'
    BY <1>2, <2>2, <2>5 DEF Replayed
  <2>7. CASE Len(rest) > 1
    <3>1. pc'[c] = "begin" /\ todo'[c] = Tail(rest)
      BY <1>2, <2>3, <2>7, Zenon
    <3>2. Remaining(c)'
      BY <1>2, <2>4, <2>7, <3>1 DEF Remaining
    <3>. QED
      BY <1>5, <2>6, <3>1, <3>2 DEF Progress, Busy, Reached, Sends
  <2>8. CASE Len(rest) = 1
    <3>1. pc'[c] = "results" /\ Len(outs'[c]) = Len(txs)
      BY <1>2, <1>5, <2>3, <2>4, <2>8, Zenon
    <3>. QED
      BY <2>6, <3>1 DEF Progress, Busy, Reached
  <2>. QED
    BY <2>3, <2>7, <2>8, Zenon
<1>. QED
  BY <1>3, <1>4, <1>5

\* Reverting to the layer that ExecuteMsg derived itself gives the state it
\* began with.
LEMMA RevertsToBegin ==
    ASSUME NEW state \in Seq(Txs)
    PROVE  SubSeq(state, 1, Len(state)) = state
OBVIOUS

\* ExecuteTxs and the handlers' last steps: what the results say is what the
\* state holds, after each transaction and when they reach the pool.
LEMMA ExecuteExplained ==
    ASSUME Shape, NEW c \in Clients, Begun(c),
           Begin(c) \/ Accept(c) \/ Commit(c) \/ Reject(c) \/ RejectPanics(c)
           \/ Add(c) \/ SetResults(c)
    PROVE  Reached(c)
<1>. USE DEF Begun
<1>1. CASE Begin(c)
  <2>1. /\ pc[c] = "begin" /\ pc'[c] = "check" /\ marks' = Append(marks, Len(applied))
        /\ snap'[c] = Len(marks) /\ UNCHANGED <<applied, txs, results, base, req, todo, outs>>
    BY <1>1 DEF Begin, Goto, Shape, TypeOK, poolVars
  <2>2. Len(marks') = snap'[c] + 1 /\ marks'[snap'[c] + 1] = Len(applied')
    <3>1. marks \in Seq(0 .. Len(applied))
      BY DEF Shape, TypeOK
    <3>2. Len(Append(marks, Len(applied))) = Len(marks) + 1
          /\ Append(marks, Len(applied))[Len(marks) + 1] = Len(applied)
      BY <3>1
    <3>. QED
      BY <2>1, <3>2
  <2>3. PoolOK => PoolOK'
    BY <2>1, PoolKept
  <2>4. Progress(c)
    BY <2>1 DEF Busy
  <2>5. Progress(c)'
    BY <2>1, <2>2, <2>3, <2>4 DEF Progress, Sends, Replayed, Remaining
  <2>. QED
    BY <2>1, <2>5 DEF Busy, Reached
<1>2. CASE Accept(c)
  <2>1. /\ pc[c] = "check" /\ pc'[c] = "commit"
        /\ UNCHANGED <<applied, txs, results, base, req, todo, outs>>
    BY <1>2 DEF Accept, Goto, Shape, TypeOK, stateVars, poolVars, execVars
  <2>2. PoolOK => PoolOK'
    BY <2>1, PoolKept
  <2>3. Progress(c)
    BY <2>1 DEF Busy
  <2>4. Progress(c)'
    BY <2>1, <2>2, <2>3 DEF Progress, Sends, Replayed, Remaining
  <2>. QED
    BY <2>1, <2>4 DEF Busy, Reached
<1>3. CASE Commit(c)
  <2>1. Progress(c) /\ "ok" \in Results
    BY <1>3 DEF Commit, Busy, Results
  <2>. QED
    BY <1>3, <2>1, RecordExplained DEF Commit, poolVars
<1>4. CASE Reject(c)
  <2>1. Progress(c) /\ "rejected" \in Results /\ pc[c] = "check"
    BY <1>4 DEF Reject, Busy, Results
  <2>2. marks[snap[c] + 1] = Len(applied)
    BY <2>1 DEF Progress
  <2>3. applied' = applied
    BY <1>4, <2>2, RevertsToBegin DEF Reject, Shape, TypeOK
  <2>. QED
    BY <1>4, <2>1, <2>3, RecordExplained DEF Reject, poolVars
<1>5. CASE RejectPanics(c)
  <2>1. Progress(c) /\ pc[c] = "check" /\ snap[c] \in Nat /\ snap[c] >= Len(marks)
    BY <1>5 DEF RejectPanics, Busy, Shape, TypeOK
  <2>2. Len(marks) = snap[c] + 1
    BY <2>1 DEF Progress
  <2>. QED
    BY <2>1, <2>2
<1>6. CASE Add(c)
  <2>1. /\ Progress(c) /\ pc[c] = "add" /\ pc'[c] = "idle"
        /\ txs' = Append(txs, todo[c][1]) /\ results' = Append(results, outs[c][1])
        /\ UNCHANGED <<applied, base>>
    BY <1>6 DEF Add, AddTx, Return, Goto, Busy, Shape, TypeOK, stateVars
  <2>2. /\ Len(txs) = Len(results) /\ base \in 0 .. Len(txs)
        /\ Explains(applied', txs', results', base')
    BY <2>1 DEF Progress
  <2>3. /\ txs \in Seq(Txs) /\ todo[c][1] \in Txs
        /\ results \in Seq(Results) /\ outs[c][1] \in Results
    BY <2>1 DEF Shape, TypeOK, Local, Results
  <2>4. Len(txs') = Len(results') /\ base' \in 0 .. Len(txs')
    BY <2>1, <2>2, <2>3
  <2>5. PoolOK'
    BY <2>2, <2>4 DEF PoolOK
  <2>. QED
    BY <2>1, <2>5 DEF Busy, Reached
<1>7. CASE SetResults(c)
  <2>1. /\ Progress(c) /\ pc[c] = "results" /\ pc'[c] = "idle" /\ results' = outs[c]
        /\ UNCHANGED <<applied, txs, base>>
    BY <1>7 DEF SetResults, Return, Goto, Busy, Shape, TypeOK, stateVars
  <2>2. base = 0 /\ Len(outs[c]) = Len(txs) /\ Explains(applied, txs, outs[c], 0)
    BY <2>1 DEF Progress, Replayed
  <2>3. Len(txs) \in Nat
    BY DEF Shape, TypeOK
  <2>4. PoolOK'
    BY <2>1, <2>2, <2>3 DEF PoolOK
  <2>. QED
    BY <2>1, <2>4 DEF Busy, Reached
<1>. QED
  BY <1>1, <1>2, <1>3, <1>4, <1>5, <1>6, <1>7

\* Explained is preserved: a step that does not part state and pool is
\* either quiet or the step of the only handler at work.
LEMMA NextExplained == Shape /\ Shape' /\ Explained /\ [Next]_vars => Explained'
<1>. SUFFICES ASSUME Shape, Shape', Explained, [Next]_vars PROVE Explained'
  OBVIOUS
<1>1. ASSUME NEW c \in Clients, Tracked(c, Step(c)) PROVE Explained'
  <2>0. Step(c) /\ parted' = Parting(c)
    BY <1>1 DEF Tracked
  <2>. SUFFICES ASSUME ~parted' PROVE Explained'
    BY DEF Explained
  <2>1. /\ ~Overlaps(c)
        /\ pc'[c] = "getPool" => applied' = <<>>
        /\ pc'[c] # "getPool" => ~parted
    BY <2>0 DEF Parting
  <2>2. pc'[c] = "getPool" => pc[c] = "prepare" /\ req[c] = "reExecTxPool"
    <3>. SUFFICES ASSUME pc'[c] = "getPool"
                  PROVE  pc[c] = "prepare" /\ req[c] = "reExecTxPool"
      OBVIOUS
    <3>. USE DEF Shape, TypeOK, Goto
    <3>1. CASE Arrive(c)
      BY <3>1 DEF Arrive, SendTransaction, ReExecOrReset, ClearTxPool, SendRawTransaction,
                  TraceBlocks, ClearKeyCache, Start
    <3>2. CASE TakeLock(c)
      BY <3>2 DEF TakeLock, LockToSend, LockToPrepare, LockToClear, Return
    <3>3. CASE Prepare(c) \/ PrepareErr(c)
      BY <3>3 DEF Prepare, PrepareErr, AfterPrepare
    <3>4. CASE PreparePanic(c) \/ TraceInit(c) \/ ResetReturns(c) \/ RejectPanics(c)
               \/ Add(c) \/ SetResults(c)
      BY <3>4 DEF PreparePanic, TraceInit, ResetReturns, RejectPanics, Add, SetResults, Return
    <3>5. CASE GetPoolTxs(c) \/ Begin(c) \/ Accept(c)
      BY <3>5 DEF GetPoolTxs, Begin, Accept
    <3>6. CASE Commit(c) \/ Reject(c)
      BY <3>6 DEF Commit, Reject, Record
    <3>. QED
      BY <2>0, <3>1, <3>2, <3>3, <3>4, <3>5, <3>6 DEF Step, Work
  <2>3. CASE \/ \E from \in Senders : SendTransaction(c, from)
             \/ ReExecOrReset(c)
             \/ ResetReturns(c)
    <3>1. /\ pc[c] \in {"idle", "return"} /\ pc'[c] \in {"lock", "idle"}
          /\ pc'[c] = "lock" => req'[c] \in Locked
          /\ UNCHANGED <<applied, marks, txs, results, base>>
      BY <2>3 DEF SendTransaction, ReExecOrReset, ResetReturns, Start, Return, Goto,
                  Shape, TypeOK, Locked, stateVars, poolVars
    <3>2. ~Busy(c) /\ ~Busy(c)' /\ ~parted
      BY <2>1, <3>1 DEF Busy, Locked
    <3>. QED
      BY <2>0, <3>1, <3>2, QuietStep
  <2>4. ASSUME Busy(c) \/ Busy(c)' \/ (pc[c] = "idle" /\ UNCHANGED pc),
               Begun(c) => Reached(c)
        PROVE  Explained'
    <3>1. \A d \in Clients \ {c} : ~Busy(d) /\ ~Busy(d)'
      <4>1. ~parted \/ (pc[c] = "prepare" /\ req[c] = "reExecTxPool")
        BY <2>1, <2>2
      <4>. QED
        BY <2>0, <2>1, <2>4, <4>1, AloneAtWork
    <3>2. CASE ~parted
      <4>1. Begun(c)
        BY <3>1, <3>2 DEF Begun, Explained
      <4>. QED
        BY <2>4, <3>1, <4>1, ExplainedOfOne DEF Reached
    <3>3. CASE pc'[c] = "getPool"
      <4>1. Progress(c)' /\ Busy(c)'
        BY <2>1, <3>3 DEF Progress, Busy
      <4>. QED
        BY <3>1, <4>1, ExplainedOfOne
    <3>. QED
      BY <2>1, <3>2, <3>3
  <2>5. CASE \/ ClearTxPool(c)
             \/ \E from \in Senders, nonce \in 0 .. MaxTxs : SendRawTransaction(c, from, nonce)
             \/ TraceBlocks(c)
             \/ ClearKeyCache(c)
    <3>1. Busy(c)' \/ (pc[c] = "idle" /\ UNCHANGED pc)
      BY <2>5 DEF ClearTxPool, SendRawTransaction, TraceBlocks, ClearKeyCache, Start, Goto,
                  Busy, Shape, TypeOK
    <3>. QED
      BY <2>4, <2>5, <3>1, ArriveExplained
  <2>6. CASE TakeLock(c)
    <3>1. Busy(c) \/ Busy(c)'
      BY <2>6 DEF TakeLock, LockToSend, LockToPrepare, LockToClear, Goto, Busy, Shape, TypeOK
    <3>. QED
      BY <2>4, <2>6, <3>1, TakeLockExplained
  <2>7. CASE Prepare(c) \/ PrepareErr(c) \/ PreparePanic(c) \/ TraceInit(c) \/ GetPoolTxs(c)
    <3>1. Busy(c)
      BY <2>7 DEF Prepare, PrepareErr, PreparePanic, TraceInit, GetPoolTxs, Busy
    <3>. QED
      BY <2>1, <2>4, <2>7, <3>1, PrepareExplained
  <2>8. CASE Begin(c) \/ Accept(c) \/ Commit(c) \/ Reject(c) \/ RejectPanics(c)
             \/ Add(c) \/ SetResults(c)
    <3>1. Busy(c)
      BY <2>8 DEF Begin, Accept, Commit, Reject, RejectPanics, Add, SetResults, Busy
    <3>. QED
      BY <2>4, <2>8, <3>1, ExecuteExplained
  <2>. QED
    BY <2>0, <2>3, <2>5, <2>6, <2>7, <2>8 DEF Step, Arrive, Work
<1>2. CASE UNCHANGED vars
  <2>1. PoolOK => PoolOK'
    BY <1>2, PoolKept DEF vars, stateVars, poolVars
  <2>. QED
    BY <1>2, <2>1 DEF vars, stateVars, poolVars, execVars, Explained, Busy, Progress, Sends,
                      Replayed, Remaining
<1>. QED
  BY <1>1, <1>2 DEF Next, Step

\* The pool is empty and so is the state when the node starts.
LEMMA InitExplained == Init => Explained
<1>. SUFFICES ASSUME Init PROVE Explained
  OBVIOUS
<1>1. \A c \in Clients : ~Busy(c)
  BY DEF Init, Busy
<1>2. <<>> \in Seq(Results) /\ Len(<<>>) = 0
  OBVIOUS
<1>3. Explains(<<>>, txs, <<>>, 0)
  BY <1>2, ExplainsNothing
<1>4. PoolOK
  <2>1. /\ applied = <<>> /\ txs = <<>> /\ results = <<>> /\ base = 0
        /\ Len(txs) = 0 /\ Len(results) = 0 /\ 0 \in 0 .. 0
    BY <1>2 DEF Init
  <2>. QED
    BY <1>3, <2>1, Zenon DEF PoolOK
<1>. QED
  BY <1>1, <1>4 DEF Explained

\* Every state of MferBackend satisfies Explained.
LEMMA ExplainedInductive == Spec => []Explained
<1>1. Shape /\ Shape' /\ Explained /\ [Next]_vars => Explained'
  BY NextExplained
<1>. QED
  BY <1>1, InitExplained, ShapeInductive, PTL DEF Spec

-----------------------------------------------------------------------------

\* Type correctness: whatever handlers do to each other, the layers of the
\* state stay within the transactions applied and every list keeps its type.
THEOREM TypeCorrect == Spec => []TypeOK
<1>1. Shape => TypeOK
  BY DEF Shape
<1>. QED
  BY <1>1, ShapeInductive, PTL

\* StateLock and its deferred StateUnlock: a handler of a locked request is
\* past its lock if and only if it holds it, so no two are, and no panic of
\* Prepare or of a revert leaves the lock behind.
THEOREM LockDiscipline == Spec => []LockHeld
<1>1. Shape => LockHeld
  BY DEF Shape
<1>. QED
  BY <1>1, ShapeInductive, PTL

\* The pool keeps the state's mutations: AddTx, SetResults, Prepare,
\* ResetToRoot and a revert of ExecuteMsg agree on which transactions the
\* state holds, unless handlers overlapped without the lock or re-executed
\* the pool on what a failed Prepare left.
THEOREM PoolCorrect == Spec => []PoolExplainsState
<1>1. Explained => PoolExplainsState
  BY DEF Explained, PoolExplainsState, PoolOK
<1>. QED
  BY <1>1, ExplainedInductive, PTL
=============================================================================
