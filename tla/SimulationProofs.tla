--------------------------- MODULE SimulationProofs ---------------------------
(***************************************************************************)
(* Proofs about Simulation, for any number of clients, any gas limits, any *)
(* length of the pool and any heights.                                     *)
(***************************************************************************)
EXTENDS Simulation, InductionLemmas, FiniteSetTheorems

Runs == [fork : 0 .. MaxFork, state : Seq(Txs), gas : Nat, forfeited : Nat, short : BOOLEAN]

\* The gas a run has, has used and has forfeited.
Balance(run) == run.gas + UsedGas * Len(run.state) + TxGas * run.forfeited

-----------------------------------------------------------------------------
(* Executing a list. *)

\* Gas by the message.
LEMMA GasArith ==
    ASSUME NEW n \in Nat
    PROVE  /\ UsedGas * (n + 1) = UsedGas * n + UsedGas
           /\ TxGas * (n + 1) = TxGas * n + TxGas
           /\ UsedGas * n \in Nat /\ TxGas * n \in Nat
<1>1. UsedGas \in Nat /\ TxGas \in Nat
  BY GasAssumption
<1>. QED
  BY <1>1

\* A nonce is a number.
LEMMA NonceType ==
    ASSUME NEW f \in Nat, NEW state \in Seq(Txs), NEW from
    PROVE  GetNonce(f, state, from) \in Nat
<1>. DEFINE own == {i \in DOMAIN state : state[i][1] = from}
<1>1. CASE own = {}
  BY <1>1 DEF GetNonce
<1>2. CASE own # {}
  <2>1. own \subseteq 0 .. Len(state) /\ Len(state) \in Nat
    OBVIOUS
  <2>2. \E x \in own : \A y \in own : y <= x
    <3>. HIDE DEF own
    <3>. QED
      BY <1>2, <2>1, GreatestBounded
  <2>3. Max(own) \in own
    BY <2>2 DEF Max
  <2>4. state[Max(own)] \in Txs
    BY <2>3
  <2>5. state[Max(own)][2] \in Nat
    <3>. HIDE DEF own
    <3>. QED
      BY <2>4 DEF Txs
  <2>. QED
    BY <1>2, <2>5 DEF GetNonce
<1>. QED
  BY <1>1, <1>2

\* ExecuteMsg takes from the gas what it adds to the state, what a message
\* rejected after buyGas had bought, or nothing.
LEMMA ExecuteMsgEffect ==
    ASSUME NEW run \in Runs, NEW tx \in Txs
    PROVE  /\ ExecuteMsg(run, tx) \in Runs
           /\ Balance(ExecuteMsg(run, tx)) = Balance(run)
           /\ Len(ExecuteMsg(run, tx).state) >= Len(run.state)
<1>. DEFINE ran == [run EXCEPT !.state = Append(@, tx), !.gas = @ - UsedGas]
            lost == [run EXCEPT !.gas = @ - TxGas, !.forfeited = @ + 1]
            bought == Forfeits(run.fork, run.state, tx) /\ run.gas >= TxGas
<1>0. /\ run.gas \in Nat /\ run.state \in Seq(Txs) /\ Len(run.state) \in Nat
      /\ run.forfeited \in Nat
      /\ UsedGas \in Nat /\ TxGas \in Nat /\ UsedGas <= TxGas
      /\ UsedGas * Len(run.state) \in Nat /\ TxGas * run.forfeited \in Nat
      /\ UsedGas * (Len(run.state) + 1) = UsedGas * Len(run.state) + UsedGas
      /\ TxGas * (run.forfeited + 1) = TxGas * run.forfeited + TxGas
  <2>1. /\ run.gas \in Nat /\ run.state \in Seq(Txs) /\ Len(run.state) \in Nat
        /\ run.forfeited \in Nat
    BY DEF Runs
  <2>. QED
    BY <2>1, GasArith, GasAssumption
<1>1. CASE ~Applies(run.fork, run.state, tx) /\ ~bought
  BY <1>0, <1>1 DEF ExecuteMsg
<1>2. CASE Applies(run.fork, run.state, tx) /\ run.gas < TxGas
  <2>1. ExecuteMsg(run, tx) = [run EXCEPT !.short = TRUE]
    BY <1>2 DEF ExecuteMsg
  <2>2. /\ [run EXCEPT !.short = TRUE].state = run.state
        /\ [run EXCEPT !.short = TRUE].gas = run.gas
        /\ [run EXCEPT !.short = TRUE].forfeited = run.forfeited
        /\ Len(run.state) \in Nat
    BY DEF Runs
  <2>3. [run EXCEPT !.short = TRUE] \in Runs
    BY Zenon DEF Runs
  <2>. QED
    BY <2>1, <2>2, <2>3 DEF Balance
<1>3. CASE Applies(run.fork, run.state, tx) /\ ~(run.gas < TxGas)
  <2>1. ExecuteMsg(run, tx) = ran
    BY <1>3 DEF ExecuteMsg
  <2>2. run.gas >= TxGas
    BY <1>0, <1>3
  <2>3. /\ Append(run.state, tx) \in Seq(Txs) /\ Len(Append(run.state, tx)) = Len(run.state) + 1
        /\ run.gas - UsedGas \in Nat
    BY <1>0, <2>2
  <2>4. ran.state = Append(run.state, tx) /\ ran.gas = run.gas - UsedGas
        /\ ran.forfeited = run.forfeited
    BY DEF Runs
  <2>5. ran \in Runs
    BY <2>3 DEF Runs
  <2>7. Balance(ran) = Balance(run)
    <3>. HIDE DEF ran
    <3>. QED
      <4>1. PICK x \in Nat, y \in Nat : x = UsedGas * Len(run.state) /\ y = TxGas * run.forfeited
        BY <1>0
      <4>2. UsedGas * Len(ran.state) = x + UsedGas /\ TxGas * ran.forfeited = y
        BY <1>0, <2>3, <2>4, <4>1
      <4>3. (run.gas - UsedGas) + (x + UsedGas) + y = run.gas + x + y
        <5>1. run.gas \in Nat /\ UsedGas \in Nat
          BY <1>0
        <5>. QED
          BY ONLY <5>1, x \in Nat, y \in Nat
      <4>. QED
        BY <2>4, <4>1, <4>2, <4>3, Zenon DEF Balance
  <2>8. Len(ran.state) >= Len(run.state)
    BY <1>0, <2>3, <2>4
  <2>. QED
    BY <2>1, <2>5, <2>7, <2>8
<1>4. CASE ~Applies(run.fork, run.state, tx) /\ bought
  <2>1. ExecuteMsg(run, tx) = lost
    BY <1>4 DEF ExecuteMsg
  <2>3. run.gas - TxGas \in Nat /\ run.forfeited + 1 \in Nat
    BY <1>0, <1>4
  <2>4. lost.state = run.state /\ lost.gas = run.gas - TxGas
        /\ lost.forfeited = run.forfeited + 1
    BY DEF Runs
  <2>5. lost \in Runs
    BY <2>3 DEF Runs
  <2>7. Balance(lost) = Balance(run)
    <3>. HIDE DEF lost
    <3>. QED
      <4>1. PICK x \in Nat, y \in Nat : x = UsedGas * Len(run.state) /\ y = TxGas * run.forfeited
        BY <1>0
      <4>2. UsedGas * Len(lost.state) = x /\ TxGas * lost.forfeited = y + TxGas
        BY <1>0, <2>3, <2>4, <4>1
      <4>3. (run.gas - TxGas) + x + (y + TxGas) = run.gas + x + y
        <5>1. run.gas \in Nat /\ TxGas \in Nat
          BY <1>0
        <5>. QED
          BY ONLY <5>1, x \in Nat, y \in Nat
      <4>. QED
        BY <2>4, <4>1, <4>2, <4>3, Zenon DEF Balance
  <2>8. Len(lost.state) >= Len(run.state)
    BY <1>0, <2>4
  <2>. QED
    BY <2>1, <2>5, <2>7, <2>8
<1>. QED
  BY <1>1, <1>2, <1>3, <1>4

\* The loop of ExecuteTxs: what is left after n of the transactions is what
\* the recursion says.
LEMMA ExecuteTxsLoop ==
    ASSUME NEW list \in Seq(Txs), NEW run
    PROVE  \E g : /\ g = [n \in 0 .. Len(list) |->
                             IF n = 0 THEN run ELSE ExecuteMsg(g[n - 1], list[n])]
                  /\ ExecuteTxs(list, run) = g[Len(list)]
<1>. DEFINE Loops(g, m) == g = [n \in 0 .. m |-> IF n = 0 THEN run ELSE ExecuteMsg(g[n - 1], list[n])]
            S == {m \in Nat : \E g : Loops(g, m)}
<1>1. 0 \in S
  <2>1. Loops([n \in 0 .. 0 |-> run], 0)
    OBVIOUS
  <2>. QED
    BY <2>1
<1>2. ASSUME NEW m \in Nat, m \in S PROVE m + 1 \in S
  <2>1. PICK g : Loops(g, m)
    BY <1>2
  <2>. DEFINE h == [n \in 0 .. m + 1 |-> IF n <= m THEN g[n] ELSE ExecuteMsg(g[m], list[m + 1])]
  <2>2. ASSUME NEW n \in 0 .. m + 1
        PROVE  h[n] = IF n = 0 THEN run ELSE ExecuteMsg(h[n - 1], list[n])
    <3>1. CASE n = 0
      BY <2>1, <3>1
    <3>2. CASE n \in 1 .. m
      <4>1. n \in 0 .. m /\ n - 1 \in 0 .. m + 1 /\ n - 1 <= m /\ n <= m /\ n # 0
        BY <3>2
      <4>2. h[n] = g[n] /\ h[n - 1] = g[n - 1]
        BY <4>1
      <4>3. g[n] = ExecuteMsg(g[n - 1], list[n])
        BY <2>1, <4>1
      <4>. QED
        BY <4>1, <4>2, <4>3
    <3>3. CASE n = m + 1
      <4>1. n - 1 = m /\ m \in 0 .. m + 1 /\ ~(n <= m) /\ n # 0 /\ m <= m
        BY <3>3
      <4>2. h[n] = ExecuteMsg(g[m], list[n]) /\ h[n - 1] = g[m]
        BY <3>3, <4>1
      <4>. QED
        BY <4>1, <4>2
    <3>. QED
      BY <3>1, <3>2, <3>3
  <2>3. Loops(h, m + 1)
    BY <2>2
  <2>4. \E k : Loops(k, m + 1)
    <3>. HIDE DEF Loops, h
    <3>. QED
      BY <2>3
  <2>5. m + 1 \in Nat
    OBVIOUS
  <2>. QED
    BY <2>4, <2>5, Zenon
<1>3. Len(list) \in S
  <2>. HIDE DEF S
  <2>. QED
    BY <1>1, <1>2, SetInduction
<1>4. \E g : Loops(g, Len(list))
  BY <1>3
<1>. DEFINE f == CHOOSE g : Loops(g, Len(list))
<1>5. Loops(f, Len(list))
  <2>. HIDE DEF Loops
  <2>. QED
    BY <1>4
<1>6. ExecuteTxs(list, run) = f[Len(list)]
  BY DEF ExecuteTxs
<1>. QED
  BY <1>5, <1>6

\* ExecuteTxs keeps the balance, however many transactions the list has
\* and whichever are refused.
LEMMA ExecuteTxsEffect ==
    ASSUME NEW list \in Seq(Txs), NEW run \in Runs
    PROVE  /\ ExecuteTxs(list, run) \in Runs
           /\ Balance(ExecuteTxs(list, run)) = Balance(run)
<1>1. PICK g : /\ g = [n \in 0 .. Len(list) |->
                          IF n = 0 THEN run ELSE ExecuteMsg(g[n - 1], list[n])]
               /\ ExecuteTxs(list, run) = g[Len(list)]
  BY ExecuteTxsLoop
<1>. DEFINE S == {m \in Nat : m <= Len(list) => g[m] \in Runs /\ Balance(g[m]) = Balance(run)}
<1>2. 0 \in S
  BY <1>1
<1>3. ASSUME NEW m \in Nat, m \in S PROVE m + 1 \in S
  <2>. SUFFICES ASSUME m + 1 <= Len(list)
                PROVE  g[m + 1] \in Runs /\ Balance(g[m + 1]) = Balance(run)
    OBVIOUS
  <2>1. /\ m <= Len(list) /\ m + 1 \in 0 .. Len(list) /\ m + 1 # 0 /\ (m + 1) - 1 = m
        /\ list[m + 1] \in Txs
    OBVIOUS
  <2>2. g[m] \in Runs /\ Balance(g[m]) = Balance(run)
    BY <1>3, <2>1
  <2>3. g[m + 1] = ExecuteMsg(g[m], list[m + 1])
    BY <1>1, <2>1
  <2>. QED
    BY <2>1, <2>2, <2>3, ExecuteMsgEffect
<1>4. Len(list) \in S /\ Len(list) <= Len(list)
  <2>. HIDE DEF S
  <2>. QED
    BY <1>2, <1>3, SetInduction
<1>. QED
  BY <1>1, <1>4

-----------------------------------------------------------------------------
(* The requests in progress. *)

Seen == Txs \cup {<<Nil, Nil>>}

\* Which messages a request runs, and where it can be.
Sensible(r) ==
    /\ r.kind # "bundle" => r.todo \in Seq(Txs)
    /\ r.kind \in Replays => r.target \in Txs
    /\ r.kind = "estimate" => r.step \in {"install", "call"}
    /\ r.kind = "bundle" => r.step \in {"replay", "running"}
    /\ r.step = "running" => r.todo # <<>>
    /\ r.hold # Nil <=> r.step = "running"

\* The field a.tracer belongs to a request that is not over and that may
\* read what is in it.
TracerLive ==
    tracer # Nil => /\ sim[tracer] # Nil
                    /\ \/ sim[tracer].step = "call"
                       \/ sim[tracer].kind = "range" /\ sim[tracer].step # "install"

Orderly == TypeOK /\ TracerLive /\ \A c \in Clients : sim[c] # Nil => Sensible(sim[c])

\* Fields of a request.
LEMMA SimFields ==
    ASSUME NEW r \in Sims
    PROVE  /\ r.kind \in {"trace", "range", "estimate", "bundle"}
           /\ r.todo \in Seq(Txs \cup {Nil}) /\ r.target \in Txs \cup {Nil}
           /\ r.state \in Seq(Txs) /\ r.ops \in Seq(Seen)
           /\ r.hold \in {Nil, "present", "old"}
           /\ r.step \in {"replay", "running", "install", "call"}
           /\ r.excused \in BOOLEAN /\ r.overlapped \in BOOLEAN
BY Zenon DEF Sims, Seen

\* Changing one of them.
LEMMA SimOps ==
    ASSUME NEW r \in Sims, NEW o \in Seq(Seen)
    PROVE  [r EXCEPT !.ops = o] \in Sims
BY Zenon DEF Sims, Seen

LEMMA SimHoldExcused ==
    ASSUME NEW r \in Sims, NEW h \in {Nil, "present", "old"}, NEW e \in BOOLEAN
    PROVE  [r EXCEPT !.hold = h, !.excused = e] \in Sims
BY Zenon DEF Sims

LEMMA SimHoldStep ==
    ASSUME NEW r \in Sims, NEW h \in {Nil, "present", "old"},
           NEW st \in {"replay", "running", "install", "call"}
    PROVE  [r EXCEPT !.hold = h, !.step = st] \in Sims
BY Zenon DEF Sims

LEMMA SimStep ==
    ASSUME NEW r \in Sims, NEW st \in {"replay", "running", "install", "call"}, NEW o \in BOOLEAN
    PROVE  /\ [r EXCEPT !.step = st] \in Sims
           /\ [r EXCEPT !.step = st, !.overlapped = o] \in Sims
           /\ [r EXCEPT !.overlapped = o] \in Sims
BY Zenon DEF Sims

LEMMA SimTodo ==
    ASSUME NEW r \in Sims, NEW t \in Seq(Txs), NEW e \in BOOLEAN, NEW x \in Seq(Txs),
           NEW st \in {"replay", "running", "install", "call"}
    PROVE  /\ [r EXCEPT !.todo = t, !.step = st, !.excused = e] \in Sims
           /\ [r EXCEPT !.state = x, !.todo = t, !.hold = Nil, !.step = st] \in Sims
           /\ [r EXCEPT !.state = x, !.step = st] \in Sims
<1>1. t \in Seq(Txs \cup {Nil})
  OBVIOUS
<1>. QED
  BY <1>1, Zenon DEF Sims

\* A client's request, if it has one, is one that can be.
Sound(r) == r = Nil \/ (r \in Sims /\ Sensible(r))

\* Two stages of a request that differ in nothing but what was captured.
Alike(r, q) ==
    /\ r.kind = q.kind /\ r.todo = q.todo /\ r.target = q.target /\ r.state = q.state
    /\ r.hold = q.hold /\ r.step = q.step /\ r.excused = q.excused /\ r.overlapped = q.overlapped

\* Nil is none of the requests.
LEMMA SimNotNil ==
    ASSUME NEW r \in Sims
    PROVE  r # Nil
BY NilAssumption

LEMMA AlikeSensible ==
    ASSUME NEW r, NEW q, Alike(q, r), Sensible(r)
    PROVE  Sensible(q)
BY Zenon DEF Alike, Sensible

\* What Orderly says of the requests.
LEMMA OrderlySims ==
    ASSUME Orderly
    PROVE  /\ sim \in [Clients -> Sims \cup {Nil}]
           /\ \A c \in Clients : Sound(sim[c]) /\ (sim[c] # Nil => sim[c] \in Sims)
           /\ TracerLive
           /\ tracer \in Clients \cup {Nil}
BY Zenon DEF Orderly, TypeOK, Sound

LEMMA OpsAlike ==
    ASSUME NEW r \in Sims, NEW o
    PROVE  Alike([r EXCEPT !.ops = o], r) /\ [r EXCEPT !.ops = o].ops = o
BY Zenon DEF Alike, Sims

LEMMA CaptureTypes ==
    ASSUME NEW ops \in Seq(Seen), NEW tx \in Seen
    PROVE  CaptureSlots(ops, tx) \in Seq(Seen) /\ CaptureState(ops, tx) \in Seq(Seen)
BY DEF CaptureSlots, CaptureState

\* DoCall changes nothing of any request but what its tracer saw.
LEMMA CapturedAlike ==
    ASSUME Orderly, NEW tx \in Seen
    PROVE  /\ Captured(tx) \in [Clients -> Sims \cup {Nil}]
           /\ \A d \in Clients :
                /\ sim[d] = Nil => Captured(tx)[d] = Nil
                /\ sim[d] # Nil => Captured(tx)[d] \in Sims /\ Alike(Captured(tx)[d], sim[d])
                /\ d # tracer => Captured(tx)[d] = sim[d]
           /\ \A d \in Clients : d = tracer /\ sim[d].kind = "range"
                => Captured(tx)[d].ops = CaptureSlots(sim[d].ops, tx)
           /\ \A d \in Clients : d = tracer /\ sim[d].kind = "trace"
                => Captured(tx)[d].ops = CaptureState(sim[d].ops, tx)
<1>1. /\ sim \in [Clients -> Sims \cup {Nil}] /\ tracer \in Clients \cup {Nil}
      /\ \A c \in Clients : sim[c] # Nil => sim[c] \in Sims
      /\ tracer # Nil => sim[tracer] # Nil
  BY OrderlySims DEF TracerLive
<1>2. \A d \in Clients : Alike(sim[d], sim[d])
  BY DEF Alike
<1>3. CASE tracer = Nil
  <2>1. Captured(tx) = sim /\ Nil \notin Clients
    BY <1>3, GasAssumption DEF Captured
  <2>. QED
    BY <1>1, <1>2, <1>3, <2>1
<1>4. CASE tracer # Nil
  <2>. DEFINE r == sim[tracer]
              new(o) == [sim EXCEPT ![tracer] = [r EXCEPT !.ops = o]]
  <2>1. tracer \in Clients /\ r \in Sims
    BY <1>1, <1>4
  <2>2. ASSUME NEW o \in Seq(Seen)
        PROVE  /\ new(o) \in [Clients -> Sims \cup {Nil}]
               /\ \A d \in Clients :
                    /\ sim[d] = Nil => new(o)[d] = Nil
                    /\ sim[d] # Nil => new(o)[d] \in Sims /\ Alike(new(o)[d], sim[d])
                    /\ d # tracer => new(o)[d] = sim[d]
               /\ new(o)[tracer].ops = o
    <3>1. [r EXCEPT !.ops = o] \in Sims
      BY <2>1, SimOps
    <3>2. Alike([r EXCEPT !.ops = o], r) /\ [r EXCEPT !.ops = o].ops = o
      BY <2>1, OpsAlike
    <3>. QED
      BY <1>1, <1>2, <2>1, <3>1, <3>2, SimNotNil, Zenon
  <2>3. r.ops \in Seq(Seen)
    BY <2>1, SimFields
  <2>4. CASE r.kind = "range"
    <3>1. Captured(tx) = new(CaptureSlots(r.ops, tx))
      BY <1>4, <2>4 DEF Captured
    <3>2. CaptureSlots(r.ops, tx) \in Seq(Seen)
      BY <2>3, CaptureTypes
    <3>. HIDE DEF new
    <3>. QED
      BY <2>2, <2>4, <3>1, <3>2
  <2>5. CASE r.kind = "trace"
    <3>1. Captured(tx) = new(CaptureState(r.ops, tx))
      BY <1>4, <2>5 DEF Captured
    <3>2. CaptureState(r.ops, tx) \in Seq(Seen)
      BY <2>3, CaptureTypes
    <3>. HIDE DEF new
    <3>. QED
      BY <2>2, <2>5, <3>1, <3>2
  <2>6. CASE r.kind # "range" /\ r.kind # "trace"
    <3>1. Captured(tx) = sim
      BY <1>4, <2>6 DEF Captured
    <3>. QED
      BY <1>1, <1>2, <2>6, <3>1
  <2>. QED
    BY <2>4, <2>5, <2>6
<1>. QED
  BY <1>3, <1>4

-----------------------------------------------------------------------------
(* Orderly is preserved. *)

\* The variables without the requests.
RestOK ==
    /\ fork \in 0 .. MaxFork
    /\ applied \in Seq(Txs) /\ txs \in Seq(Txs)
    /\ gas \in Nat /\ spent \in Nat /\ forfeited \in Nat
    /\ refilled \in BOOLEAN /\ short \in BOOLEAN /\ covered \in BOOLEAN

\* A request that is not over and may read its tracer.
Live(r) == r # Nil /\ (r.step = "call" \/ (r.kind = "range" /\ r.step # "install"))

\* A step does not end, begin or move the request of d.
Goes(d) ==
    /\ sim[d] = Nil => sim'[d] = Nil
    /\ sim[d] # Nil => /\ sim'[d] \in Sims /\ Sensible(sim'[d])
                       /\ sim'[d].kind = sim[d].kind /\ sim'[d].step = sim[d].step

\* Whoever holds gas of the present pool.
Holders == {c \in Clients : sim[c] # Nil /\ sim[c].hold = "present"}

\* A step moves the request of c only.
Moves(c) ==
    /\ sim' \in [Clients -> Sims \cup {Nil}]
    /\ \A d \in Clients \ {c} : Goes(d) /\ (sim[d] # Nil => sim'[d].hold = sim[d].hold)
    /\ Sound(sim'[c])
    /\ tracer' \in {Nil, tracer, c}
    /\ tracer' = c => Live(sim'[c])
    /\ result' \in Sims \cup {Nil}
    /\ UNCHANGED <<nodeVars, refilled, history>>

LEMMA OrderlyFrom ==
    ASSUME RestOK', sim' \in [Clients -> Sims \cup {Nil}], tracer' \in Clients \cup {Nil},
           result' \in Sims \cup {Nil}, \A c \in Clients : Sound(sim'[c]), TracerLive'
    PROVE  Orderly'
<1>1. \A c \in Clients : sim'[c] # Nil => Sensible(sim'[c])
  BY DEF Sound
<1>2. \A c \in Clients : sim'[c] # Nil => (sim'[c].hold # Nil <=> sim'[c].step = "running")
  BY <1>1, Zenon DEF Sensible
<1>. QED
  BY <1>1, <1>2, Zenon DEF Orderly, TypeOK, RestOK

LEMMA RestOf ==
    ASSUME Orderly
    PROVE  RestOK /\ result \in Sims \cup {Nil}
BY Zenon DEF Orderly, TypeOK, RestOK

\* A step that moves one request keeps order.
LEMMA MovesOrderly ==
    ASSUME Orderly, NEW c \in Clients, Moves(c), gas' \in Nat, spent' \in Nat, forfeited' \in Nat
    PROVE  Orderly'
<1>1. RestOK'
  <2>1. RestOK
    BY RestOf
  <2>. QED
    BY <2>1, Zenon DEF RestOK, Moves, nodeVars, history
<1>2. \A d \in Clients : Sound(sim'[d])
  <2>. TAKE d \in Clients
  <2>1. CASE d = c
    BY <2>1 DEF Moves
  <2>2. CASE d # c
    BY <2>2, Zenon DEF Moves, Goes, Sound
  <2>. QED
    BY <2>1, <2>2
<1>3. TracerLive /\ tracer \in Clients \cup {Nil}
  BY OrderlySims
<1>4. TracerLive'
  <2>. SUFFICES ASSUME tracer' # Nil
                PROVE  Live(sim'[tracer'])
    BY Zenon DEF TracerLive, Live
  <2>1. CASE tracer' = c
    BY <2>1 DEF Moves
  <2>2. CASE tracer' # c
    <3>1. tracer' = tracer /\ tracer \in Clients \ {c}
      BY <1>3, <2>2 DEF Moves
    <3>2. Live(sim[tracer])
      BY <1>3, <3>1 DEF TracerLive, Live
    <3>3. Goes(tracer)
      BY <3>1 DEF Moves
    <3>4. sim[tracer] # Nil /\ sim'[tracer] \in Sims
          /\ sim'[tracer].kind = sim[tracer].kind /\ sim'[tracer].step = sim[tracer].step
      BY <3>2, <3>3, Zenon DEF Goes, Live
    <3>5. sim'[tracer] # Nil
      BY <3>4, SimNotNil
    <3>. QED
      BY <3>1, <3>2, <3>4, <3>5, Zenon DEF Live
  <2>. QED
    BY <2>1, <2>2
<1>5. tracer' \in Clients \cup {Nil}
  BY <1>3 DEF Moves
<1>. QED
  BY <1>1, <1>2, <1>4, <1>5, OrderlyFrom, Zenon DEF Moves

\* A new gas pool or a reset leaves every request where it is, and nobody
\* holds gas of the new pool.
LEMMA DetachedGoes ==
    ASSUME Orderly, NEW b \in BOOLEAN
    PROVE  /\ Detached(b) \in [Clients -> Sims \cup {Nil}]
           /\ \A d \in Clients : sim[d] = Nil => Detached(b)[d] = Nil
           /\ \A d \in Clients : sim[d] # Nil =>
                LET q == Detached(b)[d]
                IN  /\ q \in Sims /\ Sensible(q)
                    /\ q.kind = sim[d].kind /\ q.step = sim[d].step
                    /\ q.hold # "present"
                    /\ q.todo = sim[d].todo /\ q.state = sim[d].state /\ q.target = sim[d].target
                    /\ q.ops = sim[d].ops /\ q.overlapped = sim[d].overlapped
                    /\ q.excused = (sim[d].excused \/ (b /\ sim[d].kind \in Replays))
<1>1. \A d \in Clients : sim[d] = Nil => Detached(b)[d] = Nil
  BY DEF Detached
<1>2. ASSUME NEW d \in Clients, sim[d] # Nil
      PROVE  LET q == Detached(b)[d]
             IN  /\ q \in Sims /\ Sensible(q)
                 /\ q.kind = sim[d].kind /\ q.step = sim[d].step
                 /\ q.hold # "present"
                 /\ q.todo = sim[d].todo /\ q.state = sim[d].state /\ q.target = sim[d].target
                 /\ q.ops = sim[d].ops /\ q.overlapped = sim[d].overlapped
                 /\ q.excused = (sim[d].excused \/ (b /\ sim[d].kind \in Replays))
  <2>. DEFINE r == sim[d]
              h == IF r.hold = "present" THEN "old" ELSE r.hold
              e == r.excused \/ (b /\ r.kind \in Replays)
              q == [r EXCEPT !.hold = h, !.excused = e]
  <2>1. r \in Sims /\ Sensible(r)
    BY <1>2 DEF Orderly, TypeOK
  <2>2. Detached(b)[d] = q
    BY <1>2 DEF Detached
  <2>3. h \in {Nil, "present", "old"} /\ h # "present" /\ (h = Nil <=> r.hold = Nil)
    BY <2>1, SimFields, NilAssumption, Zenon
  <2>4. e \in BOOLEAN
    OBVIOUS
  <2>5. q \in Sims
    <3>. HIDE DEF h, e
    <3>. QED
      BY <2>1, <2>3, <2>4, SimHoldExcused
  <2>6. /\ q.kind = r.kind /\ q.step = r.step /\ q.hold = h /\ q.todo = r.todo
        /\ q.state = r.state /\ q.target = r.target /\ q.ops = r.ops
        /\ q.overlapped = r.overlapped /\ q.excused = e
    <3>. HIDE DEF h, e
    <3>. QED
      BY <2>1, Zenon DEF Sims
  <2>7. Sensible(q)
    <3>. HIDE DEF h, e, q
    <3>. QED
      BY <2>1, <2>3, <2>6, Zenon DEF Sensible
  <2>. QED
    BY <2>2, <2>3, <2>5, <2>6, <2>7, Zenon
<1>3. Detached(b) \in [Clients -> Sims \cup {Nil}]
  <2>1. \A d \in Clients : Detached(b)[d] \in Sims \cup {Nil}
    BY <1>1, <1>2, Zenon
  <2>2. Detached(b) = [d \in Clients |-> Detached(b)[d]]
    BY Zenon DEF Detached
  <2>. QED
    BY <2>1, <2>2, Zenon
<1>. QED
  BY <1>1, <1>2, <1>3, Zenon

-----------------------------------------------------------------------------
(* The steps of a simulation. *)

\* A step that changes nothing but the request of c.
LEMMA OnlyOne ==
    ASSUME Orderly, NEW c \in Clients, NEW r, Sound(r), sim' = [sim EXCEPT ![c] = r],
           tracer' \in {Nil, tracer}, tracer' = c => Live(r),
           result' \in Sims \cup {Nil}, UNCHANGED <<nodeVars, refilled, history>>
    PROVE  Moves(c) /\ sim'[c] = r /\ \A d \in Clients \ {c} : sim'[d] = sim[d]
<1>1. sim \in [Clients -> Sims \cup {Nil}]
  BY OrderlySims
<1>2. r \in Sims \cup {Nil}
  BY DEF Sound
<1>3. sim' \in [Clients -> Sims \cup {Nil}] /\ sim'[c] = r /\ \A d \in Clients \ {c} : sim'[d] = sim[d]
  BY <1>1, <1>2
<1>4. \A d \in Clients \ {c} : Goes(d) /\ (sim[d] # Nil => sim'[d].hold = sim[d].hold)
  <2>1. \A d \in Clients : Sound(sim[d])
    BY OrderlySims
  <2>. QED
    BY <1>3, <2>1, Zenon DEF Goes, Sound
<1>. QED
  BY <1>3, <1>4, Zenon DEF Moves

\* The request of c, and what its place says of the field a.tracer.
LEMMA Mine ==
    ASSUME Orderly, NEW c \in Clients, sim[c] # Nil
    PROVE  /\ sim[c] \in Sims /\ Sensible(sim[c])
           /\ tracer = c => Live(sim[c])
<1>1. sim[c] \in Sims /\ Sensible(sim[c])
  BY OrderlySims DEF Orderly
<1>2. tracer = c => Live(sim[c])
  <2>1. TracerLive /\ c # Nil
    BY OrderlySims, GasAssumption
  <2>. QED
    BY <2>1, Zenon DEF TracerLive, Live
<1>. QED
  BY <1>1, <1>2

\* The rest of a list.
LEMMA Rest ==
    ASSUME NEW S, NEW s \in Seq(S), s # <<>>
    PROVE  Tail(s) \in Seq(S) /\ Head(s) \in S
OBVIOUS

\* Skip.
LEMMA SkipMoves ==
    ASSUME Orderly, NEW c \in Clients, NEW b \in BOOLEAN, Skip(c, b), refilled' = refilled,
           At(c, "replay"), sim[c].todo # <<>>
    PROVE  /\ Moves(c)
           /\ sim[c] # Nil /\ sim[c].hold = Nil
           /\ \A d \in Clients \ {c} : sim'[d] = sim[d]
           /\ sim'[c] # Nil =>
                /\ sim'[c] = [sim[c] EXCEPT !.todo = Tail(@), !.step = AfterMsg(c),
                                            !.excused = @ \/ b]
                /\ sim[c].kind # "bundle"
                /\ sim'[c].hold = Nil
<1>. DEFINE r == sim[c]
            st == AfterMsg(c)
            e == r.excused \/ b
            q == [r EXCEPT !.todo = Tail(r.todo), !.step = st, !.excused = e]
<1>1. /\ sim[c] # Nil /\ r.step = "replay" /\ r.todo # <<>>
      /\ result' = Nil /\ tracer' = tracer /\ UNCHANGED <<nodeVars, refilled, history>>
  BY DEF Skip, At
<1>2. r \in Sims /\ Sensible(r) /\ (tracer = c => Live(r))
  BY <1>1, Mine
<1>3. r.hold = Nil
  BY <1>1, <1>2, Zenon DEF Sensible
<1>4. CASE r.kind = "bundle"
  <2>1. sim' = [sim EXCEPT ![c] = Nil]
    BY <1>4 DEF Skip
  <2>2. ~Live(r)
    BY <1>1, <1>4 DEF Live
  <2>3. Sound(Nil)
    BY DEF Sound
  <2>4. Moves(c) /\ sim'[c] = Nil /\ \A d \in Clients \ {c} : sim'[d] = sim[d]
    BY <1>1, <1>2, <2>1, <2>2, <2>3, OnlyOne
  <2>. QED
    BY <1>1, <1>3, <2>4
<1>5. CASE r.kind # "bundle"
  <2>1. sim' = [sim EXCEPT ![c].todo = Tail(@), ![c].step = AfterMsg(c),
                           ![c].excused = @ \/ b]
    BY <1>5 DEF Skip
  <2>2. sim' = [sim EXCEPT ![c] = q]
    BY <2>1, OrderlySims
  <2>3. r.todo \in Seq(Txs)
    BY <1>2, <1>5, Zenon DEF Sensible
  <2>4. Tail(r.todo) \in Seq(Txs)
    BY <1>1, <2>3, Rest
  <2>5. st \in {"replay", "call"} /\ e \in BOOLEAN /\ (r.kind = "range" <=> st = "call")
    BY DEF AfterMsg
  <2>6. q \in Sims
    <3>. HIDE DEF st, e
    <3>. QED
      BY <1>2, <2>4, <2>5, SimTodo, SimFields
  <2>7. /\ q.kind = r.kind /\ q.todo = Tail(r.todo) /\ q.target = r.target
        /\ q.step = st /\ q.hold = r.hold
    <3>. HIDE DEF st, e
    <3>. QED
      BY <1>2, Zenon DEF Sims
  <2>8. r.kind # "estimate"
    BY <1>1, <1>2 DEF Sensible
  <2>9. Sensible(q)
    <3>. HIDE DEF st, e, q
    <3>1. st # "running"
      BY <2>5
    <3>. QED
      BY <1>2, <1>3, <1>5, <2>4, <2>5, <2>7, <2>8, <3>1, Zenon DEF Sensible
  <2>10. tracer = c => Live(q)
    <3>. HIDE DEF st, e, q
    <3>1. q # Nil
      BY <2>6, SimNotNil
    <3>. QED
      BY <1>1, <1>2, <2>5, <2>7, <3>1 DEF Live
  <2>11. Sound(q)
    BY <2>6, <2>9, Zenon DEF Sound
  <2>12. Moves(c) /\ sim'[c] = q /\ \A d \in Clients \ {c} : sim'[d] = sim[d]
    <3>. HIDE DEF q
    <3>. QED
      BY <1>1, <2>2, <2>10, <2>11, OnlyOne
  <2>13. q.hold = Nil
    BY <1>3, <2>7, Zenon
  <2>. QED
    BY <1>1, <1>3, <1>5, <2>12, <2>13, Zenon
<1>. QED
  BY <1>4, <1>5

\* Refuse.
LEMMA RefuseMoves ==
    ASSUME Orderly, NEW c \in Clients, Refuse(c)
    PROVE  /\ Moves(c) /\ UNCHANGED <<gas, spent, forfeited>>
           /\ sim[c] # Nil /\ sim[c].hold = Nil
           /\ \A d \in Clients \ {c} : sim'[d] = sim[d]
           /\ sim'[c] # Nil =>
                /\ sim'[c] = [sim[c] EXCEPT !.todo = Tail(@), !.step = AfterMsg(c),
                                            !.excused = @ \/ Replaying(c)]
                /\ sim[c].kind # "bundle"
                /\ sim'[c].hold = Nil
<1>1. /\ Skip(c, Replaying(c)) /\ refilled' = refilled /\ UNCHANGED <<gas, spent, forfeited>>
      /\ At(c, "replay") /\ sim[c].todo # <<>>
  BY DEF Refuse, gasVars
<1>2. PICK b \in BOOLEAN : b = Replaying(c)
  BY Zenon DEF Replaying
<1>3. Skip(c, b)
  BY <1>1, <1>2, Zenon
<1>. QED
  BY <1>1, <1>2, <1>3, SkipMoves, Zenon

\* Forfeit.
LEMMA ForfeitMoves ==
    ASSUME Orderly, NEW c \in Clients, Forfeit(c)
    PROVE  /\ Moves(c) /\ gas' = gas - TxGas /\ gas >= TxGas /\ UNCHANGED spent
           /\ forfeited' = forfeited + 1
           /\ sim[c] # Nil /\ sim[c].hold = Nil
           /\ \A d \in Clients \ {c} : sim'[d] = sim[d]
           /\ sim'[c] # Nil =>
                /\ sim'[c] = [sim[c] EXCEPT !.todo = Tail(@), !.step = AfterMsg(c),
                                            !.excused = @ \/ FALSE]
                /\ sim[c].kind # "bundle"
                /\ sim'[c].hold = Nil
<1>1. /\ Skip(c, FALSE) /\ refilled' = refilled /\ spent' = spent
      /\ gas' = gas - TxGas /\ gas >= TxGas /\ forfeited' = forfeited + 1
      /\ At(c, "replay") /\ sim[c].todo # <<>>
  BY DEF Forfeit
<1>2. PICK b \in BOOLEAN : b = FALSE
  BY Zenon
<1>3. Skip(c, b)
  BY <1>1, <1>2, Zenon
<1>. QED
  BY <1>1, <1>2, <1>3, SkipMoves, Zenon

\* SubGas.
LEMMA SubGasMoves ==
    ASSUME Orderly, NEW c \in Clients, SubGas(c)
    PROVE  /\ Moves(c) /\ gas' = gas - TxGas /\ gas >= TxGas /\ UNCHANGED <<spent, forfeited>>
           /\ sim[c] # Nil /\ sim[c].hold = Nil
           /\ sim'[c] = [sim[c] EXCEPT !.hold = "present", !.step = "running"]
           /\ sim'[c] # Nil /\ sim'[c].hold = "present"
           /\ \A d \in Clients \ {c} : sim'[d] = sim[d]
<1>. DEFINE r == sim[c]
            q == [r EXCEPT !.hold = "present", !.step = "running"]
<1>1. /\ sim[c] # Nil /\ r.step = "replay" /\ r.todo # <<>>
      /\ gas' = gas - TxGas /\ gas >= TxGas /\ UNCHANGED <<spent, forfeited>>
      /\ result' = Nil /\ tracer' = tracer /\ UNCHANGED <<nodeVars, refilled, history>>
  BY DEF SubGas, At, Replaying
<1>2. r \in Sims /\ Sensible(r) /\ (tracer = c => Live(r))
  BY <1>1, Mine
<1>3. r.hold = Nil
  BY <1>1, <1>2, Zenon DEF Sensible
<1>4. sim' = [sim EXCEPT ![c] = q]
  BY OrderlySims DEF SubGas
<1>5. q \in Sims
  BY <1>2, SimHoldStep
<1>6. /\ q.kind = r.kind /\ q.todo = r.todo /\ q.target = r.target
      /\ q.step = "running" /\ q.hold = "present"
  BY <1>2, Zenon DEF Sims
<1>7. r.kind # "estimate"
  BY <1>1, <1>2 DEF Sensible
<1>8. Sensible(q)
  <2>. HIDE DEF q
  <2>1. "present" # Nil
    BY NilAssumption
  <2>. QED
    BY <1>1, <1>2, <1>6, <1>7, <2>1, Zenon DEF Sensible
<1>9. q # Nil
  BY <1>5, SimNotNil
<1>10. tracer = c => Live(q)
  <2>. HIDE DEF q
  <2>. QED
    BY <1>1, <1>2, <1>6, <1>9 DEF Live
<1>11. Moves(c) /\ sim'[c] = q /\ \A d \in Clients \ {c} : sim'[d] = sim[d]
  <2>1. Sound(q)
    BY <1>5, <1>8, Zenon DEF Sound
  <2>. HIDE DEF q
  <2>. QED
    BY <1>1, <1>4, <1>10, <2>1, OnlyOne
<1>. QED
  BY <1>1, <1>3, <1>6, <1>9, <1>11, Zenon

\* Applied.
LEMMA AppliedMoves ==
    ASSUME Orderly, NEW c \in Clients, Applied(c)
    PROVE  /\ Moves(c) /\ AddGas(c) /\ forfeited' = forfeited
           /\ sim[c] # Nil /\ sim[c].hold # Nil
           /\ sim'[c] # Nil =>
                /\ sim'[c] = [sim[c] EXCEPT !.state = Append(@, Head(sim[c].todo)), !.todo = Tail(@),
                                            !.hold = Nil, !.step = AfterMsg(c)]
                /\ sim'[c].hold = Nil
           /\ \A d \in Clients \ {c} : sim'[d] = sim[d]
<1>. DEFINE r == sim[c]
            st == AfterMsg(c)
            q == [r EXCEPT !.state = Append(r.state, Head(r.todo)), !.todo = Tail(r.todo),
                           !.hold = Nil, !.step = st]
<1>1. /\ sim[c] # Nil /\ r.step = "running" /\ AddGas(c) /\ forfeited' = forfeited
      /\ result' = Nil /\ tracer' = tracer /\ UNCHANGED <<nodeVars, refilled, history>>
  BY DEF Applied, At
<1>2. r \in Sims /\ Sensible(r) /\ (tracer = c => Live(r))
  BY <1>1, Mine
<1>3. r.hold # Nil /\ r.todo # <<>> /\ r.kind # "estimate"
  BY <1>1, <1>2 DEF Sensible
<1>4. CASE r.kind = "bundle"
  <2>1. sim' = [sim EXCEPT ![c] = Nil]
    BY <1>4, OrderlySims DEF Applied
  <2>2. ~Live(r)
    BY <1>1, <1>4 DEF Live
  <2>3. Sound(Nil)
    BY DEF Sound
  <2>4. Moves(c) /\ sim'[c] = Nil /\ \A d \in Clients \ {c} : sim'[d] = sim[d]
    BY <1>1, <1>2, <2>1, <2>2, <2>3, OnlyOne
  <2>. QED
    BY <1>1, <1>3, <2>4
<1>5. CASE r.kind # "bundle"
  <2>1. sim' = [sim EXCEPT ![c] = q]
    <3>1. sim' = [sim EXCEPT ![c] = IF r.kind = "bundle" THEN Nil ELSE q]
      BY Zenon DEF Applied
    <3>. HIDE DEF q
    <3>. QED
      BY <1>5, <3>1
  <2>3. r.todo \in Seq(Txs) /\ r.state \in Seq(Txs)
    BY <1>2, <1>5, SimFields, Zenon DEF Sensible
  <2>4. Tail(r.todo) \in Seq(Txs) /\ Head(r.todo) \in Txs
    BY <1>3, <2>3, Rest
  <2>5. Append(r.state, Head(r.todo)) \in Seq(Txs)
    BY <2>3, <2>4
  <2>6. st \in {"replay", "call"} /\ (r.kind = "range" <=> st = "call")
    BY DEF AfterMsg
  <2>7. q \in Sims
    <3>. HIDE DEF st
    <3>. QED
      BY <1>2, <2>4, <2>5, <2>6, SimTodo
  <2>8. /\ q.kind = r.kind /\ q.todo = Tail(r.todo) /\ q.target = r.target
        /\ q.step = st /\ q.hold = Nil
    <3>. HIDE DEF st
    <3>. QED
      BY <1>2, Zenon DEF Sims
  <2>9. Sensible(q)
    <3>. HIDE DEF st, q
    <3>1. st # "running"
      BY <2>6
    <3>. QED
      BY <1>2, <1>3, <1>5, <2>4, <2>6, <2>8, <3>1, Zenon DEF Sensible
  <2>10. tracer = c => Live(q)
    <3>. HIDE DEF st, q
    <3>1. q # Nil
      BY <2>7, SimNotNil
    <3>. QED
      BY <1>1, <1>2, <2>6, <2>8, <3>1 DEF Live
  <2>11. Sound(q)
    BY <2>7, <2>9, Zenon DEF Sound
  <2>12. Moves(c) /\ sim'[c] = q /\ \A d \in Clients \ {c} : sim'[d] = sim[d]
    <3>. HIDE DEF q
    <3>. QED
      BY <1>1, <2>1, <2>10, <2>11, OnlyOne
  <2>. QED
    BY <1>1, <1>3, <2>8, <2>12, Zenon
<1>. QED
  BY <1>4, <1>5

\* Two stages that differ in overlapped only.
Marked(r, b) == [r EXCEPT !.overlapped = b]

LEMMA MarkedFields ==
    ASSUME NEW r \in Sims, NEW b \in BOOLEAN
    PROVE  /\ Marked(r, b) \in Sims
           /\ Marked(r, b).kind = r.kind /\ Marked(r, b).todo = r.todo
           /\ Marked(r, b).target = r.target /\ Marked(r, b).state = r.state
           /\ Marked(r, b).ops = r.ops /\ Marked(r, b).hold = r.hold
           /\ Marked(r, b).step = r.step /\ Marked(r, b).excused = r.excused
           /\ Marked(r, b).overlapped = b
           /\ Sensible(r) => Sensible(Marked(r, b))
<1>1. /\ Marked(r, b) \in Sims
      /\ Marked(r, b).kind = r.kind /\ Marked(r, b).todo = r.todo
      /\ Marked(r, b).target = r.target /\ Marked(r, b).state = r.state
      /\ Marked(r, b).ops = r.ops /\ Marked(r, b).hold = r.hold
      /\ Marked(r, b).step = r.step /\ Marked(r, b).excused = r.excused
      /\ Marked(r, b).overlapped = b
  BY Zenon DEF Marked, Sims
<1>. QED
  BY <1>1, Zenon DEF Sensible

\* SetTracer.
LEMMA SetTracerMoves ==
    ASSUME Orderly, NEW c \in Clients, SetTracer(c)
    PROVE  /\ Moves(c) /\ UNCHANGED <<gas, spent, forfeited>> /\ tracer' = c /\ result' = Nil
           /\ sim[c] # Nil /\ sim[c].hold = Nil
           /\ \/ sim[c].step = "install"
              \/ sim[c].step = "replay" /\ sim[c].kind = "trace" /\ sim[c].todo = <<>>
           /\ sim[c].kind \in {"trace", "range", "estimate"}
           /\ LET others == {d \in Clients \ {c} : Using(d)}
              IN  /\ sim'[c] = [sim[c] EXCEPT !.step = "call",
                                  !.overlapped = others # {} /\ sim[c].kind \in Replays]
                  /\ \A d \in Clients \ {c} :
                       sim'[d] = IF d \in others /\ sim[d].kind \in Replays
                                 THEN Marked(sim[d], TRUE) ELSE sim[d]
           /\ sim'[c] # Nil /\ sim'[c].hold = Nil
<1>. DEFINE r == sim[c]
            others == {d \in Clients \ {c} : Using(d)}
            b == others # {} /\ sim[c].kind \in Replays
            q == [r EXCEPT !.step = "call", !.overlapped = b]
<1>1. /\ sim[c] # Nil
      /\ \/ sim[c].step = "install"
         \/ sim[c].step = "replay" /\ sim[c].kind = "trace" /\ sim[c].todo = <<>>
      /\ result' = Nil /\ tracer' = c /\ UNCHANGED <<nodeVars, refilled, history>>
      /\ UNCHANGED <<gas, spent, forfeited>>
  BY DEF SetTracer, At, gasVars
<1>2. r \in Sims /\ Sensible(r)
  BY <1>1, Mine
<1>3. r.hold = Nil /\ r.kind \in {"trace", "range", "estimate"}
  <2>1. r.kind \in {"trace", "range", "estimate", "bundle"}
    BY <1>2, SimFields
  <2>2. r.hold = Nil
    BY <1>1, <1>2, Zenon DEF Sensible
  <2>3. r.kind # "bundle"
    BY <1>1, <1>2 DEF Sensible
  <2>. QED
    BY <2>1, <2>2, <2>3
<1>4. /\ sim'[c] = q
      /\ \A d \in Clients \ {c} :
           sim'[d] = IF d \in others /\ sim[d].kind \in Replays
                     THEN Marked(sim[d], TRUE) ELSE sim[d]
      /\ sim' = [d \in Clients |-> sim'[d]]
  BY Zenon DEF SetTracer, Marked
<1>5. q \in Sims /\ q.kind = r.kind /\ q.todo = r.todo /\ q.target = r.target
      /\ q.step = "call" /\ q.hold = r.hold
  <2>1. b \in BOOLEAN
    OBVIOUS
  <2>. HIDE DEF b
  <2>2. q \in Sims
    BY <1>2, <2>1, SimStep
  <2>. QED
    BY <1>2, <2>2, Zenon DEF Sims
<1>6. q # Nil
  BY <1>5, SimNotNil
<1>7. Sensible(q) /\ Live(q)
  <2>. HIDE DEF q
  <2>1. Live(q)
    BY <1>5, <1>6, Zenon DEF Live
  <2>2. r.kind # "bundle"
    BY <1>3
  <2>3. Sensible(q)
    BY <1>2, <1>3, <1>5, <2>2 DEF Sensible
  <2>. QED
    BY <2>1, <2>3
<1>8. ASSUME NEW d \in Clients \ {c}
      PROVE  /\ Goes(d) /\ (sim[d] # Nil => sim'[d].hold = sim[d].hold)
             /\ sim'[d] \in Sims \cup {Nil}
  <2>1. CASE d \in others /\ sim[d].kind \in Replays
    <3>1. sim[d] # Nil
      BY <2>1, Zenon DEF Using, At
    <3>2. sim[d] \in Sims /\ Sensible(sim[d]) /\ sim'[d] = Marked(sim[d], TRUE)
      BY <1>4, <2>1, <3>1, Mine
    <3>3. /\ sim'[d] \in Sims /\ Sensible(sim'[d]) /\ sim'[d].hold = sim[d].hold
          /\ sim'[d].kind = sim[d].kind /\ sim'[d].step = sim[d].step
      <4>1. /\ Marked(sim[d], TRUE) \in Sims /\ Marked(sim[d], TRUE).hold = sim[d].hold
            /\ Sensible(Marked(sim[d], TRUE)) /\ Marked(sim[d], TRUE).kind = sim[d].kind
            /\ Marked(sim[d], TRUE).step = sim[d].step
        BY <3>2, MarkedFields, Zenon
      <4>. QED
        BY <3>2, <4>1, Zenon
    <3>. QED
      BY <3>1, <3>3, Zenon DEF Goes
  <2>2. CASE ~(d \in others /\ sim[d].kind \in Replays)
    <3>1. sim'[d] = sim[d] /\ Sound(sim[d])
      BY <1>4, <2>2, OrderlySims, Zenon
    <3>. QED
      BY <3>1, Zenon DEF Goes, Sound
  <2>. QED
    BY <2>1, <2>2
<1>9. sim' \in [Clients -> Sims \cup {Nil}]
  <2>1. \A d \in Clients : sim'[d] \in Sims \cup {Nil}
    BY <1>4, <1>5, <1>8, Zenon
  <2>. QED
    BY <1>4, <2>1, Zenon
<1>10. Moves(c)
  <2>1. Sound(sim'[c]) /\ Live(sim'[c])
    BY <1>4, <1>5, <1>7, Zenon DEF Sound
  <2>. QED
    BY <1>1, <1>8, <1>9, <2>1, Zenon DEF Moves
<1>. QED
  BY <1>1, <1>3, <1>4, <1>5, <1>6, <1>10, Zenon

\* Where a request stands that leaves.
LEMMA Leaves ==
    ASSUME Orderly, NEW c \in Clients, sim[c] # Nil, sim[c].step # "running", NEW s,
           s \in [Clients -> Sims \cup {Nil}],
           \A d \in Clients :
             /\ sim[d] = Nil => s[d] = Nil
             /\ sim[d] # Nil => s[d] \in Sims /\ Alike(s[d], sim[d]),
           sim' = [s EXCEPT ![c] = Nil], result' \in Sims \cup {Nil},
           tracer' \in {Nil, tracer}, tracer' # c,
           UNCHANGED <<nodeVars, gas, spent, forfeited, refilled, history>>
    PROVE  /\ Moves(c) /\ UNCHANGED <<gas, spent, forfeited>>
           /\ sim'[c] = Nil /\ sim[c].hold = Nil
           /\ \A d \in Clients \ {c} : sim'[d] = s[d]
<1>1. sim' \in [Clients -> Sims \cup {Nil}] /\ sim'[c] = Nil /\ \A d \in Clients \ {c} : sim'[d] = s[d]
  OBVIOUS
<1>2. ASSUME NEW d \in Clients \ {c}
      PROVE  Goes(d) /\ (sim[d] # Nil => sim'[d].hold = sim[d].hold)
  <2>1. CASE sim[d] = Nil
    BY <1>1, <2>1, Zenon DEF Goes
  <2>2. CASE sim[d] # Nil
    <3>1. sim'[d] \in Sims /\ Alike(sim'[d], sim[d]) /\ Sensible(sim[d])
      BY <1>1, <2>2, Mine
    <3>2. Sensible(sim'[d])
      BY <3>1, AlikeSensible
    <3>. QED
      BY <2>2, <3>1, <3>2, Zenon DEF Goes, Alike
  <2>. QED
    BY <2>1, <2>2
<1>3. sim[c].hold = Nil
  <2>1. Sensible(sim[c])
    BY Mine
  <2>. QED
    BY <2>1, Zenon DEF Sensible
<1>4. Sound(sim'[c])
  BY <1>1 DEF Sound
<1>. QED
  BY <1>1, <1>2, <1>3, <1>4, Zenon DEF Moves

\* A DoCall whose request goes on or leaves.
LEMMA Unseen ==
    ASSUME Orderly
    PROVE  \A d \in Clients :
             /\ sim[d] = Nil => sim[d] = Nil
             /\ sim[d] # Nil => sim[d] \in Sims /\ Alike(sim[d], sim[d])
BY OrderlySims, Zenon DEF Alike

\* TraceCall.
LEMMA TraceCallMoves ==
    ASSUME Orderly, NEW c \in Clients, TraceCall(c)
    PROVE  /\ Moves(c) /\ UNCHANGED <<gas, spent, forfeited>>
           /\ sim[c] # Nil /\ sim[c].step = "call" /\ sim[c].kind = "trace"
           /\ sim'[c] = Nil /\ sim[c].hold = Nil
           /\ \/ /\ result' = Captured(sim[c].target)[c]
                 /\ Applies(fork, sim[c].state, sim[c].target)
                 /\ sim[c].target \in Seen
                 /\ \A d \in Clients \ {c} : sim'[d] = Captured(sim[c].target)[d]
              \/ result' = Nil /\ \A d \in Clients \ {c} : sim'[d] = sim[d]
           /\ tracer' = IF tracer = c THEN Nil ELSE tracer
<1>. DEFINE r == sim[c]
            seen == Captured(r.target)
<1>1. /\ r # Nil /\ r.step = "call" /\ r.kind = "trace"
      /\ tracer' = IF tracer = c THEN Nil ELSE tracer
      /\ UNCHANGED <<nodeVars, gas, spent, forfeited, refilled, history>>
  BY DEF TraceCall, At, LeaveTracer, gasVars
<1>2. r \in Sims /\ Sensible(r) /\ Nil # c
  BY <1>1, Mine, GasAssumption
<1>3. r.target \in Seen
  BY <1>1, <1>2 DEF Sensible, Replays, Seen
<1>4. tracer' \in {Nil, tracer} /\ tracer' # c /\ r.step # "running"
  BY <1>1, <1>2
<1>5. CASE Applies(fork, r.state, r.target)
  <2>1. result' = seen[c] /\ sim' = [seen EXCEPT ![c] = Nil]
    BY <1>5 DEF TraceCall
  <2>2. /\ seen \in [Clients -> Sims \cup {Nil}]
        /\ \A d \in Clients :
             /\ sim[d] = Nil => seen[d] = Nil
             /\ sim[d] # Nil => seen[d] \in Sims /\ Alike(seen[d], sim[d])
    BY <1>3, CapturedAlike, Zenon
  <2>3. result' \in Sims \cup {Nil}
    BY <2>1, <2>2
  <2>. HIDE DEF seen
  <2>4. /\ Moves(c) /\ sim'[c] = Nil /\ r.hold = Nil
        /\ \A d \in Clients \ {c} : sim'[d] = seen[d]
    BY <1>1, <1>4, <2>1, <2>2, <2>3, Leaves
  <2>. QED
    BY <1>1, <1>3, <1>5, <2>1, <2>4, Zenon DEF seen
<1>6. CASE ~Applies(fork, r.state, r.target)
  <2>1. result' = Nil /\ sim' = [sim EXCEPT ![c] = Nil]
    BY <1>6 DEF TraceCall
  <2>2. /\ Moves(c) /\ sim'[c] = Nil /\ r.hold = Nil
        /\ \A d \in Clients \ {c} : sim'[d] = sim[d]
    BY <1>1, <1>4, <2>1, OrderlySims, Unseen, Leaves
  <2>. QED
    BY <1>1, <2>1, <2>2, Zenon
<1>. QED
  BY <1>5, <1>6

\* ProbeCall.
LEMMA ProbeCallMoves ==
    ASSUME Orderly, NEW c \in Clients, ProbeCall(c)
    PROVE  /\ Moves(c) /\ UNCHANGED <<gas, spent, forfeited>>
           /\ sim[c] # Nil /\ sim[c].step = "replay" /\ sim[c].kind = "trace" /\ sim[c].todo = <<>>
           /\ sim'[c] = Nil /\ sim[c].hold = Nil
           /\ \A d \in Clients \ {c} : sim'[d] = sim[d]
           /\ \/ /\ result' = [sim[c] EXCEPT !.ops = <<sim[c].target>>]
                 /\ Applies(fork, sim[c].state, sim[c].target)
              \/ result' = Nil
           /\ tracer' = tracer
<1>. DEFINE r == sim[c]
<1>1. /\ r # Nil /\ r.step = "replay" /\ r.kind = "trace" /\ r.todo = <<>>
      /\ tracer' = tracer /\ sim' = [sim EXCEPT ![c] = Nil]
      /\ UNCHANGED <<nodeVars, gas, spent, forfeited, refilled, history>>
  BY DEF ProbeCall, At, gasVars
<1>2. r \in Sims /\ Sensible(r) /\ (tracer = c => Live(r))
  BY <1>1, Mine
<1>3. tracer # c /\ r.step # "running"
  BY <1>1, <1>2 DEF Live
<1>4. r.target \in Txs
  BY <1>1, <1>2 DEF Sensible, Replays
<1>5. \/ result' = [r EXCEPT !.ops = <<r.target>>] /\ Applies(fork, r.state, r.target)
      \/ result' = Nil
  <2>1. CaptureState(ResetTracer(CaptureState(r.ops, r.target)), r.target) = <<r.target>>
    BY DEF CaptureState, ResetTracer
  <2>. QED
    BY <2>1 DEF ProbeCall
<1>6. result' \in Sims \cup {Nil}
  <2>1. <<r.target>> \in Seq(Seen)
    BY <1>4 DEF Seen
  <2>2. [r EXCEPT !.ops = <<r.target>>] \in Sims
    BY <1>2, <2>1, SimOps
  <2>. QED
    BY <1>5, <2>2
<1>7. /\ Moves(c) /\ sim'[c] = Nil /\ r.hold = Nil
      /\ \A d \in Clients \ {c} : sim'[d] = sim[d]
  BY <1>1, <1>3, <1>6, OrderlySims, Unseen, Leaves
<1>. QED
  BY <1>1, <1>5, <1>7, Zenon

\* EstimateCall.
LEMMA EstimateCallMoves ==
    ASSUME Orderly, NEW c \in Clients, EstimateCall(c)
    PROVE  /\ Moves(c) /\ UNCHANGED <<gas, spent, forfeited>>
           /\ sim[c] # Nil /\ sim[c].step = "call" /\ sim[c].kind = "estimate"
           /\ sim'[c] = Nil /\ sim[c].hold = Nil /\ result' = Nil
           /\ \A d \in Clients \ {c} : sim'[d] = Captured(<<Nil, Nil>>)[d]
           /\ tracer' = IF tracer = c THEN Nil ELSE tracer
<1>. DEFINE r == sim[c]
            seen == Captured(<<Nil, Nil>>)
<1>1. /\ r # Nil /\ r.step = "call" /\ r.kind = "estimate" /\ result' = Nil
      /\ tracer' = IF tracer = c THEN Nil ELSE tracer
      /\ sim' = [seen EXCEPT ![c] = Nil]
      /\ UNCHANGED <<nodeVars, gas, spent, forfeited, refilled, history>>
  BY DEF EstimateCall, At, LeaveTracer, gasVars
<1>2. tracer' \in {Nil, tracer} /\ tracer' # c /\ r.step # "running"
  BY <1>1, GasAssumption
<1>3. /\ seen \in [Clients -> Sims \cup {Nil}]
      /\ \A d \in Clients :
           /\ sim[d] = Nil => seen[d] = Nil
           /\ sim[d] # Nil => seen[d] \in Sims /\ Alike(seen[d], sim[d])
  <2>1. <<Nil, Nil>> \in Seen
    BY DEF Seen
  <2>. QED
    BY <2>1, CapturedAlike, Zenon
<1>. HIDE DEF seen
<1>4. /\ Moves(c) /\ sim'[c] = Nil /\ r.hold = Nil
      /\ \A d \in Clients \ {c} : sim'[d] = seen[d]
  BY <1>1, <1>2, <1>3, Leaves
<1>. QED
  BY <1>1, <1>4, Zenon DEF seen

\* RangeReturns.
LEMMA RangeReturnsMoves ==
    ASSUME Orderly, NEW c \in Clients, RangeReturns(c)
    PROVE  /\ Moves(c) /\ UNCHANGED <<gas, spent, forfeited>>
           /\ sim[c] # Nil /\ sim[c].step = "call" /\ sim[c].kind = "range"
           /\ sim'[c] = Nil /\ sim[c].hold = Nil /\ result' = sim[c]
           /\ \A d \in Clients \ {c} : sim'[d] = sim[d]
           /\ tracer' = IF tracer = c THEN Nil ELSE tracer
<1>. DEFINE r == sim[c]
<1>1. /\ r # Nil /\ r.step = "call" /\ r.kind = "range" /\ result' = r
      /\ tracer' = IF tracer = c THEN Nil ELSE tracer
      /\ sim' = [sim EXCEPT ![c] = Nil]
      /\ UNCHANGED <<nodeVars, gas, spent, forfeited, refilled, history>>
  BY DEF RangeReturns, At, LeaveTracer, gasVars
<1>2. tracer' \in {Nil, tracer} /\ tracer' # c /\ r.step # "running"
  BY <1>1, GasAssumption
<1>3. result' \in Sims \cup {Nil}
  BY <1>1, Mine
<1>4. /\ Moves(c) /\ sim'[c] = Nil /\ r.hold = Nil
      /\ \A d \in Clients \ {c} : sim'[d] = sim[d]
  BY <1>1, <1>2, <1>3, OrderlySims, Unseen, Leaves
<1>. QED
  BY <1>1, <1>4, Zenon

\* RangeCall.
LEMMA RangeCallMoves ==
    ASSUME Orderly, NEW c \in Clients, RangeCall(c)
    PROVE  /\ Moves(c) /\ UNCHANGED <<gas, spent, forfeited, tracer>> /\ result' = Nil
           /\ sim[c] # Nil /\ sim[c].step = "call" /\ sim[c].kind = "range"
           /\ sim[c].todo # <<>> /\ sim[c].hold = Nil
           /\ sim'[c] # Nil /\ sim'[c].hold = Nil
           /\ LET tx == Head(sim[c].todo)
              IN  /\ tx \in Txs
                  /\ \/ /\ Applies(fork, sim[c].state, tx)
                        /\ sim'[c] = [Captured(tx)[c] EXCEPT !.state = Append(sim[c].state, tx),
                                                             !.step = "replay"]
                        /\ \A d \in Clients \ {c} : sim'[d] = Captured(tx)[d]
                     \/ /\ ~Applies(fork, sim[c].state, tx)
                        /\ sim'[c] = [sim[c] EXCEPT !.step = "replay"]
                        /\ \A d \in Clients \ {c} : sim'[d] = sim[d]
<1>. DEFINE r == sim[c]
            tx == Head(r.todo)
            seen == Captured(tx)
            p == seen[c]
            q == [p EXCEPT !.state = Append(r.state, tx), !.step = "replay"]
<1>1. /\ r # Nil /\ r.step = "call" /\ r.kind = "range" /\ r.todo # <<>>
      /\ result' = Nil /\ tracer' = tracer
      /\ UNCHANGED <<nodeVars, gas, spent, forfeited, refilled, history>>
  BY DEF RangeCall, At, gasVars
<1>2. r \in Sims /\ Sensible(r)
  BY <1>1, Mine
<1>3. r.todo \in Seq(Txs) /\ r.state \in Seq(Txs) /\ r.hold = Nil
  <2>1. r.state \in Seq(Txs)
    BY <1>2, SimFields
  <2>2. r.todo \in Seq(Txs)
    BY <1>1, <1>2 DEF Sensible
  <2>3. r.hold = Nil
    BY <1>1, <1>2, Zenon DEF Sensible
  <2>. QED
    BY <2>1, <2>2, <2>3
<1>4. tx \in Txs /\ Append(r.state, tx) \in Seq(Txs)
  BY <1>1, <1>3
<1>5. CASE Applies(fork, r.state, tx)
  <2>. HIDE DEF tx
  <2>1. /\ seen \in [Clients -> Sims \cup {Nil}]
        /\ \A d \in Clients :
             /\ sim[d] = Nil => seen[d] = Nil
             /\ sim[d] # Nil => seen[d] \in Sims /\ Alike(seen[d], sim[d])
    <3>1. tx \in Seen
      BY <1>4 DEF Seen
    <3>. QED
      BY <3>1, CapturedAlike, Zenon
  <2>2. p \in Sims /\ Alike(p, r)
    BY <1>1, <2>1, Zenon
  <2>3. sim' = [seen EXCEPT ![c] = q]
    <3>1. sim' = [seen EXCEPT ![c].state = Append(@, tx), ![c].step = "replay"]
      BY <1>5 DEF RangeCall, tx
    <3>2. p.state = r.state
      BY <2>2, Zenon DEF Alike
    <3>. HIDE DEF seen
    <3>. QED
      BY <2>1, <3>1, <3>2
  <2>. HIDE DEF seen, p
  <2>4. q \in Sims
    BY <1>4, <2>2, SimTodo, SimFields, <1>3
  <2>5. q.kind = p.kind /\ q.todo = p.todo /\ q.target = p.target /\ q.hold = p.hold
        /\ q.step = "replay"
    BY <2>2, Zenon DEF Sims
  <2>6. q.kind = r.kind /\ q.todo = r.todo /\ q.target = r.target /\ q.hold = Nil
    BY <1>3, <2>2, <2>5, Zenon DEF Alike
  <2>. HIDE DEF q
  <2>7. Sensible(q)
    BY <1>1, <1>2, <2>5, <2>6 DEF Sensible
  <2>8. q # Nil
    BY <2>4, SimNotNil
  <2>9. Live(q) /\ Sound(q)
    BY <1>1, <2>4, <2>5, <2>6, <2>7, <2>8 DEF Live, Sound
  <2>10. /\ sim' \in [Clients -> Sims \cup {Nil}] /\ sim'[c] = q
         /\ \A d \in Clients \ {c} : sim'[d] = seen[d]
    BY <2>1, <2>3, <2>4
  <2>11. ASSUME NEW d \in Clients \ {c}
         PROVE  Goes(d) /\ (sim[d] # Nil => sim'[d].hold = sim[d].hold)
    <3>1. CASE sim[d] = Nil
      BY <2>1, <2>10, <3>1, Zenon DEF Goes
    <3>2. CASE sim[d] # Nil
      <4>1. sim'[d] \in Sims /\ Alike(sim'[d], sim[d]) /\ Sensible(sim[d])
        BY <2>1, <2>10, <3>2, Mine
      <4>2. Sensible(sim'[d])
        BY <4>1, AlikeSensible
      <4>. QED
        BY <3>2, <4>1, <4>2, Zenon DEF Goes, Alike
    <3>. QED
      BY <3>1, <3>2
  <2>12. Moves(c)
    BY <1>1, <2>9, <2>10, <2>11, Zenon DEF Moves
  <2>. QED
    BY <1>1, <1>3, <1>4, <1>5, <2>6, <2>8, <2>10, <2>12, Zenon DEF q, p, seen, tx
<1>6. CASE ~Applies(fork, r.state, tx)
  <2>. DEFINE w == [r EXCEPT !.step = "replay"]
  <2>1. sim' = [sim EXCEPT ![c] = w]
    BY <1>6, OrderlySims DEF RangeCall
  <2>2. w \in Sims
    BY <1>2, SimStep
  <2>3. /\ w.kind = r.kind /\ w.todo = r.todo /\ w.target = r.target /\ w.hold = r.hold
        /\ w.step = "replay"
    BY <1>2, Zenon DEF Sims
  <2>4. w # Nil
    BY <2>2, SimNotNil
  <2>. HIDE DEF w
  <2>5. Sensible(w)
    BY <1>1, <1>2, <1>3, <2>3 DEF Sensible
  <2>6. Live(w) /\ Sound(w) /\ w.hold = Nil
    BY <1>1, <1>3, <2>2, <2>3, <2>4, <2>5 DEF Live, Sound
  <2>7. Moves(c) /\ sim'[c] = w /\ \A d \in Clients \ {c} : sim'[d] = sim[d]
    BY <1>1, <2>1, <2>6, OnlyOne
  <2>. QED
    BY <1>1, <1>3, <1>4, <1>6, <2>4, <2>6, <2>7, Zenon DEF w
<1>. QED
  BY <1>5, <1>6

-----------------------------------------------------------------------------
(* Requests arrive, and the node's own steps. *)

\* The stage in which a request arrives.
Fresh(kind, list, target) ==
    [kind |-> kind, todo |-> list, target |-> target,
     state |-> <<>>, ops |-> <<>>, hold |-> Nil,
     step |-> IF kind \in {"trace", "bundle"} THEN "replay" ELSE "install",
     excused |-> FALSE, overlapped |-> FALSE]

LEMMA FreshSound ==
    ASSUME NEW kind \in {"trace", "range", "estimate", "bundle"},
           NEW list \in Seq(Txs \cup {Nil}), NEW target \in Txs \cup {Nil},
           kind # "bundle" => list \in Seq(Txs), kind \in Replays => target \in Txs
    PROVE  /\ Fresh(kind, list, target) \in Sims
           /\ Sensible(Fresh(kind, list, target))
           /\ Sound(Fresh(kind, list, target)) /\ Fresh(kind, list, target) # Nil
<1>. DEFINE q == Fresh(kind, list, target)
            st == IF kind \in {"trace", "bundle"} THEN "replay" ELSE "install"
<1>1. st \in {"replay", "running", "install", "call"} /\ st # "running"
  OBVIOUS
<1>2. <<>> \in Seq(Txs) /\ <<>> \in Seq(Txs \cup {<<Nil, Nil>>})
  OBVIOUS
<1>3. /\ q.kind = kind /\ q.todo = list /\ q.target = target /\ q.hold = Nil
      /\ q.step = st
  BY DEF Fresh
<1>4. q \in Sims
  <2>1. q = [kind |-> kind, todo |-> list, target |-> target,
             state |-> <<>>, ops |-> <<>>, hold |-> Nil, step |-> st,
             excused |-> FALSE, overlapped |-> FALSE]
    BY DEF Fresh
  <2>. HIDE DEF q, st
  <2>. QED
    BY <1>1, <1>2, <2>1, Zenon DEF Sims
<1>5. Sensible(q)
  <2>1. kind = "estimate" => st \in {"install", "call"}
    OBVIOUS
  <2>2. kind = "bundle" => st \in {"replay", "running"}
    OBVIOUS
  <2>. HIDE DEF q, st
  <2>. QED
    BY <1>1, <1>3, <2>1, <2>2, Zenon DEF Sensible
<1>. QED
  BY <1>4, <1>5, SimNotNil DEF Sound

\* What precedes a transaction of the pool.
LEMMA BeforeType ==
    ASSUME NEW list \in Seq(Txs), NEW hash, NEW j \in DOMAIN list, list[j] = hash
    PROVE  LET i == Min({k \in DOMAIN list : list[k] = hash})
           IN  /\ i \in DOMAIN list /\ list[i] = hash
               /\ \A k \in DOMAIN list : list[k] = hash => i <= k
               /\ i - 1 \in 0 .. Len(list)
               /\ SubSeq(list, 1, i - 1) \in Seq(Txs)
<1>. DEFINE S == {k \in DOMAIN list : list[k] = hash}
<1>1. S \subseteq Nat /\ j \in S /\ S \subseteq DOMAIN list /\ S \subseteq 1 .. Len(list)
  OBVIOUS
<1>2. \E x \in S : \A y \in S : x <= y
  <2>. HIDE DEF S
  <2>. QED
    BY <1>1, LeastNatural
<1>3. Min(S) \in S /\ \A y \in S : Min(S) <= y
  <2>. HIDE DEF S
  <2>. QED
    BY <1>2 DEF Min
<1>4. Min(S) \in 1 .. Len(list)
  BY <1>1, <1>3
<1>5. Min(S) - 1 \in 0 .. Len(list)
  <2>. HIDE DEF S
  <2>. QED
    BY <1>4
<1>6. SubSeq(list, 1, Min(S) - 1) \in Seq(Txs)
  <2>. HIDE DEF S
  <2>. QED
    BY <1>5
<1>. QED
  BY <1>3, <1>5, <1>6

\* TraceTransaction, StorageRangeAt and EstimateGas.
LEMMA ArriveMoves ==
    ASSUME Orderly, NEW c \in Clients, sim[c] = Nil,
           NEW kind \in {"trace", "range", "estimate"}, NEW list \in Seq(Txs),
           NEW target \in Txs \cup {Nil}, kind \in Replays => target \in Txs,
           Start(c, kind, list, target, sim), result' = Nil,
           UNCHANGED <<nodeVars, gasVars, tracer, history>>
    PROVE  /\ Moves(c) /\ UNCHANGED <<gas, spent, forfeited>>
           /\ sim'[c] = Fresh(kind, list, target) /\ sim'[c] # Nil
           /\ \A d \in Clients \ {c} : sim'[d] = sim[d]
           /\ tracer # c
<1>1. sim' = [sim EXCEPT ![c] = Fresh(kind, list, target)]
  BY DEF Start, Fresh
<1>2. tracer # c
  <2>1. TracerLive /\ c # Nil
    BY OrderlySims, GasAssumption
  <2>. QED
    BY <2>1 DEF TracerLive
<1>3. Sound(Fresh(kind, list, target)) /\ Fresh(kind, list, target) # Nil
  <2>1. list \in Seq(Txs \cup {Nil}) /\ kind \in {"trace", "range", "estimate", "bundle"}
    OBVIOUS
  <2>. QED
    BY <2>1, FreshSound
<1>4. /\ tracer' \in {Nil, tracer} /\ tracer' # c /\ result' \in Sims \cup {Nil}
      /\ UNCHANGED <<nodeVars, refilled, history>> /\ UNCHANGED <<gas, spent, forfeited>>
  BY <1>2 DEF gasVars
<1>. DEFINE q == Fresh(kind, list, target)
<1>. HIDE DEF q
<1>5. Moves(c) /\ sim'[c] = q /\ \A d \in Clients \ {c} : sim'[d] = sim[d]
  BY <1>1, <1>3, <1>4, OnlyOne DEF q
<1>. QED
  BY <1>2, <1>3, <1>4, <1>5, Zenon DEF q

\* A step that moves no request, or starts one.
LEMMA GoesOrderly ==
    ASSUME Orderly, RestOK', sim' \in [Clients -> Sims \cup {Nil}], result' = Nil,
           tracer' = tracer,
           \A d \in Clients : Goes(d) \/ (sim[d] = Nil /\ Sound(sim'[d]))
    PROVE  Orderly'
<1>1. \A d \in Clients : Sound(sim'[d])
  BY Zenon DEF Goes, Sound
<1>2. TracerLive /\ tracer \in Clients \cup {Nil}
  BY OrderlySims
<1>3. TracerLive'
  <2>. SUFFICES ASSUME tracer # Nil
                PROVE  Live(sim'[tracer])
    BY Zenon DEF TracerLive, Live
  <2>1. Live(sim[tracer]) /\ tracer \in Clients
    BY <1>2 DEF TracerLive, Live
  <2>2. sim[tracer] # Nil
    BY <2>1, Zenon DEF Live
  <2>3. sim'[tracer] \in Sims
        /\ sim'[tracer].kind = sim[tracer].kind /\ sim'[tracer].step = sim[tracer].step
    BY <2>1, <2>2, Zenon DEF Goes
  <2>4. sim'[tracer] # Nil
    BY <2>3, SimNotNil
  <2>. QED
    BY <2>1, <2>3, <2>4, Zenon DEF Live
<1>. QED
  BY <1>1, <1>2, <1>3, OrderlyFrom, Zenon

\* A reset of the node.
LEMMA DetachedOrderly ==
    ASSUME Orderly, RestOK', sim' = Detached(TRUE), result' = Nil, tracer' = tracer
    PROVE  Orderly' /\ Holders' = {}
<1>. DEFINE D == Detached(TRUE)
<1>1. /\ D \in [Clients -> Sims \cup {Nil}]
      /\ \A d \in Clients : sim[d] = Nil => D[d] = Nil
      /\ \A d \in Clients : sim[d] # Nil =>
           /\ D[d] \in Sims /\ Sensible(D[d])
           /\ D[d].kind = sim[d].kind /\ D[d].step = sim[d].step /\ D[d].hold # "present"
  <2>. HIDE DEF D
  <2>1. TRUE \in BOOLEAN
    OBVIOUS
  <2>. QED
    BY <2>1, DetachedGoes, Zenon DEF D
<1>2. sim' = D
  OBVIOUS
<1>. HIDE DEF D
<1>3. \A d \in Clients : Goes(d)
  BY <1>1, <1>2, Zenon DEF Goes
<1>4. Orderly'
  BY <1>1, <1>2, <1>3, GoesOrderly
<1>5. Holders' = {}
  BY <1>1, <1>2 DEF Holders
<1>. QED
  BY <1>4, <1>5

\* TraceTransactionBundle.
LEMMA BundleOrderly ==
    ASSUME Orderly, NEW c \in Clients, TraceTransactionBundle(c), result' = Nil
    PROVE  /\ Orderly' /\ Holders' = {}
           /\ gas' = GasLimit /\ spent' = 0 /\ forfeited' = 0 /\ refilled' = TRUE
           /\ UNCHANGED <<nodeVars, tracer, history>>
           /\ sim[c] = Nil /\ sim'[c] = Fresh("bundle", <<Nil>>, Nil)
           /\ \A d \in Clients \ {c} : sim'[d] = Detached(FALSE)[d]
<1>. DEFINE D == Detached(FALSE)
            q == Fresh("bundle", <<Nil>>, Nil)
<1>0. /\ gas' = GasLimit /\ spent' = 0 /\ forfeited' = 0 /\ refilled' = TRUE /\ sim[c] = Nil
      /\ sim' = [D EXCEPT ![c] = q] /\ UNCHANGED <<nodeVars, tracer, history>>
  BY Zenon DEF TraceTransactionBundle, Start, Fresh
<1>1. /\ D \in [Clients -> Sims \cup {Nil}]
      /\ \A d \in Clients : sim[d] = Nil => D[d] = Nil
      /\ \A d \in Clients : sim[d] # Nil =>
           /\ D[d] \in Sims /\ Sensible(D[d])
           /\ D[d].kind = sim[d].kind /\ D[d].step = sim[d].step /\ D[d].hold # "present"
  <2>. HIDE DEF D
  <2>1. FALSE \in BOOLEAN
    OBVIOUS
  <2>. QED
    BY <2>1, DetachedGoes, Zenon DEF D
<1>2. q \in Sims /\ Sound(q)
  <2>1. <<Nil>> \in Seq(Txs \cup {Nil})
    OBVIOUS
  <2>2. "bundle" \notin Replays
    BY DEF Replays
  <2>. QED
    BY <2>1, <2>2, FreshSound
<1>3. q.hold = Nil /\ Nil # "present"
  BY NilAssumption DEF Fresh
<1>. HIDE DEF D, q
<1>4. /\ sim' \in [Clients -> Sims \cup {Nil}] /\ sim'[c] = q
      /\ \A d \in Clients \ {c} : sim'[d] = D[d]
  BY <1>0, <1>1, <1>2
<1>5. ASSUME NEW d \in Clients
      PROVE  Goes(d) \/ (sim[d] = Nil /\ Sound(sim'[d]))
  <2>1. CASE d = c
    BY <1>0, <1>2, <1>4, <2>1, Zenon
  <2>2. CASE d # c
    BY <1>1, <1>4, <2>2, Zenon DEF Goes
  <2>. QED
    BY <2>1, <2>2
<1>6. RestOK'
  <2>1. RestOK
    BY RestOf
  <2>2. gas' \in Nat /\ spent' \in Nat /\ forfeited' \in Nat /\ refilled' \in BOOLEAN
    BY <1>0, GasAssumption
  <2>. QED
    BY <1>0, <2>1, <2>2, Zenon DEF RestOK, nodeVars, history
<1>7. Orderly'
  BY <1>0, <1>4, <1>5, <1>6, GoesOrderly
<1>8. Holders' = {}
  BY <1>0, <1>1, <1>3, <1>4, Zenon DEF Holders
<1>. QED
  BY <1>0, <1>4, <1>7, <1>8, Zenon DEF D, q

-----------------------------------------------------------------------------
(* The gas of the block. *)

\* What is left in the pool, what is held of it, what was used and what was
\* forfeited.
Total == gas + TxGas * Cardinality(Holders) + UsedGas * spent + TxGas * forfeited

GasInv == Total = GasLimit /\ (~refilled => Len(applied) <= spent)

LEMMA GasInvIs ==
    GasInv <=> GasAddsUp
BY DEF GasInv, GasAddsUp, Total, Holders

LEMMA HoldersFinite ==
    /\ IsFiniteSet(Holders) /\ Cardinality(Holders) \in Nat
    /\ IsFiniteSet(Holders') /\ Cardinality(Holders') \in Nat
<1>1. IsFiniteSet(Clients) /\ Holders \subseteq Clients /\ Holders' \subseteq Clients
  BY GasAssumption DEF Holders
<1>. QED
  BY <1>1, FS_Subset, FS_CardinalityType

\* One holder more or one less.
LEMMA HoldersPlus ==
    ASSUME NEW c, c \notin Holders, Holders' = Holders \cup {c}
    PROVE  Cardinality(Holders') = Cardinality(Holders) + 1
BY HoldersFinite, FS_AddElement

LEMMA HoldersMinus ==
    ASSUME NEW c, c \in Holders, Holders' = Holders \ {c}
    PROVE  Cardinality(Holders) = Cardinality(Holders') + 1
<1>1. Cardinality(Holders') = Cardinality(Holders) - 1
  BY HoldersFinite, FS_RemoveElement
<1>. QED
  BY <1>1, HoldersFinite

\* What moving one request does to the holders.
LEMMA MovesHolders ==
    ASSUME Orderly, NEW c \in Clients, Moves(c)
    PROVE  /\ \A d \in Clients \ {c} : d \in Holders' <=> d \in Holders
           /\ c \in Holders <=> sim[c] # Nil /\ sim[c].hold = "present"
           /\ c \in Holders' <=> sim'[c] # Nil /\ sim'[c].hold = "present"
           /\ Holders \subseteq Clients /\ Holders' \subseteq Clients
<1>1. ASSUME NEW d \in Clients \ {c}
      PROVE  d \in Holders' <=> d \in Holders
  <2>1. CASE sim[d] = Nil
    BY <2>1, Zenon DEF Moves, Goes, Holders
  <2>2. CASE sim[d] # Nil
    <3>1. sim'[d] \in Sims /\ sim'[d].hold = sim[d].hold
      BY <2>2, Zenon DEF Moves, Goes
    <3>2. sim'[d] # Nil
      BY <3>1, SimNotNil
    <3>. QED
      BY <2>2, <3>1, <3>2, Zenon DEF Holders
  <2>. QED
    BY <2>1, <2>2
<1>. QED
  BY <1>1, Zenon DEF Holders

\* A request that holds gas neither before nor after it moves.
LEMMA MovesGas ==
    ASSUME Orderly, GasInv, NEW c \in Clients, Moves(c), UNCHANGED <<gas, spent, forfeited>>,
           ~(sim[c] # Nil /\ sim[c].hold = "present"),
           ~(sim'[c] # Nil /\ sim'[c].hold = "present")
    PROVE  Orderly' /\ GasInv'
<1>1. Holders' = Holders
  <2>1. /\ \A d \in Clients \ {c} : d \in Holders' <=> d \in Holders
        /\ c \notin Holders /\ c \notin Holders'
        /\ Holders \subseteq Clients /\ Holders' \subseteq Clients
    BY MovesHolders, Zenon
  <2>. QED
    BY <2>1
<1>2. /\ gas' = gas /\ spent' = spent /\ forfeited' = forfeited
      /\ gas \in Nat /\ spent \in Nat /\ forfeited \in Nat
  BY RestOf DEF RestOK
<1>3. Orderly'
  BY <1>2, MovesOrderly
<1>4. GasInv'
  BY <1>1, <1>2 DEF GasInv, Total, Moves, nodeVars
<1>. QED
  BY <1>3, <1>4

\* Sums of gas.
LEMMA BuyArith ==
    ASSUME NEW g \in Nat, NEW n \in Nat, NEW s \in Nat, NEW k \in Nat, g >= TxGas
    PROVE  /\ (g - TxGas) + TxGas * (n + 1) + UsedGas * s + TxGas * k
                = g + TxGas * n + UsedGas * s + TxGas * k
           /\ (g - TxGas) + TxGas * n + UsedGas * s + TxGas * (k + 1)
                = g + TxGas * n + UsedGas * s + TxGas * k
           /\ g - TxGas \in Nat
<1>1. /\ TxGas \in Nat /\ TxGas * n \in Nat /\ UsedGas * s \in Nat /\ TxGas * k \in Nat
      /\ TxGas * (n + 1) = TxGas * n + TxGas /\ TxGas * (k + 1) = TxGas * k + TxGas
  BY GasArith, GasAssumption
<1>. DEFINE x == TxGas * n
            y == UsedGas * s
            z == TxGas * k
<1>2. x \in Nat /\ y \in Nat /\ z \in Nat /\ TxGas * (n + 1) = x + TxGas /\ TxGas * (k + 1) = z + TxGas
  BY <1>1
<1>. HIDE DEF x, y, z
<1>3. /\ (g - TxGas) + (x + TxGas) + y + z = g + x + y + z
      /\ (g - TxGas) + x + y + (z + TxGas) = g + x + y + z
      /\ g - TxGas \in Nat
  BY <1>1, <1>2
<1>. QED
  BY <1>2, <1>3, Zenon DEF x, y, z

LEMMA ReturnArith ==
    ASSUME NEW g \in Nat, NEW n \in Nat, NEW s \in Nat, NEW k \in Nat
    PROVE  /\ (g + TxGas - UsedGas) + TxGas * n + UsedGas * (s + 1) + TxGas * k
                = g + TxGas * (n + 1) + UsedGas * s + TxGas * k
           /\ g + TxGas - UsedGas \in Nat
<1>1. TxGas \in Nat /\ UsedGas \in Nat /\ TxGas * n \in Nat /\ UsedGas * s \in Nat
      /\ TxGas * (n + 1) = TxGas * n + TxGas /\ UsedGas * (s + 1) = UsedGas * s + UsedGas
      /\ UsedGas <= TxGas /\ TxGas * k \in Nat
  BY GasArith, GasAssumption
<1>. DEFINE x == TxGas * n
            y == UsedGas * s
            z == TxGas * k
<1>2. x \in Nat /\ y \in Nat /\ z \in Nat /\ TxGas * (n + 1) = x + TxGas /\ UsedGas * (s + 1) = y + UsedGas
  BY <1>1
<1>. HIDE DEF x, y, z
<1>3. /\ (g + TxGas - UsedGas) + x + (y + UsedGas) + z = g + (x + TxGas) + y + z
      /\ g + TxGas - UsedGas \in Nat
  BY <1>1, <1>2
<1>. QED
  BY <1>2, <1>3, Zenon DEF x, y, z

\* A message buys its gas.
LEMMA SubGasGas ==
    ASSUME Orderly, GasInv, NEW c \in Clients, SubGas(c)
    PROVE  Orderly' /\ GasInv'
<1>1. /\ Moves(c) /\ gas' = gas - TxGas /\ gas >= TxGas /\ spent' = spent
      /\ forfeited' = forfeited
      /\ sim[c] # Nil /\ sim[c].hold = Nil /\ sim'[c] # Nil /\ sim'[c].hold = "present"
  BY SubGasMoves
<1>2. c \notin Holders /\ Holders' = Holders \cup {c}
  <2>1. Nil # "present"
    BY NilAssumption
  <2>2. /\ \A d \in Clients \ {c} : d \in Holders' <=> d \in Holders
        /\ c \notin Holders /\ c \in Holders'
        /\ Holders \subseteq Clients /\ Holders' \subseteq Clients
    BY <1>1, <2>1, MovesHolders, Zenon
  <2>. QED
    BY <2>2, Zenon
<1>3. Cardinality(Holders') = Cardinality(Holders) + 1
  BY <1>2, HoldersPlus
<1>4. gas \in Nat /\ spent \in Nat /\ forfeited \in Nat /\ Cardinality(Holders) \in Nat
  BY RestOf, HoldersFinite DEF RestOK
<1>5. gas' \in Nat /\ Total' = Total
  BY <1>1, <1>3, <1>4, BuyArith DEF Total
<1>6. Orderly'
  BY <1>1, <1>4, <1>5, MovesOrderly
<1>7. GasInv'
  BY <1>1, <1>5 DEF GasInv, Moves, nodeVars
<1>. QED
  BY <1>6, <1>7

\* A message is rejected after it bought its gas.
LEMMA ForfeitGas ==
    ASSUME Orderly, GasInv, NEW c \in Clients, Forfeit(c)
    PROVE  Orderly' /\ GasInv'
<1>1. /\ Moves(c) /\ gas' = gas - TxGas /\ gas >= TxGas /\ spent' = spent
      /\ forfeited' = forfeited + 1
      /\ sim[c] # Nil /\ sim[c].hold = Nil /\ (sim'[c] # Nil => sim'[c].hold = Nil)
  BY ForfeitMoves, Zenon
<1>2. Holders' = Holders
  <2>1. Nil # "present"
    BY NilAssumption
  <2>2. /\ \A d \in Clients \ {c} : d \in Holders' <=> d \in Holders
        /\ c \notin Holders /\ c \notin Holders'
        /\ Holders \subseteq Clients /\ Holders' \subseteq Clients
    BY <1>1, <2>1, MovesHolders, Zenon
  <2>. QED
    BY <2>2
<1>4. gas \in Nat /\ spent \in Nat /\ forfeited \in Nat /\ Cardinality(Holders) \in Nat
  BY RestOf, HoldersFinite DEF RestOK
<1>5. gas' \in Nat /\ forfeited' \in Nat /\ Total' = Total
  <2>1. Total' = (gas - TxGas) + TxGas * Cardinality(Holders) + UsedGas * spent + TxGas * (forfeited + 1)
    BY <1>1, <1>2, Zenon DEF Total
  <2>2. /\ (gas - TxGas) + TxGas * Cardinality(Holders) + UsedGas * spent + TxGas * (forfeited + 1)
             = gas + TxGas * Cardinality(Holders) + UsedGas * spent + TxGas * forfeited
        /\ gas - TxGas \in Nat
    BY <1>1, <1>4, BuyArith
  <2>3. forfeited + 1 \in Nat
    BY <1>4
  <2>. QED
    BY <1>1, <2>1, <2>2, <2>3, Zenon DEF Total
<1>6. Orderly'
  BY <1>1, <1>4, <1>5, MovesOrderly
<1>7. GasInv'
  BY <1>1, <1>5 DEF GasInv, Moves, nodeVars
<1>. QED
  BY <1>6, <1>7

\* A message returns what it did not use.
LEMMA AppliedGas ==
    ASSUME Orderly, GasInv, NEW c \in Clients, Applied(c)
    PROVE  Orderly' /\ GasInv'
<1>1. /\ Moves(c) /\ AddGas(c) /\ sim[c] # Nil /\ forfeited' = forfeited
      /\ sim'[c] # Nil => sim'[c].hold = Nil
  BY AppliedMoves, Zenon
<1>2. ~(sim'[c] # Nil /\ sim'[c].hold = "present")
  <2>1. Nil # "present"
    BY NilAssumption
  <2>. QED
    BY <1>1, <2>1, Zenon
<1>3. CASE sim[c].hold = "present"
  <2>1. gas' = gas + TxGas - UsedGas /\ spent' = spent + 1
    BY <1>1, <1>3 DEF AddGas
  <2>2. c \in Holders /\ Holders' = Holders \ {c}
    <3>1. /\ \A d \in Clients \ {c} : d \in Holders' <=> d \in Holders
          /\ c \in Holders /\ c \notin Holders'
          /\ Holders \subseteq Clients /\ Holders' \subseteq Clients
      BY <1>1, <1>2, <1>3, MovesHolders, Zenon
    <3>. QED
      BY <3>1, Zenon
  <2>3. Cardinality(Holders) = Cardinality(Holders') + 1
    BY <2>2, HoldersMinus
  <2>4. gas \in Nat /\ spent \in Nat /\ forfeited \in Nat /\ Cardinality(Holders') \in Nat
    BY RestOf, HoldersFinite DEF RestOK
  <2>5. gas' \in Nat /\ spent' \in Nat /\ Total' = Total
    BY <1>1, <2>1, <2>3, <2>4, ReturnArith DEF Total
  <2>6. Orderly'
    BY <1>1, <2>4, <2>5, MovesOrderly
  <2>7. applied' = applied /\ refilled' = refilled /\ Len(applied) \in Nat
    BY <1>1, RestOf DEF Moves, nodeVars, RestOK
  <2>8. ~refilled' => Len(applied') <= spent'
    BY <2>1, <2>4, <2>7 DEF GasInv
  <2>. QED
    BY <2>5, <2>6, <2>8, Zenon DEF GasInv
<1>4. CASE sim[c].hold # "present"
  <2>1. UNCHANGED <<gas, spent, forfeited>>
    BY <1>1, <1>4 DEF AddGas
  <2>. QED
    BY <1>1, <1>2, <1>4, <2>1, MovesGas
<1>. QED
  BY <1>3, <1>4

\* A step of a simulation keeps the block's gas.
LEMMA WorkGas ==
    ASSUME Orderly, GasInv, NEW c \in Clients, Work(c)
    PROVE  Orderly' /\ GasInv'
<1>0. Nil # "present"
  BY NilAssumption
<1>1. CASE Refuse(c)
  <2>1. Moves(c) /\ UNCHANGED <<gas, spent, forfeited>> /\ sim[c].hold = Nil /\ (sim'[c] # Nil => sim'[c].hold = Nil)
    BY <1>1, RefuseMoves, Zenon
  <2>. QED
    BY <1>0, <2>1, MovesGas
<1>2. CASE SubGas(c)
  BY <1>2, SubGasGas
<1>3. CASE Applied(c)
  BY <1>3, AppliedGas
<1>4. CASE SetTracer(c)
  <2>1. Moves(c) /\ UNCHANGED <<gas, spent, forfeited>> /\ sim[c].hold = Nil /\ sim'[c].hold = Nil
    BY <1>4, SetTracerMoves, Zenon
  <2>. QED
    BY <1>0, <2>1, MovesGas
<1>5. CASE TraceCall(c)
  <2>1. Moves(c) /\ UNCHANGED <<gas, spent, forfeited>> /\ sim[c].hold = Nil /\ sim'[c] = Nil
    BY <1>5, TraceCallMoves, Zenon
  <2>. QED
    BY <1>0, <2>1, MovesGas
<1>6. CASE ProbeCall(c)
  <2>1. Moves(c) /\ UNCHANGED <<gas, spent, forfeited>> /\ sim[c].hold = Nil /\ sim'[c] = Nil
    BY <1>6, ProbeCallMoves, Zenon
  <2>. QED
    BY <1>0, <2>1, MovesGas
<1>7. CASE EstimateCall(c)
  <2>1. Moves(c) /\ UNCHANGED <<gas, spent, forfeited>> /\ sim[c].hold = Nil /\ sim'[c] = Nil
    BY <1>7, EstimateCallMoves, Zenon
  <2>. QED
    BY <1>0, <2>1, MovesGas
<1>8. CASE RangeCall(c)
  <2>1. Moves(c) /\ UNCHANGED <<gas, spent, forfeited>> /\ sim[c].hold = Nil /\ sim'[c].hold = Nil
    BY <1>8, RangeCallMoves, Zenon
  <2>. QED
    BY <1>0, <2>1, MovesGas
<1>9. CASE RangeReturns(c)
  <2>1. Moves(c) /\ UNCHANGED <<gas, spent, forfeited>> /\ sim[c].hold = Nil /\ sim'[c] = Nil
    BY <1>9, RangeReturnsMoves, Zenon
  <2>. QED
    BY <1>0, <2>1, MovesGas
<1>10. CASE Forfeit(c)
  BY <1>10, ForfeitGas
<1>. QED
  BY <1>10, <1>1, <1>2, <1>3, <1>4, <1>5, <1>6, <1>7, <1>8, <1>9 DEF Work

\* What a trace and a storage range start with.
LEMMA ArrivesWith ==
    ASSUME Orderly, NEW c \in Clients, Arrive(c), ~TraceTransactionBundle(c)
    PROVE  \E kind \in {"trace", "range", "estimate"}, list \in Seq(Txs), target \in Txs \cup {Nil} :
             /\ kind = "trace" => /\ \E j \in DOMAIN txs : target = txs[j]
                                  /\ list = Before(target) /\ target \in Txs
             /\ kind = "range" => list = txs /\ target \in Txs
             /\ sim[c] = Nil
             /\ Start(c, kind, list, target, sim) /\ result' = Nil
             /\ UNCHANGED <<nodeVars, gasVars, tracer, history>>
<1>1. txs \in Seq(Txs)
  BY RestOf DEF RestOK
<1>2. ASSUME NEW i \in DOMAIN txs, TraceTransaction(c, txs[i])
      PROVE  /\ Before(txs[i]) \in Seq(Txs) /\ txs[i] \in Txs
             /\ Start(c, "trace", Before(txs[i]), txs[i], sim)
             /\ UNCHANGED <<nodeVars, gasVars, tracer, history>>
  <2>1. Before(txs[i]) \in Seq(Txs)
    BY <1>1, BeforeType DEF Before
  <2>. QED
    BY <1>1, <1>2, <2>1 DEF TraceTransaction
<1>3. ASSUME NEW i \in DOMAIN txs, StorageRangeAt(c, txs[i])
      PROVE  /\ txs[i] \in Txs /\ Start(c, "range", txs, txs[i], sim)
             /\ UNCHANGED <<nodeVars, gasVars, tracer, history>>
  BY <1>1, <1>3 DEF StorageRangeAt
<1>4. result' = Nil /\ sim[c] = Nil
  BY DEF Arrive, TraceTransaction, StorageRangeAt, EstimateGas, Start
<1>5. CASE \E i \in DOMAIN txs : TraceTransaction(c, txs[i])
  <2>1. PICK i \in DOMAIN txs : TraceTransaction(c, txs[i])
    BY <1>5
  <2>2. /\ Before(txs[i]) \in Seq(Txs) /\ txs[i] \in Txs
        /\ Start(c, "trace", Before(txs[i]), txs[i], sim)
        /\ UNCHANGED <<nodeVars, gasVars, tracer, history>>
    BY <1>2, <2>1
  <2>3. "trace" # "range" /\ "trace" \in {"trace", "range", "estimate"}
    OBVIOUS
  <2>. QED
    BY <1>4, <2>2, <2>3, Zenon
<1>6. CASE \E i \in DOMAIN txs : StorageRangeAt(c, txs[i])
  <2>1. PICK i \in DOMAIN txs : StorageRangeAt(c, txs[i])
    BY <1>6
  <2>2. /\ txs[i] \in Txs /\ Start(c, "range", txs, txs[i], sim)
        /\ UNCHANGED <<nodeVars, gasVars, tracer, history>>
    BY <1>3, <2>1
  <2>3. "trace" # "range" /\ "range" \in {"trace", "range", "estimate"}
    OBVIOUS
  <2>. QED
    BY <1>1, <1>4, <2>2, <2>3, Zenon
<1>7. CASE EstimateGas(c)
  <2>1. Start(c, "estimate", <<>>, Nil, sim) /\ UNCHANGED <<nodeVars, gasVars, tracer, history>>
    BY <1>7 DEF EstimateGas
  <2>2. /\ "trace" # "estimate" /\ "range" # "estimate"
        /\ "estimate" \in {"trace", "range", "estimate"} /\ <<>> \in Seq(Txs) /\ Nil \in Txs \cup {Nil}
    OBVIOUS
  <2>. QED
    BY <1>4, <2>1, <2>2, Zenon
<1>. QED
  BY <1>5, <1>6, <1>7 DEF Arrive

\* A request that arrives keeps it too; a bundle starts a new pool.
LEMMA ArriveGas ==
    ASSUME Orderly, GasInv, NEW c \in Clients, Arrive(c)
    PROVE  Orderly' /\ GasInv'
<1>1. CASE TraceTransactionBundle(c)
  <2>1. result' = Nil
    BY DEF Arrive
  <2>2. Orderly' /\ Holders' = {} /\ gas' = GasLimit /\ spent' = 0 /\ forfeited' = 0
        /\ refilled' = TRUE
    BY <1>1, <2>1, BundleOrderly
  <2>3. Cardinality(Holders') = 0
    BY <2>2, FS_EmptySet
  <2>4. GasLimit \in Nat /\ TxGas * 0 = 0 /\ UsedGas * 0 = 0
    BY GasAssumption
  <2>5. Total' = GasLimit
    BY <2>2, <2>3, <2>4 DEF Total
  <2>. QED
    BY <2>2, <2>5 DEF GasInv
<1>2. CASE ~TraceTransactionBundle(c)
  <2>1. PICK kind \in {"trace", "range", "estimate"}, list \in Seq(Txs), target \in Txs \cup {Nil} :
             /\ kind = "trace" => target \in Txs
             /\ kind = "range" => target \in Txs
             /\ sim[c] = Nil
             /\ Start(c, kind, list, target, sim) /\ result' = Nil
             /\ UNCHANGED <<nodeVars, gasVars, tracer, history>>
    BY <1>2, ArrivesWith, Zenon
  <2>2. kind \in Replays => target \in Txs
    BY <2>1 DEF Replays
  <2>3. Moves(c) /\ UNCHANGED <<gas, spent, forfeited>> /\ sim'[c] = Fresh(kind, list, target)
    BY <2>1, <2>2, ArriveMoves
  <2>4. Fresh(kind, list, target).hold = Nil /\ Nil # "present"
    BY NilAssumption DEF Fresh
  <2>5. sim'[c].hold # "present"
    BY <2>3, <2>4, Zenon
  <2>. QED
    BY <2>1, <2>3, <2>5, MovesGas
<1>. QED
  BY <1>1, <1>2

\* Gas of an execution outside the simulations.
Paid(g, m) == g + UsedGas * m

InAll(g, h, s) == g + TxGas * h + UsedGas * s

LEMMA SendArith ==
    ASSUME NEW g \in Nat, NEW g1 \in Nat, NEW h \in Nat, NEW s \in Nat, NEW m \in Nat, NEW n \in Nat,
           m >= n, Paid(g1, m) = Paid(g, n)
    PROVE  InAll(g1, h, s + m - n) = InAll(g, h, s) /\ s + m - n \in Nat
<1>1. UsedGas \in Nat /\ TxGas \in Nat
  BY GasAssumption
<1>2. UsedGas * (s + m - n) = UsedGas * s + UsedGas * m - UsedGas * n /\ s + m - n \in Nat
  BY <1>1
<1>. DEFINE x == TxGas * h
            y == UsedGas * s
            u == UsedGas * m
            v == UsedGas * n
<1>3. x \in Nat /\ y \in Nat /\ u \in Nat /\ v \in Nat
  BY GasArith
<1>4. g1 + u = g + v /\ UsedGas * (s + m - n) = y + u - v
  BY <1>2 DEF Paid
<1>. HIDE DEF x, y, u, v
<1>5. g1 + x + (y + u - v) = g + x + y
  BY <1>3, <1>4
<1>. QED
  BY <1>2, <1>4, <1>5, Zenon DEF InAll, x, y, u, v

\* A transaction of the node runs on the present pool.
LEMMA SendGas ==
    ASSUME Orderly, GasInv, NEW tx \in Txs, Send(tx), result' = Nil
    PROVE  Orderly' /\ GasInv'
<1>. DEFINE run == [fork |-> fork, state |-> applied, gas |-> gas, forfeited |-> forfeited, short |-> short]
            ran == ExecuteMsg(run, tx)
<1>1. RestOK
  BY RestOf
<1>2. run \in Runs /\ run.gas = gas /\ run.state = applied /\ run.forfeited = forfeited
  BY <1>1, Zenon DEF RestOK, Runs
<1>3. /\ txs' = Append(txs, tx)
      /\ applied' = ran.state /\ gas' = ran.gas /\ short' = ran.short
      /\ spent' = spent + Len(ran.state) - Len(applied) /\ forfeited' = ran.forfeited
      /\ UNCHANGED <<fork, refilled, tracer, sim, covered>>
  BY DEF Send
<1>. HIDE DEF run, ran
<1>4. ran \in Runs /\ Balance(ran) = Balance(run) /\ Len(ran.state) >= Len(run.state)
  BY <1>2, ExecuteMsgEffect DEF ran
<1>5. ran.state \in Seq(Txs) /\ ran.gas \in Nat /\ ran.forfeited \in Nat /\ ran.short \in BOOLEAN
  BY <1>4, Zenon DEF Runs
<1>6. /\ Len(applied') \in Nat /\ Len(applied) \in Nat /\ gas \in Nat /\ spent \in Nat
      /\ gas' \in Nat /\ Len(applied') >= Len(applied) /\ forfeited \in Nat /\ forfeited' \in Nat
      /\ gas' + UsedGas * Len(applied') + TxGas * forfeited'
           = gas + UsedGas * Len(applied) + TxGas * forfeited
      /\ spent' = spent + Len(applied') - Len(applied)
  BY <1>1, <1>2, <1>3, <1>4, <1>5 DEF RestOK, Balance
<1>7. Holders' = Holders /\ Cardinality(Holders) \in Nat
  BY <1>3, HoldersFinite DEF Holders
<1>8. Total' = Total /\ spent' \in Nat
  <2>1. PICK m \in Nat, n \in Nat, h \in Nat, w \in Nat, g \in Nat, g1 \in Nat :
          /\ m = Len(applied') /\ n = Len(applied) /\ h = Cardinality(Holders)
          /\ w = spent /\ g = gas /\ g1 = gas'
    BY <1>6, <1>7
  <2>2. PICK p \in Nat, p1 \in Nat, u \in Nat, v \in Nat :
          /\ p = TxGas * forfeited /\ p1 = TxGas * forfeited'
          /\ u = UsedGas * n /\ v = UsedGas * m
    BY <1>6, GasArith
  <2>3. m >= n /\ g1 + v + p1 = g + u + p
    BY <1>6, <2>1, <2>2
  <2>4. PICK k \in Nat, k1 \in Nat : k = g + p /\ k1 = g1 + p1
    OBVIOUS
  <2>5. Paid(k1, m) = Paid(k, n)
    <3>1. k1 + v = k + u
      BY ONLY <2>3, <2>4, g \in Nat, g1 \in Nat, p \in Nat, p1 \in Nat, u \in Nat, v \in Nat
    <3>. QED
      BY <2>2, <3>1, Zenon DEF Paid
  <2>6. InAll(k1, h, w + m - n) = InAll(k, h, w) /\ w + m - n \in Nat
    <3>1. m >= n
      BY <2>3
    <3>2. InAll(k1, h, w + m - n) = InAll(k, h, w)
      BY ONLY <2>5, <3>1, SendArith, m \in Nat, n \in Nat, h \in Nat, w \in Nat, k \in Nat, k1 \in Nat
    <3>3. w + m - n \in Nat
      BY ONLY <3>1, m \in Nat, n \in Nat, w \in Nat
    <3>. QED
      BY <3>2, <3>3
  <2>7. PICK x \in Nat, y \in Nat, y1 \in Nat :
          x = TxGas * h /\ y = UsedGas * w /\ y1 = UsedGas * (w + m - n)
    BY <2>6, GasArith
  <2>8. (g1 + p1) + x + y1 = g1 + x + y1 + p1 /\ (g + p) + x + y = g + x + y + p
    BY ONLY g \in Nat, g1 \in Nat, p \in Nat, p1 \in Nat, x \in Nat, y \in Nat, y1 \in Nat
  <2>9. spent' = w + m - n /\ Cardinality(Holders') = h
    BY <1>6, <1>7, <2>1
  <2>10. Total' = g1 + x + y1 + p1 /\ Total = g + x + y + p
    BY <2>1, <2>2, <2>7, <2>9, Zenon DEF Total
  <2>11. InAll(k1, h, w + m - n) = (g1 + p1) + x + y1 /\ InAll(k, h, w) = (g + p) + x + y
    BY <2>4, <2>7, Zenon DEF InAll
  <2>. QED
    BY <2>6, <2>8, <2>9, <2>10, <2>11, Zenon
<1>9. ~refilled' => Len(applied') <= spent'
  <2>1. ~refilled => Len(applied) <= spent
    BY DEF GasInv
  <2>. QED
    BY <1>3, <1>6, <2>1
<1>10. RestOK'
  <2>1. txs' \in Seq(Txs)
    BY <1>1, <1>3 DEF RestOK
  <2>. QED
    BY <1>1, <1>3, <1>5, <1>8, <2>1, Zenon DEF RestOK
<1>11. Orderly'
  <2>1. /\ sim' \in [Clients -> Sims \cup {Nil}] /\ tracer' \in Clients \cup {Nil}
        /\ \A c \in Clients : Sound(sim'[c])
    BY <1>3, OrderlySims
  <2>2. TracerLive'
    BY <1>3, OrderlySims, Zenon DEF TracerLive
  <2>. QED
    BY <1>10, <2>1, <2>2, OrderlyFrom
<1>. QED
  BY <1>8, <1>9, <1>11 DEF GasInv

\* A reset of the node starts a new pool and runs the list on it.
LEMMA ResetGas ==
    ASSUME Orderly, GasInv, NEW list \in Seq(Txs), NEW f \in 0 .. MaxFork, ResetAnd(list, f),
           sim' = Detached(TRUE), result' = Nil, txs' \in Seq(Txs), covered' \in BOOLEAN
    PROVE  Orderly' /\ GasInv'
<1>. DEFINE run == [fork |-> f, state |-> <<>>, gas |-> GasLimit, forfeited |-> 0, short |-> FALSE]
            ran == ExecuteTxs(list, run)
<1>1. run \in Runs /\ run.gas = GasLimit /\ run.state = <<>> /\ run.forfeited = 0
  <2>1. <<>> \in Seq(Txs) /\ GasLimit \in Nat /\ 0 \in Nat
    BY GasAssumption
  <2>. QED
    BY <2>1, Zenon DEF Runs
<1>2. /\ fork' = f /\ applied' = ran.state /\ gas' = ran.gas /\ short' = ran.short
      /\ spent' = Len(ran.state) /\ forfeited' = ran.forfeited /\ refilled' = FALSE /\ tracer' = tracer
  BY DEF ResetAnd
<1>. HIDE DEF run, ran
<1>3. ran \in Runs /\ Balance(ran) = Balance(run)
  BY <1>1, ExecuteTxsEffect DEF ran
<1>4. ran.state \in Seq(Txs) /\ ran.gas \in Nat /\ ran.forfeited \in Nat /\ ran.short \in BOOLEAN
  BY <1>3, Zenon DEF Runs
<1>5. ran.gas + UsedGas * Len(ran.state) + TxGas * ran.forfeited = GasLimit /\ Len(ran.state) \in Nat
  <2>1. Balance(run) = GasLimit
    BY <1>1, GasAssumption DEF Balance
  <2>. QED
    BY <1>3, <1>4, <2>1 DEF Balance
<1>6. RestOK'
  <2>1. spent' \in Nat
    BY <1>2, <1>5
  <2>. QED
    BY <1>2, <1>4, <2>1, Zenon DEF RestOK
<1>7. Orderly' /\ Holders' = {}
  BY <1>2, <1>6, DetachedOrderly
<1>8. Cardinality(Holders') = 0 /\ TxGas * 0 = 0
  BY <1>7, FS_EmptySet, GasAssumption
<1>9. Total' = GasLimit
  <2>. DEFINE x == UsedGas * Len(ran.state)
              y == TxGas * ran.forfeited
  <2>1. x \in Nat /\ y \in Nat /\ ran.gas + x + y = GasLimit
    BY <1>4, <1>5, GasArith
  <2>. HIDE DEF x, y
  <2>2. ran.gas + 0 + x + y = GasLimit
    BY <1>4, <2>1
  <2>. QED
    BY <1>2, <1>8, <2>2 DEF Total, x, y
<1>10. Len(applied') <= spent'
  BY <1>2, <1>5
<1>. QED
  BY <1>7, <1>9, <1>10 DEF GasInv

LEMMA NodeGas ==
    ASSUME Orderly, GasInv, Node
    PROVE  Orderly' /\ GasInv'
<1>1. RestOK /\ result' = Nil
  BY RestOf DEF Node
<1>2. fork \in Nat /\ applied \in Seq(Txs) /\ txs \in Seq(Txs) /\ fork \in 0 .. MaxFork
      /\ <<>> \in Seq(Txs)
  BY <1>1, GasAssumption DEF RestOK
<1>3. ASSUME NEW a \in Accounts, Send(<<a, GetNonce(fork, applied, a)>>)
      PROVE  Orderly' /\ GasInv'
  <2>1. <<a, GetNonce(fork, applied, a)>> \in Txs
    BY <1>2, NonceType DEF Txs
  <2>. QED
    BY <1>1, <1>3, <2>1, SendGas
<1>4. ASSUME NEW a \in Accounts, Send(<<a, 1>>)
      PROVE  Orderly' /\ GasInv'
  <2>1. <<a, 1>> \in Txs
    BY DEF Txs
  <2>. QED
    BY <1>1, <1>4, <2>1, SendGas
<1>5. ASSUME NEW f \in Later, ResetState(f)
      PROVE  Orderly' /\ GasInv'
  <2>1. f \in 0 .. MaxFork
    BY <1>2, GasAssumption DEF Later
  <2>2. ResetAnd(<<>>, f) /\ sim' = Detached(TRUE) /\ txs' \in Seq(Txs) /\ covered' \in BOOLEAN
    BY <1>2, <1>5 DEF ResetState
  <2>. QED
    BY <1>1, <1>2, <2>1, <2>2, ResetGas
<1>6. ASSUME NEW f \in Later, ReExecTxPool(f)
      PROVE  Orderly' /\ GasInv'
  <2>1. f \in 0 .. MaxFork
    BY <1>2, GasAssumption DEF Later
  <2>2. ResetAnd(txs, f) /\ sim' = Detached(TRUE) /\ txs' \in Seq(Txs) /\ covered' \in BOOLEAN
    BY <1>2, <1>6 DEF ReExecTxPool
  <2>. QED
    BY <1>1, <1>2, <2>1, <2>2, ResetGas
<1>7. CASE ClearTxPool
  <2>2. ResetAnd(<<>>, fork) /\ sim' = Detached(TRUE) /\ txs' \in Seq(Txs) /\ covered' \in BOOLEAN
    BY <1>2, <1>7 DEF ClearTxPool
  <2>. QED
    BY <1>1, <1>2, <2>2, ResetGas
<1>8. ASSUME NEW f \in TraceForks, TraceBlocks(f)
      PROVE  Orderly' /\ GasInv'
  <2>1. f \in 0 .. MaxFork
    BY GasAssumption
  <2>2. ResetAnd(<<>>, f) /\ sim' = Detached(TRUE) /\ txs' \in Seq(Txs) /\ covered' \in BOOLEAN
    BY <1>2, <1>8 DEF TraceBlocks, ResetState
  <2>. QED
    BY <1>1, <1>2, <2>1, <2>2, ResetGas
<1>. QED
  BY <1>3, <1>4, <1>5, <1>6, <1>7, <1>8 DEF Node

\* Init.
LEMMA InitGas ==
    ASSUME Init
    PROVE  Orderly /\ GasInv
<1>1. /\ 0 \in 0 .. MaxFork /\ <<>> \in Seq(Txs) /\ GasLimit \in Nat /\ TxGas \in Nat /\ UsedGas \in Nat
      /\ 0 \in Nat
  BY GasAssumption
<1>2. /\ sim = [c \in Clients |-> Nil] /\ tracer = Nil
      /\ fork = 0 /\ applied = <<>> /\ txs = <<>> /\ gas = GasLimit /\ spent = 0 /\ forfeited = 0
      /\ refilled = FALSE /\ result = Nil /\ short = FALSE /\ covered = TRUE
  BY DEF Init
<1>3. sim \in [Clients -> Sims \cup {Nil}] /\ \A c \in Clients : sim[c] = Nil
  BY <1>2
<1>4. TypeOK
  BY <1>1, <1>2, <1>3, Zenon DEF TypeOK
<1>5. Orderly
  BY <1>2, <1>3, <1>4, Zenon DEF Orderly, TracerLive
<1>6. Holders = {} /\ Cardinality({}) = 0
  BY <1>3, FS_EmptySet DEF Holders
<1>7. Total = GasLimit
  BY <1>1, <1>2, <1>6 DEF Total
<1>8. Len(applied) <= spent
  BY <1>2
<1>. QED
  BY <1>5, <1>7, <1>8 DEF GasInv

\* Stuttering.
LEMMA StutterGas ==
    ASSUME Orderly, GasInv, UNCHANGED vars
    PROVE  Orderly' /\ GasInv'
<1>1. UNCHANGED <<fork, applied, txs, gas, spent, forfeited, refilled, tracer, sim,
                result, short, covered>>
  BY DEF vars, nodeVars, gasVars, history
<1>2. TypeOK' /\ TracerLive'
  BY <1>1, Zenon DEF Orderly, TypeOK, TracerLive
<1>3. Orderly'
  BY <1>1, <1>2, Zenon DEF Orderly
<1>4. GasInv'
  BY <1>1 DEF GasInv, Total, Holders
<1>. QED
  BY <1>3, <1>4

LEMMA NextGas ==
    ASSUME Orderly, GasInv, [Next]_vars
    PROVE  Orderly' /\ GasInv'
BY NodeGas, ArriveGas, WorkGas, StutterGas DEF Next

LEMMA GasAlways ==
    Spec => [](Orderly /\ GasInv)
<1>1. Init => Orderly /\ GasInv
  BY InitGas
<1>2. (Orderly /\ GasInv) /\ [Next]_vars => (Orderly /\ GasInv)'
  BY NextGas
<1>. QED
  BY <1>1, <1>2, PTL DEF Spec

\* Every reachable state is well typed: the gas pool never goes below zero,
\* and a message holds gas exactly from SubGas to AddGas, whatever resets
\* and bundles replace the pool in between.
THEOREM TypeCorrect == Spec => []TypeOK
<1>1. Orderly => TypeOK
  BY DEF Orderly
<1>. QED
  BY <1>1, GasAlways, PTL

\* The block's gas adds up through ExecuteMsg on the node's state and on any
\* number of clones and through every replacement of a.gasPool; it is lost
\* with the messages rejected after buyGas only.
THEOREM GasConserved == Spec => []GasAddsUp
BY GasInvIs, GasAlways, PTL

-----------------------------------------------------------------------------
(* Each request finds its own executions in its tracer. *)

\* No transaction of the state could be executed on it again.
Ahead(f, state) == \A i \in DOMAIN state : state[i][2] < GetNonce(f, state, state[i][1])

\* A request whose tracer was alone in use finds it in the field.
Exclusive(c) ==
    sim[c].kind \in Replays /\ Using(c) /\ ~sim[c].overlapped =>
        tracer = c /\ \A d \in Clients \ {c} : ~Using(d)

\* Requests can only overlap while they use a tracer.
Clean(c) == ~Using(c) => ~sim[c].overlapped

\* A trace has seen nothing before its call.
TraceOps(c) == sim[c].kind = "trace" /\ ~sim[c].overlapped => sim[c].ops = <<>>

\* A storage range has seen what it executed; what DoCall ran, the nonce
\* check refuses in the execution that follows.
RangeOps(c) ==
    sim[c].kind = "range" /\ ~sim[c].overlapped /\ ~sim[c].excused =>
        /\ sim[c].ops = sim[c].state
        /\ Ahead(fork, sim[c].state)
        /\ sim[c].step # "running"
        /\ sim[c].step = "replay" => ~Applies(fork, sim[c].state, Head(sim[c].todo))

Traced(c) == sim[c] # Nil => Exclusive(c) /\ Clean(c) /\ TraceOps(c) /\ RangeOps(c)

TraceInv == OwnTrace /\ \A c \in Clients : Traced(c)

\* The nonce of an account after one more transaction.
LEMMA AppendNonce ==
    ASSUME NEW f \in Nat, NEW state \in Seq(Txs), NEW tx \in Txs, NEW a
    PROVE  GetNonce(f, Append(state, tx), a)
             = IF a = tx[1] THEN tx[2] + 1 ELSE GetNonce(f, state, a)
<1>. DEFINE more == Append(state, tx)
            own == {i \in DOMAIN state : state[i][1] = a}
            own1 == {i \in DOMAIN more : more[i][1] = a}
            last == Len(state) + 1
<1>1. /\ Len(state) \in Nat /\ DOMAIN state = 1 .. Len(state) /\ DOMAIN more = 1 .. last
      /\ more[last] = tx /\ \A i \in 1 .. Len(state) : more[i] = state[i]
  OBVIOUS
<1>2. GetNonce(f, more, a) = IF own1 = {} THEN f ELSE more[Max(own1)][2] + 1
  BY DEF GetNonce
<1>3. CASE a = tx[1]
  <2>1. last \in own1 /\ \A y \in own1 : y \in Int /\ y <= last
    BY <1>1, <1>3
  <2>2. Max(own1) = last
    <3>. HIDE DEF own1, last
    <3>1. last \in Int
      BY <1>1 DEF last
    <3>2. Max(own1) \in own1 /\ \A y \in own1 : Max(own1) >= y
      <4>1. \E x \in own1 : \A y \in own1 : x >= y
        BY <2>1, <3>1
      <4>. QED
        BY <4>1 DEF Max
    <3>. DEFINE m == Max(own1)
    <3>3. m \in Int /\ m <= last /\ m >= last
      BY <2>1, <3>2
    <3>. HIDE DEF m
    <3>4. m = last
      BY <3>1, <3>3
    <3>. QED
      BY <3>4 DEF m
  <2>3. own1 # {}
    BY <2>1
  <2>. HIDE DEF own1, last, more
  <2>4. GetNonce(f, more, a) = tx[2] + 1
    BY <1>1, <1>2, <2>2, <2>3
  <2>. QED
    BY <1>3, <2>4 DEF more
<1>4. CASE a # tx[1]
  <2>1. own1 = own
    BY <1>1, <1>4
  <2>2. GetNonce(f, state, a) = IF own = {} THEN f ELSE state[Max(own)][2] + 1
    BY DEF GetNonce
  <2>3. own # {} => Max(own) \in own
    <3>1. own \subseteq 0 .. Len(state) /\ Len(state) \in Nat
      BY <1>1
    <3>. HIDE DEF own
    <3>2. own # {} => \E x \in own : \A y \in own : y <= x
      BY <3>1, GreatestBounded
    <3>. QED
      BY <3>1, <3>2 DEF Max
  <2>4. own # {} => more[Max(own)] = state[Max(own)]
    BY <1>1, <2>3
  <2>. HIDE DEF own1, own, more
  <2>5. GetNonce(f, more, a) = GetNonce(f, state, a)
    BY <1>2, <2>1, <2>2, <2>4
  <2>. QED
    BY <1>4, <2>5 DEF more
<1>. QED
  BY <1>3, <1>4

\* A transaction with the right nonce was not executed before and cannot be
\* executed again.
LEMMA AheadAppend ==
    ASSUME NEW f \in Nat, NEW state \in Seq(Txs), NEW tx \in Txs,
           Ahead(f, state), Applies(f, state, tx)
    PROVE  /\ ~Contains(state, tx)
           /\ Ahead(f, Append(state, tx))
           /\ ~Applies(f, Append(state, tx), tx)
<1>. DEFINE more == Append(state, tx)
            last == Len(state) + 1
<1>1. /\ Len(state) \in Nat /\ DOMAIN state = 1 .. Len(state) /\ DOMAIN more = 1 .. last
      /\ more[last] = tx /\ \A i \in 1 .. Len(state) : more[i] = state[i]
  OBVIOUS
<1>2. tx[2] = GetNonce(f, state, tx[1]) /\ tx[2] \in Nat
  BY DEF Applies, NonceOK, Txs
<1>3. \A a : GetNonce(f, more, a) = IF a = tx[1] THEN tx[2] + 1 ELSE GetNonce(f, state, a)
  BY AppendNonce
<1>4. ~Contains(state, tx)
  <2>. SUFFICES ASSUME NEW i \in 1 .. Len(state), state[i] = tx PROVE FALSE
    BY DEF Contains
  <2>1. state[i][2] < GetNonce(f, state, state[i][1])
    BY <1>1 DEF Ahead
  <2>. QED
    BY <1>2, <2>1
<1>. HIDE DEF more
<1>5. GetNonce(f, more, tx[1]) = tx[2] + 1
  BY <1>3
<1>6. ASSUME NEW i \in DOMAIN more
      PROVE  more[i][2] < GetNonce(f, more, more[i][1])
  <2>1. CASE i = last
    BY <1>1, <1>2, <1>5, <2>1
  <2>2. CASE i # last
    <3>1. i \in 1 .. Len(state) /\ more[i] = state[i]
      BY <1>1, <2>2
    <3>2. state[i][2] < GetNonce(f, state, state[i][1]) /\ state[i] \in Txs
      BY <1>1, <3>1 DEF Ahead
    <3>3. state[i][2] \in Nat
      BY <3>2 DEF Txs
    <3>4. CASE state[i][1] = tx[1]
      BY <1>2, <1>5, <3>1, <3>2, <3>3, <3>4
    <3>5. CASE state[i][1] # tx[1]
      BY <1>3, <3>1, <3>2, <3>5
    <3>. QED
      BY <3>4, <3>5
  <2>. QED
    BY <2>1, <2>2
<1>7. ~Applies(f, more, tx)
  BY <1>2, <1>5 DEF Applies, NonceOK
<1>. QED
  BY <1>4, <1>6, <1>7 DEF Ahead, more

\* To use a tracer is to be Live.
LEMMA UsingLive ==
    ASSUME NEW d
    PROVE  (Using(d) <=> Live(sim[d])) /\ (Using(d)' <=> Live(sim'[d]))
<1>1. Using(d) <=> Live(sim[d])
  BY Zenon DEF Using, Live, At
<1>2. Using(d)' <=> Live(sim'[d])
  BY Zenon DEF Using, Live, At
<1>. QED
  BY <1>1, <1>2

\* What Traced says of a request, as facts about its fields.
LEMMA TracedIs ==
    ASSUME NEW d \in Clients, sim[d] # Nil
    PROVE  Traced(d) <=>
             /\ sim[d].kind \in Replays /\ Live(sim[d]) /\ ~sim[d].overlapped =>
                  tracer = d /\ \A e \in Clients \ {d} : ~Live(sim[e])
             /\ ~Live(sim[d]) => ~sim[d].overlapped
             /\ sim[d].kind = "trace" /\ ~sim[d].overlapped => sim[d].ops = <<>>
             /\ sim[d].kind = "range" /\ ~sim[d].overlapped /\ ~sim[d].excused =>
                  /\ sim[d].ops = sim[d].state
                  /\ Ahead(fork, sim[d].state)
                  /\ sim[d].step # "running"
                  /\ sim[d].step = "replay" => ~Applies(fork, sim[d].state, Head(sim[d].todo))
<1>1. \A e : Using(e) <=> Live(sim[e])
  BY UsingLive
<1>. QED
  BY <1>1, Zenon DEF Traced, Exclusive, Clean, TraceOps, RangeOps

LEMMA TracedNext ==
    ASSUME NEW d \in Clients,
           sim'[d] # Nil =>
             /\ sim'[d].kind \in Replays /\ Live(sim'[d]) /\ ~sim'[d].overlapped =>
                  tracer' = d /\ \A e \in Clients \ {d} : ~Live(sim'[e])
             /\ ~Live(sim'[d]) => ~sim'[d].overlapped
             /\ sim'[d].kind = "trace" /\ ~sim'[d].overlapped => sim'[d].ops = <<>>
             /\ sim'[d].kind = "range" /\ ~sim'[d].overlapped /\ ~sim'[d].excused =>
                  /\ sim'[d].ops = sim'[d].state
                  /\ Ahead(fork', sim'[d].state)
                  /\ sim'[d].step # "running"
                  /\ sim'[d].step = "replay" => ~Applies(fork', sim'[d].state, Head(sim'[d].todo))
    PROVE  Traced(d)'
<1>1. \A e : Using(e)' <=> Live(sim'[e])
  BY UsingLive
<1>2. \A f, s : Ahead(f, s) <=> \A i \in DOMAIN s : s[i][2] < GetNonce(f, s, s[i][1])
  BY DEF Ahead
<1>. QED
  BY <1>1, Zenon DEF Traced, Exclusive, Clean, TraceOps, RangeOps

\* A request of which the invariant says nothing.
Void(r) == Live(r) /\ (r.overlapped \/ r.kind \notin Replays)

LEMMA VoidTraced ==
    ASSUME NEW d \in Clients, Void(sim'[d])
    PROVE  Traced(d)'
<1>1. Live(sim'[d]) /\ (sim'[d].overlapped \/ (sim'[d].kind # "trace" /\ sim'[d].kind # "range"
                                             /\ sim'[d].kind \notin Replays))
  BY DEF Void, Replays
<1>. QED
  BY <1>1, TracedNext, Zenon

\* A step of c that leaves d alone, and does not begin to use a tracer.
LEMMA AloneTraced ==
    ASSUME Orderly, NEW c \in Clients, NEW d \in Clients, d # c, Traced(d), sim'[d] = sim[d],
           fork' = fork, tracer' = tracer \/ tracer = c,
           Live(sim'[c]) => Live(sim[c]),
           \A e \in Clients \ {c} : Goes(e)
    PROVE  Traced(d)'
<1>1. ASSUME NEW e \in Clients, Live(sim'[e])
      PROVE  Live(sim[e])
  <2>1. CASE e = c
    BY <1>1, <2>1
  <2>2. CASE e # c
    <3>1. Goes(e) /\ sim'[e] # Nil
      BY <1>1, <2>2 DEF Live
    <3>2. sim[e] # Nil /\ sim'[e].kind = sim[e].kind /\ sim'[e].step = sim[e].step
      BY <3>1, Zenon DEF Goes
    <3>. QED
      BY <1>1, <3>2, Zenon DEF Live
  <2>. QED
    BY <2>1, <2>2
<1>2. CASE sim[d] = Nil
  BY <1>2, TracedNext, Zenon
<1>3. CASE sim[d] # Nil
  <2>1. /\ sim[d].kind \in Replays /\ Live(sim[d]) /\ ~sim[d].overlapped =>
             tracer = d /\ \A e \in Clients \ {d} : ~Live(sim[e])
        /\ ~Live(sim[d]) => ~sim[d].overlapped
        /\ sim[d].kind = "trace" /\ ~sim[d].overlapped => sim[d].ops = <<>>
        /\ sim[d].kind = "range" /\ ~sim[d].overlapped /\ ~sim[d].excused =>
             /\ sim[d].ops = sim[d].state
             /\ Ahead(fork, sim[d].state)
             /\ sim[d].step # "running"
             /\ sim[d].step = "replay" => ~Applies(fork, sim[d].state, Head(sim[d].todo))
    BY <1>3, TracedIs, Zenon
  <2>2. sim[d].kind \in Replays /\ Live(sim[d]) /\ ~sim[d].overlapped =>
             tracer' = d /\ \A e \in Clients \ {d} : ~Live(sim'[e])
    BY <1>1, <2>1, Zenon
  <2>. QED
    BY <2>1, <2>2, TracedNext, Zenon
<1>. QED
  BY <1>2, <1>3

\* A DoCall of c shows in its own tracer, or in one that others use too.
LEMMA CapturedVoid ==
    ASSUME Orderly, NEW c \in Clients, NEW d \in Clients, d # c, Traced(d), Live(sim[c]),
           NEW tx \in Seen, sim'[d] = Captured(tx)[d]
    PROVE  sim'[d] = sim[d] \/ Void(sim'[d])
<1>. DEFINE q == Captured(tx)[d]
<1>1. /\ sim[d] = Nil => q = Nil
      /\ sim[d] # Nil => q \in Sims /\ Alike(q, sim[d])
      /\ d # tracer => q = sim[d]
  BY CapturedAlike, Zenon
<1>2. CASE d = tracer
  <2>1. sim[d] # Nil /\ Live(sim[d])
    <3>1. TracerLive /\ d # Nil
      BY OrderlySims, GasAssumption
    <3>. QED
      BY <1>2, <3>1, Zenon DEF TracerLive, Live
  <2>2. sim[d].overlapped \/ sim[d].kind \notin Replays
    BY <2>1, TracedIs, Zenon
  <2>3. q # Nil /\ Alike(q, sim[d])
    BY <1>1, <2>1, SimNotNil
  <2>. HIDE DEF q
  <2>4. Void(q)
    BY <2>1, <2>2, <2>3, Zenon DEF Void, Live, Alike
  <2>. QED
    BY <2>4 DEF q
<1>3. CASE d # tracer
  BY <1>1, <1>3, Zenon
<1>. QED
  BY <1>2, <1>3

\* Whoever is not the actor stays traced.
LEMMA OthersTraced ==
    ASSUME Orderly, TraceInv, NEW c \in Clients, Moves(c), NEW tx \in Seen,
           tracer' = tracer \/ tracer = c,
           Live(sim'[c]) => Live(sim[c]),
           \/ \A d \in Clients \ {c} : sim'[d] = sim[d]
           \/ Live(sim[c]) /\ \A d \in Clients \ {c} : sim'[d] = Captured(tx)[d]
    PROVE  \A d \in Clients \ {c} : Traced(d)'
<1>. TAKE d \in Clients \ {c}
<1>1. Traced(d) /\ fork' = fork /\ \A e \in Clients \ {c} : Goes(e)
  BY DEF TraceInv, Moves, nodeVars
<1>2. sim'[d] = sim[d] \/ Void(sim'[d])
  BY <1>1, CapturedVoid
<1>. QED
  BY <1>1, <1>2, VoidTraced, AloneTraced

\* A step that answers nothing.
LEMMA NoAnswer ==
    ASSUME result' = Nil, \A d \in Clients : Traced(d)'
    PROVE  TraceInv'
BY Zenon DEF TraceInv, OwnTrace

\* The steps of ExecuteMsg on a clone.
LEMMA SkipTraced ==
    ASSUME Orderly, TraceInv, NEW c \in Clients, NEW b \in BOOLEAN, Skip(c, b), refilled' = refilled,
           At(c, "replay"), sim[c].todo # <<>>
    PROVE  TraceInv'
<1>. DEFINE r == sim[c]
            q == sim'[c]
<1>1. /\ Moves(c) /\ r # Nil /\ \A d \in Clients \ {c} : sim'[d] = sim[d]
      /\ q # Nil => /\ q = [r EXCEPT !.todo = Tail(@), !.step = AfterMsg(c),
                                      !.excused = @ \/ b]
                    /\ r.kind # "bundle"
  BY SkipMoves, Zenon
<1>2. result' = Nil /\ tracer' = tracer /\ fork' = fork /\ r.step = "replay"
  BY DEF Skip, At, nodeVars
<1>3. r \in Sims /\ Sensible(r)
  BY <1>1, Mine
<1>4. q # Nil => /\ q.kind = r.kind /\ q.overlapped = r.overlapped /\ q.ops = r.ops /\ q.state = r.state
                 /\ q.step = AfterMsg(c) /\ (~q.excused => ~r.excused)
  <2>. HIDE DEF q
  <2>. QED
    BY <1>1, <1>3, Zenon DEF Sims
<1>5. /\ AfterMsg(c) \in {"call", "replay"} /\ (AfterMsg(c) = "call" <=> r.kind = "range")
  BY DEF AfterMsg
<1>. HIDE DEF q
<1>6. q # Nil => (Live(q) <=> Live(r))
  BY <1>1, <1>2, <1>4, <1>5 DEF Live
<1>7. Live(q) => Live(r)
  BY <1>6, Zenon DEF Live
<1>8. \A d \in Clients \ {c} : Traced(d)'
  <2>1. <<Nil, Nil>> \in Seen
    BY DEF Seen
  <2>. QED
    BY <1>1, <1>2, <1>7, <2>1, OthersTraced DEF q
<1>9. Traced(c)
  BY DEF TraceInv
<1>10. Traced(c)'
  <2>1. /\ r.kind \in Replays /\ Live(r) /\ ~r.overlapped =>
             tracer = c /\ \A e \in Clients \ {c} : ~Live(sim[e])
        /\ ~Live(r) => ~r.overlapped
        /\ r.kind = "trace" /\ ~r.overlapped => r.ops = <<>>
        /\ r.kind = "range" /\ ~r.overlapped /\ ~r.excused =>
             r.ops = r.state /\ Ahead(fork, r.state)
    BY <1>1, <1>9, TracedIs, Zenon
  <2>2. \A e \in Clients \ {c} : sim'[e] = sim[e]
    BY <1>1
  <2>3. q # Nil /\ q.kind = "range" => q.step = "call" /\ "call" # "running" /\ "call" # "replay"
    BY <1>4, <1>5
  <2>. QED
    BY <1>2, <1>4, <1>6, <2>1, <2>2, <2>3, TracedNext, Zenon DEF q
<1>. QED
  BY <1>2, <1>8, <1>10, NoAnswer

LEMMA RefuseTraced ==
    ASSUME Orderly, TraceInv, NEW c \in Clients, Refuse(c) \/ Forfeit(c)
    PROVE  TraceInv'
<1>1. /\ Skip(c, Replaying(c)) \/ Skip(c, FALSE)
      /\ refilled' = refilled /\ At(c, "replay") /\ sim[c].todo # <<>>
  BY Zenon DEF Refuse, Forfeit, gasVars
<1>2. PICK b \in BOOLEAN : Skip(c, b)
  <2>1. Replaying(c) \in BOOLEAN /\ FALSE \in BOOLEAN
    BY Zenon DEF Replaying
  <2>. QED
    BY <1>1, <2>1, Zenon
<1>. QED
  BY <1>1, <1>2, SkipTraced, Zenon

LEMMA SubGasTraced ==
    ASSUME Orderly, TraceInv, NEW c \in Clients, SubGas(c)
    PROVE  TraceInv'
<1>. DEFINE r == sim[c]
            q == sim'[c]
<1>1. /\ Moves(c) /\ r # Nil /\ \A d \in Clients \ {c} : sim'[d] = sim[d]
      /\ q = [r EXCEPT !.hold = "present", !.step = "running"] /\ q # Nil
  BY SubGasMoves, Zenon
<1>2. result' = Nil /\ tracer' = tracer /\ fork' = fork /\ r.step = "replay"
      /\ (r.kind = "range" => Applies(fork, r.state, Head(r.todo)))
  BY DEF SubGas, Replaying, At, nodeVars
<1>3. r \in Sims /\ Sensible(r)
  BY <1>1, Mine
<1>4. /\ q.kind = r.kind /\ q.overlapped = r.overlapped /\ q.ops = r.ops /\ q.state = r.state
      /\ q.step = "running" /\ q.excused = r.excused
  <2>. HIDE DEF q
  <2>. QED
    BY <1>1, <1>3, Zenon DEF Sims
<1>. HIDE DEF q
<1>6. Live(q) <=> Live(r)
  BY <1>1, <1>2, <1>4 DEF Live
<1>8. \A d \in Clients \ {c} : Traced(d)'
  <2>1. <<Nil, Nil>> \in Seen
    BY DEF Seen
  <2>. QED
    BY <1>1, <1>2, <1>6, <2>1, OthersTraced DEF q
<1>9. Traced(c)
  BY DEF TraceInv
<1>10. Traced(c)'
  <2>1. /\ r.kind \in Replays /\ Live(r) /\ ~r.overlapped =>
             tracer = c /\ \A e \in Clients \ {c} : ~Live(sim[e])
        /\ ~Live(r) => ~r.overlapped
        /\ r.kind = "trace" /\ ~r.overlapped => r.ops = <<>>
        /\ ~(r.kind = "range" /\ ~r.overlapped /\ ~r.excused)
    BY <1>1, <1>2, <1>9, TracedIs, Zenon
  <2>2. \A e \in Clients \ {c} : sim'[e] = sim[e]
    BY <1>1
  <2>. QED
    BY <1>2, <1>4, <1>6, <2>1, <2>2, TracedNext, Zenon DEF q
<1>. QED
  BY <1>2, <1>8, <1>10, NoAnswer

LEMMA AppliedTraced ==
    ASSUME Orderly, TraceInv, NEW c \in Clients, Applied(c)
    PROVE  TraceInv'
<1>. DEFINE r == sim[c]
            q == sim'[c]
<1>1. /\ Moves(c) /\ r # Nil /\ \A d \in Clients \ {c} : sim'[d] = sim[d]
      /\ q # Nil => q = [r EXCEPT !.state = Append(@, Head(sim[c].todo)), !.todo = Tail(@),
                                  !.hold = Nil, !.step = AfterMsg(c)]
  BY AppliedMoves, Zenon
<1>2. result' = Nil /\ tracer' = tracer /\ fork' = fork /\ r.step = "running"
  BY DEF Applied, At, nodeVars
<1>3. r \in Sims /\ Sensible(r)
  BY <1>1, Mine
<1>4. q # Nil => /\ q.kind = r.kind /\ q.overlapped = r.overlapped /\ q.ops = r.ops
                 /\ q.step = AfterMsg(c) /\ q.excused = r.excused
  <2>. HIDE DEF q
  <2>. QED
    BY <1>1, <1>3, Zenon DEF Sims
<1>5. /\ AfterMsg(c) \in {"call", "replay"} /\ (AfterMsg(c) = "call" <=> r.kind = "range")
  BY DEF AfterMsg
<1>. HIDE DEF q
<1>6. q # Nil => (Live(q) <=> Live(r))
  BY <1>1, <1>2, <1>4, <1>5 DEF Live
<1>7. Live(q) => Live(r)
  BY <1>6, Zenon DEF Live
<1>8. \A d \in Clients \ {c} : Traced(d)'
  <2>1. <<Nil, Nil>> \in Seen
    BY DEF Seen
  <2>. QED
    BY <1>1, <1>2, <1>7, <2>1, OthersTraced DEF q
<1>9. Traced(c)
  BY DEF TraceInv
<1>10. Traced(c)'
  <2>1. /\ r.kind \in Replays /\ Live(r) /\ ~r.overlapped =>
             tracer = c /\ \A e \in Clients \ {c} : ~Live(sim[e])
        /\ ~Live(r) => ~r.overlapped
        /\ r.kind = "trace" /\ ~r.overlapped => r.ops = <<>>
        /\ ~(r.kind = "range" /\ ~r.overlapped /\ ~r.excused)
    BY <1>1, <1>2, <1>9, TracedIs, Zenon
  <2>2. \A e \in Clients \ {c} : sim'[e] = sim[e]
    BY <1>1
  <2>. QED
    BY <1>2, <1>4, <1>6, <2>1, <2>2, TracedNext, Zenon DEF q
<1>. QED
  BY <1>2, <1>8, <1>10, NoAnswer

\* SetTracer marks whoever uses a tracer at the same time.
LEMMA SetTracerTraced ==
    ASSUME Orderly, TraceInv, NEW c \in Clients, SetTracer(c)
    PROVE  TraceInv'
<1>. DEFINE r == sim[c]
            q == sim'[c]
            others == {d \in Clients \ {c} : Using(d)}
            b == others # {} /\ r.kind \in Replays
<1>1. /\ Moves(c) /\ tracer' = c /\ result' = Nil /\ r # Nil
      /\ \/ r.step = "install"
         \/ r.step = "replay" /\ r.kind = "trace" /\ r.todo = <<>>
      /\ q = [r EXCEPT !.step = "call", !.overlapped = b] /\ q # Nil
      /\ \A d \in Clients \ {c} :
           sim'[d] = IF d \in others /\ sim[d].kind \in Replays
                     THEN Marked(sim[d], TRUE) ELSE sim[d]
  BY SetTracerMoves, Zenon
<1>2. fork' = fork
  BY <1>1 DEF Moves, nodeVars
<1>3. r \in Sims /\ ~Live(r)
  <2>1. ~Live(r)
    BY <1>1 DEF Live
  <2>. QED
    BY <1>1, <2>1, Mine
<1>4. /\ q.kind = r.kind /\ q.overlapped = b /\ q.ops = r.ops /\ q.state = r.state
      /\ q.step = "call" /\ q.excused = r.excused
  <2>. HIDE DEF q, b
  <2>. QED
    BY <1>1, <1>3, Zenon DEF Sims
<1>5. \A d \in Clients \ {c} : (d \in others <=> Live(sim[d])) /\ (Live(sim'[d]) <=> Live(sim[d]))
  <2>. TAKE d \in Clients \ {c}
  <2>1. d \in others <=> Live(sim[d])
    BY UsingLive
  <2>2. Goes(d)
    BY <1>1 DEF Moves
  <2>3. Live(sim'[d]) <=> Live(sim[d])
    <3>1. CASE sim[d] = Nil
      BY <2>2, <3>1, Zenon DEF Goes, Live
    <3>2. CASE sim[d] # Nil
      <4>1. sim'[d] # Nil
        BY <2>2, <3>2, SimNotNil DEF Goes
      <4>. QED
        BY <2>2, <3>2, <4>1, Zenon DEF Goes, Live
    <3>. QED
      BY <3>1, <3>2
  <2>. QED
    BY <2>1, <2>3
<1>. HIDE DEF q
<1>6. Traced(c)'
  <2>1. /\ r.kind = "trace" => r.ops = <<>>
        /\ r.kind = "range" /\ ~r.excused => r.ops = r.state /\ Ahead(fork, r.state)
    <3>1. Traced(c)
      BY DEF TraceInv
    <3>. QED
      BY <1>1, <1>3, <3>1, TracedIs, Zenon
  <2>2. r.kind \in Replays /\ ~b => \A e \in Clients \ {c} : ~Live(sim'[e])
    BY <1>5
  <2>3. "call" # "running" /\ "call" # "replay"
    OBVIOUS
  <2>4. Live(q)
    BY <1>1, <1>4, Zenon DEF Live
  <2>. HIDE DEF b
  <2>. QED
    BY <1>1, <1>2, <1>4, <2>1, <2>2, <2>3, <2>4, TracedNext, Zenon DEF q
<1>7. ASSUME NEW d \in Clients \ {c}
      PROVE  Traced(d)'
  <2>1. CASE Live(sim[d]) /\ sim[d].kind \in Replays
    <3>1. sim'[d] = Marked(sim[d], TRUE) /\ Live(sim'[d])
      BY <1>1, <1>5, <2>1, Zenon
    <3>2. sim[d] \in Sims
      BY <2>1, Mine DEF Live
    <3>3. sim'[d].overlapped
      BY <3>1, <3>2, MarkedFields
    <3>. QED
      BY <3>1, <3>3, VoidTraced, Zenon DEF Void
  <2>2. CASE Live(sim[d]) /\ sim[d].kind \notin Replays
    <3>1. sim'[d] = sim[d]
      BY <1>1, <2>2, Zenon
    <3>. QED
      BY <2>2, <3>1, VoidTraced, Zenon DEF Void
  <2>3. CASE ~Live(sim[d])
    <3>1. sim'[d] = sim[d] /\ Traced(d)
      BY <1>1, <1>5, <2>3, Zenon DEF TraceInv
    <3>2. CASE sim[d] = Nil
      BY <3>1, <3>2, TracedNext, Zenon
    <3>3. CASE sim[d] # Nil
      <4>1. /\ ~sim[d].overlapped
            /\ sim[d].kind = "trace" /\ ~sim[d].overlapped => sim[d].ops = <<>>
            /\ sim[d].kind = "range" /\ ~sim[d].overlapped /\ ~sim[d].excused =>
                 /\ sim[d].ops = sim[d].state
                 /\ Ahead(fork, sim[d].state)
                 /\ sim[d].step # "running"
                 /\ sim[d].step = "replay" => ~Applies(fork, sim[d].state, Head(sim[d].todo))
        BY <2>3, <3>1, <3>3, TracedIs, Zenon
      <4>. QED
        BY <1>2, <2>3, <3>1, <4>1, TracedNext, Zenon
    <3>. QED
      BY <3>2, <3>3
  <2>. QED
    BY <2>1, <2>2, <2>3
<1>. QED
  BY <1>1, <1>6, <1>7, NoAnswer

\* A request that returns: the others, and what it answers.
LEMMA ReturnTraced ==
    ASSUME Orderly, TraceInv, NEW c \in Clients, Moves(c), NEW tx \in Seen, sim'[c] = Nil,
           tracer' = tracer \/ tracer = c,
           \/ \A d \in Clients \ {c} : sim'[d] = sim[d]
           \/ Live(sim[c]) /\ \A d \in Clients \ {c} : sim'[d] = Captured(tx)[d],
           result' # Nil /\ ~result'.overlapped =>
             /\ result'.kind = "trace" => result'.ops = <<result'.target>>
             /\ result'.kind = "range" /\ ~result'.excused => result'.ops = result'.state
    PROVE  TraceInv'
<1>1. \A d \in Clients \ {c} : Traced(d)'
  <2>1. ~Live(sim'[c])
    BY DEF Live
  <2>. QED
    BY <2>1, OthersTraced
<1>2. Traced(c)'
  BY TracedNext, Zenon
<1>3. OwnTrace'
  BY Zenon DEF OwnTrace
<1>. QED
  BY <1>1, <1>2, <1>3, Zenon DEF TraceInv

LEMMA TraceCallTraced ==
    ASSUME Orderly, TraceInv, NEW c \in Clients, TraceCall(c)
    PROVE  TraceInv'
<1>. DEFINE r == sim[c]
<1>1. /\ Moves(c) /\ r # Nil /\ r.step = "call" /\ r.kind = "trace" /\ sim'[c] = Nil
      /\ \/ /\ result' = Captured(r.target)[c]
            /\ r.target \in Seen
            /\ \A d \in Clients \ {c} : sim'[d] = Captured(r.target)[d]
         \/ result' = Nil /\ \A d \in Clients \ {c} : sim'[d] = sim[d]
      /\ tracer' = IF tracer = c THEN Nil ELSE tracer
  BY TraceCallMoves, Zenon
<1>2. (tracer' = tracer \/ tracer = c) /\ Live(r) /\ "trace" # "range" /\ r.kind \in Replays
  BY <1>1 DEF Live, Replays
<1>3. CASE /\ result' = Captured(r.target)[c] /\ r.target \in Seen
           /\ \A d \in Clients \ {c} : sim'[d] = Captured(r.target)[d]
  <2>. DEFINE q == Captured(r.target)[c]
  <2>1. Alike(q, r)
    BY <1>1, <1>3, CapturedAlike, Zenon
  <2>2. tracer = c => q.ops = CaptureState(r.ops, r.target)
    BY <1>1, <1>3, CapturedAlike, Zenon
  <2>3. Traced(c)
    BY DEF TraceInv
  <2>4. ~r.overlapped => tracer = c /\ r.ops = <<>>
    BY <1>1, <1>2, <2>3, TracedIs, Zenon
  <2>5. CaptureState(<<>>, r.target) = <<r.target>>
    BY DEF CaptureState
  <2>. HIDE DEF q
  <2>6. q.kind = r.kind /\ q.target = r.target /\ q.overlapped = r.overlapped
    BY <2>1, Zenon DEF Alike
  <2>7. ~q.overlapped => q.ops = <<q.target>>
    BY <2>2, <2>4, <2>5, <2>6, Zenon
  <2>8. result' = q /\ q.kind # "range"
    BY <1>1, <1>2, <1>3, <2>6, Zenon DEF q
  <2>. QED
    BY <1>1, <1>2, <1>3, <2>7, <2>8, ReturnTraced
<1>4. CASE result' = Nil /\ \A d \in Clients \ {c} : sim'[d] = sim[d]
  <2>1. <<Nil, Nil>> \in Seen
    BY DEF Seen
  <2>. QED
    BY <1>1, <1>2, <1>4, <2>1, ReturnTraced
<1>. QED
  BY <1>1, <1>3, <1>4

LEMMA ProbeCallTraced ==
    ASSUME Orderly, TraceInv, NEW c \in Clients, ProbeCall(c)
    PROVE  TraceInv'
<1>. DEFINE r == sim[c]
            q == [r EXCEPT !.ops = <<r.target>>]
<1>1. /\ Moves(c) /\ r # Nil /\ r.kind = "trace" /\ sim'[c] = Nil
      /\ \A d \in Clients \ {c} : sim'[d] = sim[d]
      /\ result' = q \/ result' = Nil
      /\ tracer' = tracer
  BY ProbeCallMoves, Zenon
<1>2. q.ops = <<r.target>> /\ q.kind = r.kind /\ q.target = r.target
  <2>1. r \in Sims
    BY <1>1, Mine
  <2>. QED
    BY <2>1, OpsAlike, ZenonT(40) DEF Alike
<1>3. <<Nil, Nil>> \in Seen /\ "trace" # "range"
  BY DEF Seen
<1>. HIDE DEF q
<1>4. result' # Nil => result'.ops = <<result'.target>> /\ result'.kind # "range"
  BY <1>1, <1>2, <1>3, Zenon
<1>. QED
  BY <1>1, <1>3, <1>4, ReturnTraced

LEMMA EstimateCallTraced ==
    ASSUME Orderly, TraceInv, NEW c \in Clients, EstimateCall(c)
    PROVE  TraceInv'
<1>1. /\ Moves(c) /\ sim[c] # Nil /\ sim[c].step = "call" /\ sim'[c] = Nil /\ result' = Nil
      /\ \A d \in Clients \ {c} : sim'[d] = Captured(<<Nil, Nil>>)[d]
      /\ tracer' = IF tracer = c THEN Nil ELSE tracer
  BY EstimateCallMoves, Zenon
<1>2. <<Nil, Nil>> \in Seen /\ Live(sim[c]) /\ (tracer' = tracer \/ tracer = c)
  BY <1>1 DEF Seen, Live
<1>. QED
  BY <1>1, <1>2, ReturnTraced

LEMMA RangeReturnsTraced ==
    ASSUME Orderly, TraceInv, NEW c \in Clients, RangeReturns(c)
    PROVE  TraceInv'
<1>. DEFINE r == sim[c]
<1>1. /\ Moves(c) /\ r # Nil /\ r.kind = "range" /\ sim'[c] = Nil /\ result' = r
      /\ \A d \in Clients \ {c} : sim'[d] = sim[d]
      /\ tracer' = IF tracer = c THEN Nil ELSE tracer
  BY RangeReturnsMoves, Zenon
<1>2. <<Nil, Nil>> \in Seen /\ "trace" # "range" /\ (tracer' = tracer \/ tracer = c)
  BY <1>1 DEF Seen
<1>3. Traced(c)
  BY DEF TraceInv
<1>4. ~r.overlapped /\ ~r.excused => r.ops = r.state
  BY <1>1, <1>3, TracedIs, Zenon
<1>. QED
  BY <1>1, <1>2, <1>4, ReturnTraced

\* DoCall of the next transaction of a storage range: what is captured is
\* what the state gets, and ExecuteTxs will refuse it.
LEMMA RangeCallTraced ==
    ASSUME Orderly, TraceInv, NEW c \in Clients, RangeCall(c)
    PROVE  TraceInv'
<1>. DEFINE r == sim[c]
            q == sim'[c]
            tx == Head(r.todo)
            p == Captured(tx)[c]
<1>1. /\ Moves(c) /\ tracer' = tracer /\ result' = Nil
      /\ r # Nil /\ r.step = "call" /\ r.kind = "range" /\ q # Nil
      /\ tx \in Txs
      /\ \/ /\ Applies(fork, r.state, tx)
            /\ q = [p EXCEPT !.state = Append(r.state, tx), !.step = "replay"]
            /\ \A d \in Clients \ {c} : sim'[d] = Captured(tx)[d]
         \/ /\ ~Applies(fork, r.state, tx)
            /\ q = [r EXCEPT !.step = "replay"]
            /\ \A d \in Clients \ {c} : sim'[d] = sim[d]
  <2>1. UNCHANGED <<gas, spent, forfeited, tracer>> => tracer' = tracer
    OBVIOUS
  <2>. QED
    BY <2>1, RangeCallMoves, Zenon
<1>2. r \in Sims /\ Live(r) /\ tx \in Seen /\ r.kind \in Replays
  BY <1>1, Mine DEF Live, Seen, Replays
<1>3. fork' = fork /\ fork \in Nat /\ r.state \in Seq(Txs)
  BY <1>1, <1>2, RestOf, SimFields, GasAssumption DEF Moves, nodeVars, RestOK
<1>4. \A d \in Clients \ {c} : Traced(d)'
  <2>. HIDE DEF q, p, tx
  <2>. QED
    BY <1>1, <1>2, OthersTraced
<1>5. \A e \in Clients \ {c} : Live(sim'[e]) => Live(sim[e])
  <2>. TAKE e \in Clients \ {c}
  <2>1. Goes(e)
    BY <1>1 DEF Moves
  <2>2. CASE sim[e] = Nil
    BY <2>1, <2>2, Zenon DEF Goes, Live
  <2>3. CASE sim[e] # Nil
    BY <2>1, <2>3, Zenon DEF Goes, Live
  <2>. QED
    BY <2>2, <2>3
<1>6. /\ ~r.overlapped => tracer = c /\ \A e \in Clients \ {c} : ~Live(sim[e])
      /\ ~r.overlapped /\ ~r.excused => r.ops = r.state /\ Ahead(fork, r.state)
  <2>1. Traced(c)
    BY DEF TraceInv
  <2>. QED
    BY <1>1, <1>2, <2>1, TracedIs, Zenon
<1>7. "trace" # "range" /\ "replay" # "running" /\ "replay" # "install"
  OBVIOUS
<1>8. CASE /\ Applies(fork, r.state, tx)
           /\ q = [p EXCEPT !.state = Append(r.state, tx), !.step = "replay"]
  <2>1. p \in Sims /\ Alike(p, r)
    BY <1>1, <1>2, CapturedAlike, Zenon
  <2>2. tracer = c => p.ops = CaptureSlots(r.ops, tx)
    BY <1>1, <1>2, CapturedAlike, Zenon
  <2>. HIDE DEF p, q
  <2>3. /\ q.kind = p.kind /\ q.todo = p.todo /\ q.ops = p.ops /\ q.step = "replay"
        /\ q.state = Append(r.state, tx) /\ q.overlapped = p.overlapped /\ q.excused = p.excused
    <3>. HIDE DEF tx
    <3>. QED
      BY <1>8, <2>1, Zenon DEF Sims
  <2>4. q.kind = r.kind /\ q.todo = r.todo /\ q.overlapped = r.overlapped /\ q.excused = r.excused
    BY <2>1, <2>3, Zenon DEF Alike
  <2>5. Ahead(fork, r.state) => /\ ~Contains(r.state, tx)
                                /\ Ahead(fork, Append(r.state, tx))
                                /\ ~Applies(fork, Append(r.state, tx), tx)
    <3>. HIDE DEF tx
    <3>. QED
      BY <1>1, <1>3, <1>8, AheadAppend
  <2>6. ~r.overlapped /\ ~r.excused => /\ q.ops = q.state /\ Ahead(fork, q.state)
                                       /\ ~Applies(fork, q.state, Head(q.todo))
    <3>1. ~Contains(r.state, tx) => CaptureSlots(r.state, tx) = Append(r.state, tx)
      BY DEF CaptureSlots
    <3>2. Head(q.todo) = tx
      BY <2>4
    <3>. HIDE DEF tx
    <3>. QED
      BY <1>6, <2>2, <2>3, <2>5, <3>1, <3>2, Zenon
  <2>7. Live(q)
    BY <1>1, <1>7, <2>3, <2>4, Zenon DEF Live
  <2>8. Traced(c)'
    <3>. HIDE DEF tx
    <3>1. q.kind = "range" /\ q.kind # "trace"
      BY <1>1, <1>7, <2>4, Zenon
    <3>. QED
      BY <1>1, <1>3, <1>5, <1>6, <1>7, <2>3, <2>4, <2>6, <2>7, <3>1, TracedNext, Zenon DEF q
  <2>. QED
    BY <1>1, <1>4, <2>8, NoAnswer
<1>9. CASE /\ ~Applies(fork, r.state, tx)
           /\ q = [r EXCEPT !.step = "replay"]
  <2>. HIDE DEF p, q
  <2>3. /\ q.kind = r.kind /\ q.todo = r.todo /\ q.ops = r.ops /\ q.step = "replay"
        /\ q.state = r.state /\ q.overlapped = r.overlapped /\ q.excused = r.excused
    BY <1>2, <1>9, Zenon DEF Sims
  <2>6. ~Applies(fork, q.state, Head(q.todo))
    BY <1>9, <2>3, Zenon
  <2>7. Live(q)
    BY <1>1, <1>7, <2>3, Zenon DEF Live
  <2>8. Traced(c)'
    <3>. HIDE DEF tx
    <3>1. q.kind = "range" /\ q.kind # "trace"
      BY <1>1, <1>7, <2>3, Zenon
    <3>. QED
      BY <1>1, <1>3, <1>5, <1>6, <1>7, <2>3, <2>6, <2>7, <3>1, TracedNext, Zenon DEF q
  <2>. QED
    BY <1>1, <1>4, <2>8, NoAnswer
<1>. QED
  BY <1>1, <1>8, <1>9

LEMMA WorkTraced ==
    ASSUME Orderly, TraceInv, NEW c \in Clients, Work(c)
    PROVE  TraceInv'
BY RefuseTraced, SubGasTraced, AppliedTraced, SetTracerTraced, TraceCallTraced, ProbeCallTraced,
   EstimateCallTraced, RangeCallTraced, RangeReturnsTraced DEF Work

\* A fresh request has done nothing.
LEMMA AheadEmpty ==
    \A f : Ahead(f, <<>>)
BY DEF Ahead

LEMMA ArriveTraced ==
    ASSUME Orderly, TraceInv, NEW c \in Clients, Arrive(c), ~TraceTransactionBundle(c)
    PROVE  TraceInv'
<1>1. PICK kind \in {"trace", "range", "estimate"}, list \in Seq(Txs), target \in Txs \cup {Nil} :
           /\ kind = "trace" => target \in Txs
           /\ kind = "range" => target \in Txs
           /\ sim[c] = Nil
           /\ Start(c, kind, list, target, sim) /\ result' = Nil
           /\ UNCHANGED <<nodeVars, gasVars, tracer, history>>
  BY ArrivesWith, Zenon
<1>2. kind \in Replays => target \in Txs
  BY <1>1 DEF Replays
<1>. DEFINE q == Fresh(kind, list, target)
<1>3. /\ Moves(c) /\ sim'[c] = q /\ \A d \in Clients \ {c} : sim'[d] = sim[d]
  BY <1>1, <1>2, ArriveMoves
<1>4. /\ q.kind = kind /\ q.ops = <<>> /\ q.state = <<>> /\ ~q.overlapped
      /\ ~Live(q) /\ q.step # "running"
      /\ kind = "range" => q.step # "replay"
      /\ \A f : Ahead(f, q.state)
  BY AheadEmpty DEF Fresh, Live
<1>. HIDE DEF q
<1>5. <<Nil, Nil>> \in Seen /\ tracer' = tracer
  BY <1>1 DEF Seen
<1>6. \A d \in Clients \ {c} : Traced(d)'
  BY <1>3, <1>4, <1>5, OthersTraced
<1>7. Traced(c)'
  BY <1>3, <1>4, TracedNext, Zenon
<1>. QED
  BY <1>1, <1>6, <1>7, NoAnswer

\* A new gas pool or a reset: what changes is excused.
LEMMA DetachedTraced ==
    ASSUME Orderly, TraceInv, NEW b \in BOOLEAN, NEW d \in Clients, sim'[d] = Detached(b)[d],
           tracer' = tracer, b \/ fork' = fork,
           \A e \in Clients : Live(sim'[e]) => Live(sim[e])
    PROVE  Traced(d)'
<1>. DEFINE r == sim[d]
            q == Detached(b)[d]
<1>1. Traced(d)
  BY DEF TraceInv
<1>2. CASE r = Nil
  <2>1. sim'[d] = Nil
    BY <1>2, DetachedGoes, Zenon
  <2>. QED
    BY <2>1, TracedNext, Zenon
<1>3. CASE r # Nil
  <2>1. /\ q \in Sims
        /\ q.kind = r.kind /\ q.step = r.step
        /\ q.todo = r.todo /\ q.state = r.state
        /\ q.ops = r.ops /\ q.overlapped = r.overlapped
        /\ q.excused = (r.excused \/ (b /\ r.kind \in Replays))
    BY <1>3, DetachedGoes, Zenon
  <2>2. /\ r.kind \in Replays /\ Live(r) /\ ~r.overlapped =>
             tracer = d /\ \A e \in Clients \ {d} : ~Live(sim[e])
        /\ ~Live(r) => ~r.overlapped
        /\ r.kind = "trace" /\ ~r.overlapped => r.ops = <<>>
        /\ r.kind = "range" /\ ~r.overlapped /\ ~r.excused =>
             /\ r.ops = r.state
             /\ Ahead(fork, r.state)
             /\ r.step # "running"
             /\ r.step = "replay" => ~Applies(fork, r.state, Head(r.todo))
    BY <1>1, <1>3, TracedIs, Zenon
  <2>. HIDE DEF q
  <2>3. q # Nil
    BY <2>1, SimNotNil
  <2>4. Live(q) <=> Live(r)
    BY <1>3, <2>1, <2>3, Zenon DEF Live
  <2>5. r.kind = "range" /\ ~q.excused => ~r.excused /\ fork' = fork
    <3>1. r.kind = "range" => r.kind \in Replays
      BY DEF Replays
    <3>. QED
      BY <2>1, <3>1, Zenon
  <2>. QED
    BY <2>1, <2>2, <2>3, <2>4, <2>5, TracedNext, Zenon DEF q
<1>. QED
  BY <1>2, <1>3

LEMMA DetachedLive ==
    ASSUME Orderly, NEW b \in BOOLEAN, NEW e \in Clients, Live(Detached(b)[e])
    PROVE  Live(sim[e])
<1>. DEFINE q == Detached(b)[e]
<1>1. /\ sim[e] = Nil => q = Nil
      /\ sim[e] # Nil => q.kind = sim[e].kind /\ q.step = sim[e].step
  BY DetachedGoes, Zenon
<1>2. Live(q)
  OBVIOUS
<1>. HIDE DEF q
<1>. QED
  BY <1>1, <1>2, Zenon DEF Live

LEMMA BundleTraced ==
    ASSUME Orderly, TraceInv, NEW c \in Clients, TraceTransactionBundle(c), result' = Nil
    PROVE  TraceInv'
<1>. DEFINE q == Fresh("bundle", <<Nil>>, Nil)
<1>1. /\ sim[c] = Nil /\ sim'[c] = q /\ tracer' = tracer /\ fork' = fork
      /\ \A d \in Clients \ {c} : sim'[d] = Detached(FALSE)[d]
  <2>1. UNCHANGED <<nodeVars, tracer, history>> => tracer' = tracer /\ fork' = fork
    BY DEF nodeVars
  <2>. QED
    BY <2>1, BundleOrderly, Zenon
<1>2. q.kind = "bundle" /\ ~q.overlapped /\ ~Live(q)
  BY DEF Fresh, Live
<1>. HIDE DEF q
<1>3. FALSE \in BOOLEAN /\ "bundle" \notin Replays /\ "bundle" # "trace" /\ "bundle" # "range"
  BY DEF Replays
<1>4. \A e \in Clients : Live(sim'[e]) => Live(sim[e])
  BY <1>1, <1>2, <1>3, DetachedLive, Zenon
<1>5. \A d \in Clients \ {c} : Traced(d)'
  BY <1>1, <1>3, <1>4, DetachedTraced
<1>6. Traced(c)'
  BY <1>1, <1>2, <1>3, TracedNext, Zenon
<1>. QED
  BY <1>5, <1>6, NoAnswer

\* Everything that Traced reads is as it was.
LEMMA SameTraced ==
    ASSUME TraceInv, UNCHANGED <<sim, tracer, fork>>
    PROVE  \A d \in Clients : Traced(d)'
<1>. TAKE d \in Clients
<1>1. Traced(d)
  BY DEF TraceInv
<1>2. sim' = sim /\ tracer' = tracer /\ fork' = fork
  OBVIOUS
<1>3. CASE sim[d] = Nil
  BY <1>2, <1>3, TracedNext, Zenon
<1>4. CASE sim[d] # Nil
  BY <1>1, <1>2, <1>4, TracedIs, TracedNext, Zenon
<1>. QED
  BY <1>3, <1>4

LEMMA NodeTraced ==
    ASSUME Orderly, TraceInv, Node
    PROVE  TraceInv'
<1>1. result' = Nil
  BY DEF Node
<1>2. CASE sim' = Detached(TRUE) /\ tracer' = tracer
  <2>1. TRUE \in BOOLEAN
    OBVIOUS
  <2>2. \A e \in Clients : Live(sim'[e]) => Live(sim[e])
    BY <1>2, <2>1, DetachedLive, Zenon
  <2>. QED
    BY <1>1, <1>2, <2>1, <2>2, DetachedTraced, NoAnswer, Zenon
<1>3. CASE UNCHANGED <<sim, tracer, fork>>
  BY <1>1, <1>3, SameTraced, NoAnswer
<1>4. (sim' = Detached(TRUE) /\ tracer' = tracer) \/ UNCHANGED <<sim, tracer, fork>>
  BY DEF Node, Send, TraceBlocks, ResetState, ReExecTxPool, ClearTxPool, ResetAnd
<1>. QED
  BY <1>2, <1>3, <1>4

LEMMA TracedAlways ==
    Spec => []TraceInv
<1>1. Init => TraceInv
  BY DEF Init, TraceInv, OwnTrace, Traced
<1>2. Orderly /\ TraceInv /\ [Next]_vars => TraceInv'
  <2>. SUFFICES ASSUME Orderly, TraceInv, [Next]_vars PROVE TraceInv'
    OBVIOUS
  <2>1. CASE Node
    BY <2>1, NodeTraced
  <2>2. ASSUME NEW c \in Clients, Arrive(c) PROVE TraceInv'
    <3>1. result' = Nil
      BY <2>2 DEF Arrive
    <3>. QED
      BY <2>2, <3>1, BundleTraced, ArriveTraced
  <2>3. ASSUME NEW c \in Clients, Work(c) PROVE TraceInv'
    BY <2>3, WorkTraced
  <2>4. CASE UNCHANGED vars
    <3>1. UNCHANGED <<sim, tracer, fork>> /\ result' = result
      BY <2>4 DEF vars, nodeVars
    <3>2. OwnTrace'
      BY <3>1, Zenon DEF TraceInv, OwnTrace
    <3>. QED
      BY <3>1, <3>2, SameTraced, Zenon DEF TraceInv
  <2>. QED
    BY <2>1, <2>2, <2>3, <2>4 DEF Next
<1>. QED
  BY <1>1, <1>2, GasAlways, PTL DEF Spec

\* Requests trace through one shared field, and a storage range runs every
\* transaction twice; still a request that nobody overlapped answers its own
\* executions, each once and in order.
THEOREM OwnExecutions == Spec => []OwnTrace
<1>1. TraceInv => OwnTrace
  BY DEF TraceInv
<1>. QED
  BY <1>1, TracedAlways, PTL

-----------------------------------------------------------------------------
(* A trace runs in the state in which the node executed. *)

\* g[n] is the state after n transactions of the list when gas is no object.
Replay(f, list, g) ==
    /\ g \in [0 .. Len(list) -> Seq(Txs)]
    /\ g[0] = <<>>
    /\ \A n \in 1 .. Len(list) :
         g[n] = IF Applies(f, g[n - 1], list[n]) THEN Append(g[n - 1], list[n]) ELSE g[n - 1]

\* The trace r of the transaction at i has replayed k of the list.
Halfway(r, f, list, g, i, k) ==
    /\ list[i] = r.target
    /\ r.state = g[k]
    /\ Len(r.todo) = i - 1 - k
    /\ \A m \in 1 .. Len(r.todo) : r.todo[m] = list[k + m]
    /\ r.step = "running" => Applies(f, r.state, Head(r.todo))
    /\ r.step # "install" /\ (r.step = "call" => r.todo = <<>>)

InPast(r, f, list, g) ==
    r # Nil /\ r.kind = "trace" /\ ~r.excused =>
        \E i \in 1 .. Len(list) : \E k \in 0 .. i - 1 : Halfway(r, f, list, g, i, k)

PastInv ==
    covered /\ ~short => \E g : /\ Replay(fork, txs, g)
                                /\ applied = g[Len(txs)]
                                /\ \A c \in Clients : InPast(sim[c], fork, txs, g)

\* One step of a replay.
Stepped(f, list, g, n) ==
    /\ g[n] \in Seq(Txs) /\ g[n + 1] \in Seq(Txs) /\ list[n + 1] \in Txs
    /\ Applies(f, g[n], list[n + 1]) => g[n + 1] = Append(g[n], list[n + 1])
    /\ ~Applies(f, g[n], list[n + 1]) => g[n + 1] = g[n]

LEMMA ReplayStep ==
    ASSUME NEW f, NEW list \in Seq(Txs), NEW g, Replay(f, list, g), NEW n \in Nat, n + 1 <= Len(list)
    PROVE  Stepped(f, list, g, n)
<1>1. n \in 0 .. Len(list) /\ n + 1 \in 0 .. Len(list) /\ n + 1 \in 1 .. Len(list) /\ (n + 1) - 1 = n
  OBVIOUS
<1>2. g[n] \in Seq(Txs) /\ g[n + 1] \in Seq(Txs) /\ list[n + 1] \in Txs
  BY <1>1 DEF Replay
<1>3. g[n + 1] = IF Applies(f, g[n], list[n + 1]) THEN Append(g[n], list[n + 1]) ELSE g[n]
  BY <1>1 DEF Replay
<1>. QED
  BY <1>2, <1>3, Zenon DEF Stepped

\* No state of a replay holds a transaction it could execute again.
LEMMA ReplayAhead ==
    ASSUME NEW f \in Nat, NEW list \in Seq(Txs), NEW g, Replay(f, list, g), NEW n \in 0 .. Len(list)
    PROVE  Ahead(f, g[n])
<1>. DEFINE S == {m \in Nat : m <= Len(list) => Ahead(f, g[m])}
<1>1. 0 \in S
  BY AheadEmpty DEF Replay
<1>2. ASSUME NEW m \in Nat, m \in S PROVE m + 1 \in S
  <2>. SUFFICES ASSUME m + 1 <= Len(list) PROVE Ahead(f, g[m + 1])
    OBVIOUS
  <2>1. Ahead(f, g[m])
    BY <1>2
  <2>2. /\ g[m] \in Seq(Txs) /\ list[m + 1] \in Txs
        /\ Applies(f, g[m], list[m + 1]) => g[m + 1] = Append(g[m], list[m + 1])
        /\ ~Applies(f, g[m], list[m + 1]) => g[m + 1] = g[m]
    <3>1. Stepped(f, list, g, m)
      BY ReplayStep
    <3>. QED
      BY <3>1, Zenon DEF Stepped
  <2>. QED
    BY <2>1, <2>2, AheadAppend
<1>3. n \in S
  <2>. HIDE DEF S
  <2>. QED
    BY <1>1, <1>2, SetInduction
<1>. QED
  BY <1>3

\* What is executed stays where it is.
Within(s, t) == Len(s) <= Len(t) /\ \A j \in 1 .. Len(s) : t[j] = s[j]

LEMMA ReplayPrefix ==
    ASSUME NEW f, NEW list \in Seq(Txs), NEW g, Replay(f, list, g), NEW i \in 0 .. Len(list)
    PROVE  Within(g[i], g[Len(list)])
<1>. DEFINE S == {m \in Nat : i + m <= Len(list) => Within(g[i], g[i + m])}
<1>1. 0 \in S
  <2>1. g[i] \in Seq(Txs) /\ i + 0 = i
    BY DEF Replay
  <2>2. Within(g[i], g[i])
    BY <2>1 DEF Within
  <2>. QED
    BY <2>1, <2>2
<1>2. ASSUME NEW m \in Nat, m \in S PROVE m + 1 \in S
  <2>. SUFFICES ASSUME i + (m + 1) <= Len(list) PROVE Within(g[i], g[i + (m + 1)])
    OBVIOUS
  <2>1. i + m \in Nat /\ (i + m) + 1 <= Len(list) /\ i + (m + 1) = (i + m) + 1 /\ i + m <= Len(list)
    OBVIOUS
  <2>2. Within(g[i], g[i + m])
    BY <1>2, <2>1
  <2>. DEFINE s == g[i]
              t == g[i + m]
              u == g[(i + m) + 1]
              tx == list[(i + m) + 1]
  <2>3. t \in Seq(Txs) /\ tx \in Txs /\ (u = Append(t, tx) \/ u = t)
    <3>1. Stepped(f, list, g, i + m)
      BY <2>1, ReplayStep
    <3>. QED
      BY <3>1, Zenon DEF Stepped
  <2>4. s \in Seq(Txs)
    BY DEF Replay
  <2>5. Within(s, t)
    BY <2>2
  <2>. HIDE DEF s, t, u, tx
  <2>6. Within(s, u)
    BY <2>3, <2>4, <2>5 DEF Within
  <2>. QED
    BY <2>1, <2>6 DEF s, u
<1>3. Len(list) - i \in S /\ i + (Len(list) - i) = Len(list)
  <2>. HIDE DEF S
  <2>. QED
    BY <1>1, <1>2, SetInduction
<1>. QED
  BY <1>3

\* The transactions before an executed one are the state it ran in.
LEMMA PastFound ==
    ASSUME NEW f \in Nat, NEW list \in Seq(Txs), NEW g, Replay(f, list, g), NEW i \in 1 .. Len(list),
           Applies(f, g[i - 1], list[i])
    PROVE  LET all == g[Len(list)]
           IN  SubSeq(all, 1, Min({j \in DOMAIN all : all[j] = list[i]}) - 1) = g[i - 1]
<1>. DEFINE all == g[Len(list)]
            s == g[i - 1]
            tx == list[i]
            at == Len(s) + 1
            S == {j \in DOMAIN all : all[j] = tx}
<1>1. i - 1 \in Nat /\ (i - 1) + 1 = i /\ (i - 1) + 1 <= Len(list) /\ i - 1 \in 0 .. Len(list)
      /\ i \in 0 .. Len(list) /\ Len(list) \in 0 .. Len(list)
  OBVIOUS
<1>2. s \in Seq(Txs) /\ tx \in Txs /\ g[i] = Append(s, tx)
  <2>. DEFINE k == i - 1
  <2>1. k \in Nat /\ k + 1 = i /\ k + 1 <= Len(list) /\ s = g[k] /\ Applies(f, g[k], list[k + 1])
    BY <1>1
  <2>. HIDE DEF k, s
  <2>2. /\ g[k] \in Seq(Txs) /\ list[k + 1] \in Txs
        /\ g[k + 1] = Append(g[k], list[k + 1])
    <3>1. Stepped(f, list, g, k)
      BY <2>1, ReplayStep
    <3>. QED
      BY <2>1, <3>1, Zenon DEF Stepped
  <2>. QED
    BY <2>1, <2>2, Zenon
<1>3. all \in Seq(Txs)
  BY <1>1 DEF Replay
<1>4. Len(g[i]) <= Len(all) /\ \A j \in 1 .. Len(g[i]) : all[j] = g[i][j]
  <2>1. Within(g[i], all)
    BY <1>1, ReplayPrefix
  <2>. QED
    BY <2>1, Zenon DEF Within
<1>5. ~Contains(s, tx)
  <2>1. Ahead(f, s)
    BY <1>1, ReplayAhead
  <2>. QED
    BY <1>2, <2>1, AheadAppend
<1>. HIDE DEF all, s, tx
<1>6. /\ Len(s) \in Nat /\ Len(all) \in Nat /\ at <= Len(all) /\ all[at] = tx
      /\ \A j \in 1 .. Len(s) : all[j] = s[j]
  <2>. DEFINE u == Append(s, tx)
  <2>1. /\ Len(s) \in Nat /\ Len(u) = at /\ u[at] = tx
        /\ \A j \in 1 .. Len(s) : u[j] = s[j]
    BY <1>2
  <2>2. Len(all) \in Nat
    BY <1>3
  <2>3. Len(u) <= Len(all) /\ \A j \in 1 .. Len(u) : all[j] = u[j]
    BY <1>2, <1>4
  <2>. HIDE DEF u
  <2>4. at \in 1 .. at /\ \A j \in 1 .. Len(s) : j \in 1 .. at
    BY <2>1
  <2>. QED
    BY <2>1, <2>2, <2>3, <2>4
<1>7. at \in S /\ \A y \in S : y \in Nat /\ at <= y
  <2>1. at \in S
    BY <1>3, <1>6
  <2>2. ASSUME NEW y \in S PROVE y \in Nat /\ at <= y
    <3>1. y \in 1 .. Len(all) /\ all[y] = tx
      BY <1>3
    <3>2. y \notin 1 .. Len(s)
      BY <1>5, <1>6, <3>1 DEF Contains
    <3>. QED
      BY <1>6, <3>1, <3>2
  <2>. QED
    BY <2>1, <2>2
<1>8. Min(S) = at
  <2>1. at \in Nat
    BY <1>6
  <2>. HIDE DEF S, at
  <2>2. Min(S) \in S /\ \A y \in S : Min(S) <= y
    <3>1. \E x \in S : \A y \in S : x <= y
      BY <1>7
    <3>. QED
      BY <3>1 DEF Min
  <2>. DEFINE m == Min(S)
  <2>3. m \in Nat /\ m <= at /\ at <= m
    BY <1>7, <2>2
  <2>. HIDE DEF m
  <2>4. m = at
    BY <2>1, <2>3
  <2>. QED
    BY <2>4 DEF m
<1>9. Min(S) - 1 = Len(s)
  <2>1. at - 1 = Len(s)
    BY <1>6
  <2>. QED
    BY <1>8, <2>1, Zenon
<1>10. SubSeq(all, 1, Len(s)) = s
  BY <1>2, <1>3, <1>6
<1>. HIDE DEF S
<1>11. SubSeq(all, 1, Min(S) - 1) = s
  BY <1>9, <1>10, Zenon
<1>. QED
  BY <1>11 DEF S, all, s, tx

\* h replays list and then tx, agreeing with g, the replay of list.
Longer(f, list, g, tx, h) ==
    /\ Replay(f, Append(list, tx), h)
    /\ \A n \in 0 .. Len(list) : h[n] = g[n]
    /\ h[Len(Append(list, tx))] = LET s == g[Len(list)]
                                  IN  IF Applies(f, s, tx) THEN Append(s, tx) ELSE s

\* A replay of one transaction more.
LEMMA ReplayAppend ==
    ASSUME NEW f, NEW list \in Seq(Txs), NEW g, Replay(f, list, g), NEW tx \in Txs
    PROVE  \E h : Longer(f, list, g, tx, h)
<1>. DEFINE more == Append(list, tx)
            s == g[Len(list)]
            last == IF Applies(f, s, tx) THEN Append(s, tx) ELSE s
            h == [n \in 0 .. Len(more) |-> IF n <= Len(list) THEN g[n] ELSE last]
<1>1. /\ Len(list) \in Nat /\ Len(more) = Len(list) + 1 /\ more[Len(list) + 1] = tx
      /\ \A n \in 1 .. Len(list) : more[n] = list[n]
      /\ 0 .. Len(more) = 0 .. Len(list) + 1
  OBVIOUS
<1>2. /\ g \in [0 .. Len(list) -> Seq(Txs)] /\ g[0] = <<>>
      /\ \A n \in 1 .. Len(list) :
           g[n] = IF Applies(f, g[n - 1], list[n]) THEN Append(g[n - 1], list[n]) ELSE g[n - 1]
  BY DEF Replay
<1>3. s \in Seq(Txs) /\ last \in Seq(Txs)
  BY <1>1, <1>2
<1>. HIDE DEF more, s, last
<1>4. /\ \A n \in 0 .. Len(list) : h[n] = g[n]
      /\ h[Len(list) + 1] = last
      /\ h \in [0 .. Len(more) -> Seq(Txs)]
  BY <1>1, <1>2, <1>3
<1>. HIDE DEF h
<1>5. h[0] = <<>>
  BY <1>1, <1>2, <1>4
<1>6. ASSUME NEW n \in 1 .. Len(more)
      PROVE  h[n] = IF Applies(f, h[n - 1], more[n]) THEN Append(h[n - 1], more[n]) ELSE h[n - 1]
  <2>1. CASE n \in 1 .. Len(list)
    <3>1. n \in 0 .. Len(list) /\ n - 1 \in 0 .. Len(list)
      BY <1>1, <2>1
    <3>. QED
      BY <1>1, <1>2, <1>4, <2>1, <3>1
  <2>2. CASE n = Len(list) + 1
    <3>1. n - 1 = Len(list) /\ Len(list) \in 0 .. Len(list)
      BY <1>1, <2>2
    <3>. QED
      BY <1>1, <1>4, <2>2, <3>1 DEF last, s
  <2>. QED
    BY <1>1, <2>1, <2>2
<1>7. Replay(f, more, h)
  BY <1>4, <1>5, <1>6 DEF Replay
<1>8. h[Len(more)] = last
  BY <1>1, <1>4
<1>9. Longer(f, list, g, tx, h)
  BY <1>4, <1>7, <1>8 DEF Longer, more, last, s
<1>. QED
  BY <1>9

\* ExecuteTxs that never ran short of gas is a replay.
LEMMA ExecuteTxsReplay ==
    ASSUME NEW list \in Seq(Txs), NEW run \in Runs, run.state = <<>>, ~ExecuteTxs(list, run).short
    PROVE  \E g : Replay(run.fork, list, g) /\ ExecuteTxs(list, run).state = g[Len(list)]
<1>1. PICK r : /\ r = [n \in 0 .. Len(list) |->
                          IF n = 0 THEN run ELSE ExecuteMsg(r[n - 1], list[n])]
               /\ ExecuteTxs(list, run) = r[Len(list)]
  BY ExecuteTxsLoop
<1>2. Len(list) \in Nat /\ r[0] = run
  BY <1>1
<1>3. ASSUME NEW m \in Nat, m + 1 <= Len(list)
      PROVE  r[m + 1] = ExecuteMsg(r[m], list[m + 1]) /\ list[m + 1] \in Txs
  <2>1. m + 1 \in 0 .. Len(list) /\ m + 1 # 0 /\ (m + 1) - 1 = m
    BY <1>3
  <2>. QED
    BY <1>1, <1>3, <2>1
<1>4. \A m \in Nat : m <= Len(list) => r[m] \in Runs /\ r[m].fork = run.fork
  <2>. DEFINE S == {m \in Nat : m <= Len(list) => r[m] \in Runs /\ r[m].fork = run.fork}
  <2>1. 0 \in S
    BY <1>2
  <2>2. ASSUME NEW m \in Nat, m \in S PROVE m + 1 \in S
    <3>. SUFFICES ASSUME m + 1 <= Len(list) PROVE r[m + 1] \in Runs /\ r[m + 1].fork = run.fork
      OBVIOUS
    <3>1. r[m] \in Runs /\ r[m].fork = run.fork /\ r[m + 1] = ExecuteMsg(r[m], list[m + 1])
          /\ list[m + 1] \in Txs
      BY <1>3, <2>2
    <3>2. ExecuteMsg(r[m], list[m + 1]) \in Runs
      BY <3>1, ExecuteMsgEffect
    <3>3. ExecuteMsg(r[m], list[m + 1]).fork = r[m].fork
      BY <3>1 DEF ExecuteMsg, Runs
    <3>. QED
      BY <3>1, <3>2, <3>3
  <2>3. Nat \subseteq S
    <3>. HIDE DEF S
    <3>. QED
      BY <2>1, <2>2, SetInduction
  <2>. QED
    BY <2>3
<1>5. \A m \in Nat : m <= Len(list) => ~r[m].short
  <2>. DEFINE S == {m \in Nat : m <= Len(list) => ~r[Len(list) - m].short}
  <2>1. 0 \in S
    BY <1>1, <1>2
  <2>2. ASSUME NEW m \in Nat, m \in S PROVE m + 1 \in S
    <3>. SUFFICES ASSUME m + 1 <= Len(list) PROVE ~r[Len(list) - (m + 1)].short
      OBVIOUS
    <3>. DEFINE k == Len(list) - (m + 1)
    <3>1. k \in Nat /\ k + 1 = Len(list) - m /\ k + 1 <= Len(list) /\ k <= Len(list) /\ m <= Len(list)
      BY <1>2
    <3>2. ~r[k + 1].short
      BY <2>2, <3>1
    <3>. HIDE DEF k
    <3>3. r[k + 1] = ExecuteMsg(r[k], list[k + 1]) /\ r[k] \in Runs
      BY <1>3, <1>4, <3>1
    <3>4. r[k].short => r[k + 1].short
      BY <3>3 DEF ExecuteMsg, Runs
    <3>. QED
      BY <3>2, <3>4 DEF k
  <2>3. Nat \subseteq S
    <3>. HIDE DEF S
    <3>. QED
      BY <2>1, <2>2, SetInduction
  <2>. TAKE m \in Nat
  <2>. HAVE m <= Len(list)
  <2>4. Len(list) - m \in Nat /\ Len(list) - m <= Len(list) /\ Len(list) - (Len(list) - m) = m
    BY <1>2
  <2>5. Len(list) - m \in S
    BY <2>3, <2>4
  <2>. QED
    BY <2>4, <2>5
<1>. DEFINE g == [n \in 0 .. Len(list) |-> r[n].state]
<1>6. g \in [0 .. Len(list) -> Seq(Txs)] /\ g[0] = <<>>
  BY <1>2, <1>4 DEF Runs
<1>7. ASSUME NEW n \in 1 .. Len(list)
      PROVE  g[n] = IF Applies(run.fork, g[n - 1], list[n]) THEN Append(g[n - 1], list[n]) ELSE g[n - 1]
  <2>. DEFINE k == n - 1
  <2>1. k \in Nat /\ k + 1 = n /\ k + 1 <= Len(list) /\ k <= Len(list)
        /\ k \in 0 .. Len(list) /\ n \in 0 .. Len(list)
    BY <1>2
  <2>2. g[n] = r[n].state /\ g[n - 1] = r[k].state
    BY <2>1
  <2>. HIDE DEF k, g
  <2>3. r[n] = ExecuteMsg(r[k], list[n]) /\ r[k] \in Runs /\ r[k].fork = run.fork
        /\ ~r[n].short /\ ~r[k].short
    BY <1>3, <1>4, <1>5, <2>1
  <2>4. r[n].state = IF Applies(r[k].fork, r[k].state, list[n]) THEN Append(r[k].state, list[n])
                     ELSE r[k].state
    BY <2>3 DEF ExecuteMsg, Runs
  <2>. QED
    BY <2>2, <2>3, <2>4
<1>. HIDE DEF g
<1>8. Replay(run.fork, list, g)
  BY <1>6, <1>7 DEF Replay
<1>9. ExecuteTxs(list, run).state = g[Len(list)]
  <2>1. Len(list) \in 0 .. Len(list)
    BY <1>2
  <2>. QED
    BY <1>1, <2>1 DEF g
<1>. QED
  BY <1>8, <1>9

\* Stages of a request that are equally far.
AsFar(q, r) ==
    /\ q.kind = r.kind /\ q.target = r.target /\ q.state = r.state /\ q.todo = r.todo
    /\ q.step = r.step /\ (~q.excused => ~r.excused)

LEMMA AsFarPast ==
    ASSUME NEW q, NEW r, NEW f, NEW list, NEW g,
           InPast(r, f, list, g), r # Nil, AsFar(q, r)
    PROVE  InPast(q, f, list, g)
<1>. SUFFICES ASSUME q # Nil, q.kind = "trace", ~q.excused
              PROVE  \E i \in 1 .. Len(list) : \E k \in 0 .. i - 1 : Halfway(q, f, list, g, i, k)
  BY DEF InPast
<1>1. PICK i \in 1 .. Len(list) : \E k \in 0 .. i - 1 : Halfway(r, f, list, g, i, k)
  BY Zenon DEF InPast, AsFar
<1>2. PICK k \in 0 .. i - 1 : Halfway(r, f, list, g, i, k)
  BY <1>1
<1>3. Halfway(q, f, list, g, i, k)
  BY <1>2, Zenon DEF Halfway, AsFar
<1>. QED
  BY <1>3

\* All traces are where PastInv wants them.
AllPast(s, f, list, g) == \A d \in Clients : InPast(s[d], f, list, g)

\* A step that leaves the node alone.
LEMMA PastKept ==
    ASSUME PastInv, UNCHANGED <<fork, applied, txs, short, covered>>,
           \A g : Replay(fork, txs, g) /\ AllPast(sim, fork, txs, g) => AllPast(sim', fork, txs, g)
    PROVE  PastInv'
<1>1. fork' = fork /\ applied' = applied /\ txs' = txs /\ short' = short /\ covered' = covered
  OBVIOUS
<1>. SUFFICES ASSUME covered, ~short
              PROVE  \E g : /\ Replay(fork', txs', g) /\ applied' = g[Len(txs')]
                            /\ \A c \in Clients : InPast(sim'[c], fork', txs', g)
  BY <1>1 DEF PastInv
<1>2. PICK g : /\ Replay(fork, txs, g) /\ applied = g[Len(txs)]
               /\ \A c \in Clients : InPast(sim[c], fork, txs, g)
  BY Zenon DEF PastInv
<1>3. AllPast(sim', fork, txs, g)
  BY <1>2, Zenon DEF AllPast
<1>. QED
  BY <1>1, <1>2, <1>3, Zenon DEF AllPast

\* How a step of c may change the requests of others.
LEMMA OthersPast ==
    ASSUME Orderly, NEW c \in Clients, NEW f, NEW list, NEW g, AllPast(sim, f, list, g), NEW tx \in Seen,
           \/ \A d \in Clients \ {c} : sim'[d] = sim[d]
           \/ \A d \in Clients \ {c} : sim'[d] = Captured(tx)[d]
           \/ \A d \in Clients \ {c} : sim'[d] = sim[d] \/ (sim[d] # Nil /\ sim'[d] = Marked(sim[d], TRUE)),
           InPast(sim'[c], f, list, g)
    PROVE  AllPast(sim', f, list, g)
<1>. SUFFICES ASSUME NEW d \in Clients \ {c} PROVE InPast(sim'[d], f, list, g)
  BY DEF AllPast
<1>1. InPast(sim[d], f, list, g)
  BY DEF AllPast
<1>2. CASE sim'[d] = sim[d]
  BY <1>1, <1>2
<1>3. CASE sim'[d] = Captured(tx)[d]
  <2>1. CASE sim[d] = Nil
    <3>1. sim'[d] = Nil
      BY <1>3, <2>1, CapturedAlike, Zenon
    <3>. QED
      BY <3>1 DEF InPast
  <2>2. CASE sim[d] # Nil
    <3>1. Alike(sim'[d], sim[d])
      BY <1>3, <2>2, CapturedAlike, Zenon
    <3>2. AsFar(sim'[d], sim[d])
      BY <3>1, Zenon DEF Alike, AsFar
    <3>. QED
      BY <1>1, <2>2, <3>2, AsFarPast
  <2>. QED
    BY <2>1, <2>2
<1>4. CASE sim[d] # Nil /\ sim'[d] = Marked(sim[d], TRUE)
  <2>. DEFINE q == Marked(sim[d], TRUE)
  <2>1. sim[d] \in Sims
    BY <1>4, Mine
  <2>2. TRUE \in BOOLEAN
    OBVIOUS
  <2>3. /\ q.kind = sim[d].kind /\ q.todo = sim[d].todo
        /\ q.target = sim[d].target /\ q.state = sim[d].state
        /\ q.step = sim[d].step /\ q.excused = sim[d].excused
    BY <2>1, <2>2, MarkedFields, Zenon
  <2>. HIDE DEF q
  <2>4. AsFar(q, sim[d])
    BY <2>3, Zenon DEF AsFar
  <2>5. InPast(q, f, list, g)
    BY <1>1, <1>4, <2>4, AsFarPast
  <2>. QED
    BY <1>4, <2>5 DEF q
<1>. QED
  BY <1>2, <1>3, <1>4

\* A trace that has more to replay.
Onward(r, f, list, g, i, k) ==
    /\ k + 1 \in 0 .. i - 1
    /\ Len(Tail(r.todo)) = i - 1 - (k + 1)
    /\ \A m \in 1 .. Len(Tail(r.todo)) : Tail(r.todo)[m] = list[(k + 1) + m]
    /\ Applies(f, r.state, Head(r.todo)) => g[k + 1] = Append(r.state, Head(r.todo))
    /\ ~Applies(f, r.state, Head(r.todo)) => g[k + 1] = r.state

LEMMA HalfwayNext ==
    ASSUME NEW f \in Nat, NEW list \in Seq(Txs), NEW g, Replay(f, list, g), NEW i \in 1 .. Len(list),
           NEW k \in 0 .. i - 1, NEW r, r.todo \in Seq(Txs), r.todo # <<>>, Halfway(r, f, list, g, i, k)
    PROVE  Onward(r, f, list, g, i, k)
<1>. DEFINE todo == r.todo
<1>1. /\ todo \in Seq(Txs) /\ todo # <<>> /\ Len(todo) = i - 1 - k /\ r.state = g[k]
      /\ \A m \in 1 .. Len(todo) : todo[m] = list[k + m]
  BY DEF Halfway
<1>. HIDE DEF todo
<1>2. Len(todo) \in Nat /\ Len(todo) # 0 /\ Head(todo) = todo[1]
  BY <1>1
<1>3. /\ Tail(todo) \in Seq(Txs) /\ Len(Tail(todo)) = Len(todo) - 1
      /\ \A m \in 1 .. Len(Tail(todo)) : Tail(todo)[m] = todo[m + 1]
  BY <1>1
<1>4. k + 1 \in 0 .. i - 1 /\ k \in Nat /\ k + 1 <= Len(list) /\ 1 \in 1 .. Len(todo)
      /\ i - 1 - (k + 1) = Len(todo) - 1
  BY <1>1, <1>2
<1>5. ASSUME NEW m \in 1 .. Len(Tail(todo))
      PROVE  Tail(todo)[m] = list[(k + 1) + m]
  <2>1. m + 1 \in 1 .. Len(todo) /\ k + (m + 1) = (k + 1) + m
    BY <1>2, <1>3
  <2>. QED
    BY <1>1, <1>3, <2>1
<1>6. Head(todo) = list[k + 1]
  BY <1>1, <1>2, <1>4
<1>7. Stepped(f, list, g, k)
  BY <1>4, ReplayStep
<1>8. /\ Applies(f, r.state, Head(todo)) => g[k + 1] = Append(r.state, Head(todo))
      /\ ~Applies(f, r.state, Head(todo)) => g[k + 1] = r.state
  BY <1>1, <1>6, <1>7, Zenon DEF Stepped
<1>. QED
  BY <1>3, <1>4, <1>5, <1>8 DEF Onward, todo

\* The three steps of ExecuteMsg keep a trace in its past.
LEMMA SkipPast ==
    ASSUME Orderly, NEW c \in Clients, NEW b \in BOOLEAN, Skip(c, b), refilled' = refilled,
           At(c, "replay"), sim[c].todo # <<>>, NEW g, Replay(fork, txs, g),
           InPast(sim[c], fork, txs, g),
           ~b /\ sim[c].kind # "bundle" => ~Applies(fork, sim[c].state, Head(sim[c].todo))
    PROVE  InPast(sim'[c], fork, txs, g)
<1>. DEFINE r == sim[c]
            q == sim'[c]
<1>. SUFFICES ASSUME q # Nil, q.kind = "trace", ~q.excused
              PROVE  \E i \in 1 .. Len(txs) : \E k \in 0 .. i - 1 : Halfway(q, fork, txs, g, i, k)
  BY DEF InPast
<1>1. /\ r # Nil /\ r.step = "replay" /\ r.todo # <<>>
      /\ q = [r EXCEPT !.todo = Tail(@), !.step = AfterMsg(c), !.excused = @ \/ b]
  <2>1. r.step = "replay" /\ r.todo # <<>>
    BY DEF At
  <2>. QED
    BY <2>1, SkipMoves, Zenon
<1>2. r \in Sims /\ Sensible(r)
  BY <1>1, Mine
<1>. HIDE DEF q
<1>3. /\ q.kind = r.kind /\ q.target = r.target /\ q.state = r.state /\ q.todo = Tail(r.todo)
      /\ q.step = AfterMsg(c) /\ ~r.excused /\ ~b
  BY <1>1, <1>2, Zenon DEF Sims
<1>4. r.kind = "trace" /\ AfterMsg(c) = "replay" /\ r.todo \in Seq(Txs)
  <2>1. r.kind = "trace"
    BY <1>3
  <2>. QED
    BY <1>2, <2>1 DEF AfterMsg, Sensible
<1>5. ~Applies(fork, r.state, Head(r.todo))
  <2>1. r.kind # "bundle"
    BY <1>4
  <2>. QED
    BY <1>3, <2>1
<1>6. PICK i \in 1 .. Len(txs) : \E k \in 0 .. i - 1 : Halfway(r, fork, txs, g, i, k)
  BY <1>1, <1>3, <1>4, Zenon DEF InPast
<1>7. PICK k \in 0 .. i - 1 : Halfway(r, fork, txs, g, i, k)
  BY <1>6
<1>8. fork \in Nat /\ txs \in Seq(Txs)
  BY RestOf, GasAssumption DEF RestOK
<1>9. /\ k + 1 \in 0 .. i - 1
      /\ Len(Tail(r.todo)) = i - 1 - (k + 1)
      /\ \A m \in 1 .. Len(Tail(r.todo)) : Tail(r.todo)[m] = txs[(k + 1) + m]
      /\ g[k + 1] = r.state
  <2>1. Onward(r, fork, txs, g, i, k)
    BY <1>1, <1>4, <1>7, <1>8, HalfwayNext
  <2>. QED
    BY <1>5, <2>1, Zenon DEF Onward
<1>10. Halfway(q, fork, txs, g, i, k + 1)
  <2>1. "replay" # "running" /\ "replay" # "call" /\ "replay" # "install"
    OBVIOUS
  <2>2. txs[i] = r.target
    BY <1>7, Zenon DEF Halfway
  <2>. QED
    BY <1>3, <1>4, <1>9, <2>1, <2>2, Zenon DEF Halfway
<1>. QED
  BY <1>9, <1>10

LEMMA RefusePast ==
    ASSUME Orderly, NEW c \in Clients, Refuse(c) \/ Forfeit(c), NEW g, Replay(fork, txs, g),
           InPast(sim[c], fork, txs, g)
    PROVE  InPast(sim'[c], fork, txs, g)
<1>1. refilled' = refilled /\ At(c, "replay") /\ sim[c].todo # <<>>
  BY Zenon DEF Refuse, Forfeit, gasVars
<1>2. CASE Refuse(c)
  <2>1. Skip(c, Replaying(c))
    BY <1>2 DEF Refuse
  <2>2. PICK b \in BOOLEAN : b = Replaying(c)
    BY Zenon DEF Replaying
  <2>3. ~b /\ sim[c].kind # "bundle" => ~Applies(fork, sim[c].state, Head(sim[c].todo))
    BY <1>1, <2>2 DEF Replaying
  <2>4. Skip(c, b)
    BY <2>1, <2>2, Zenon
  <2>. QED
    BY <1>1, <2>3, <2>4, SkipPast, Zenon
<1>3. CASE Forfeit(c)
  <2>1. Skip(c, FALSE)
    BY <1>3 DEF Forfeit
  <2>2. PICK b \in BOOLEAN : b = FALSE
    BY Zenon
  <2>3. ~b /\ sim[c].kind # "bundle" => ~Applies(fork, sim[c].state, Head(sim[c].todo))
    BY <1>3, Zenon DEF Forfeit, Forfeits, Applies
  <2>4. Skip(c, b)
    BY <2>1, <2>2, Zenon
  <2>. QED
    BY <1>1, <2>3, <2>4, SkipPast, Zenon
<1>. QED
  BY <1>2, <1>3

LEMMA SubGasPast ==
    ASSUME Orderly, NEW c \in Clients, SubGas(c), NEW g, Replay(fork, txs, g),
           InPast(sim[c], fork, txs, g)
    PROVE  InPast(sim'[c], fork, txs, g)
<1>. DEFINE r == sim[c]
            q == sim'[c]
<1>. SUFFICES ASSUME q # Nil, q.kind = "trace", ~q.excused
              PROVE  \E i \in 1 .. Len(txs) : \E k \in 0 .. i - 1 : Halfway(q, fork, txs, g, i, k)
  BY DEF InPast
<1>1. r # Nil /\ q = [r EXCEPT !.hold = "present", !.step = "running"]
  BY SubGasMoves, Zenon
<1>2. r \in Sims
  BY <1>1, Mine
<1>. HIDE DEF q
<1>3. /\ q.kind = r.kind /\ q.target = r.target /\ q.state = r.state /\ q.todo = r.todo
      /\ q.step = "running" /\ ~r.excused
  BY <1>1, <1>2, Zenon DEF Sims
<1>4. r.kind = "trace" /\ Applies(fork, r.state, Head(r.todo))
  <2>1. r.kind = "trace"
    BY <1>3
  <2>. QED
    BY <2>1 DEF SubGas, Replaying
<1>6. PICK i \in 1 .. Len(txs) : \E k \in 0 .. i - 1 : Halfway(r, fork, txs, g, i, k)
  BY <1>1, <1>3, <1>4, Zenon DEF InPast
<1>7. PICK k \in 0 .. i - 1 : Halfway(r, fork, txs, g, i, k)
  BY <1>6
<1>8. Halfway(q, fork, txs, g, i, k)
  <2>1. "running" # "call" /\ "running" # "install"
    OBVIOUS
  <2>. QED
    BY <1>3, <1>4, <1>7, <2>1, Zenon DEF Halfway
<1>. QED
  BY <1>8

LEMMA AppliedPast ==
    ASSUME Orderly, NEW c \in Clients, Applied(c), NEW g, Replay(fork, txs, g),
           InPast(sim[c], fork, txs, g)
    PROVE  InPast(sim'[c], fork, txs, g)
<1>. DEFINE r == sim[c]
            q == sim'[c]
<1>. SUFFICES ASSUME q # Nil, q.kind = "trace", ~q.excused
              PROVE  \E i \in 1 .. Len(txs) : \E k \in 0 .. i - 1 : Halfway(q, fork, txs, g, i, k)
  BY DEF InPast
<1>1. /\ r # Nil /\ r.step = "running"
      /\ q = [r EXCEPT !.state = Append(@, Head(sim[c].todo)), !.todo = Tail(@),
                       !.hold = Nil, !.step = AfterMsg(c)]
  <2>1. r.step = "running"
    BY DEF Applied, At
  <2>. QED
    BY <2>1, AppliedMoves, Zenon
<1>2. r \in Sims /\ Sensible(r)
  BY <1>1, Mine
<1>. HIDE DEF q
<1>3. /\ q.kind = r.kind /\ q.target = r.target /\ q.state = Append(r.state, Head(r.todo))
      /\ q.todo = Tail(r.todo) /\ q.step = AfterMsg(c) /\ ~r.excused
  BY <1>1, <1>2, Zenon DEF Sims
<1>4. r.kind = "trace" /\ AfterMsg(c) = "replay" /\ r.todo \in Seq(Txs) /\ r.todo # <<>>
  <2>1. r.kind = "trace"
    BY <1>3
  <2>. QED
    BY <1>1, <1>2, <2>1 DEF AfterMsg, Sensible
<1>6. PICK i \in 1 .. Len(txs) : \E k \in 0 .. i - 1 : Halfway(r, fork, txs, g, i, k)
  BY <1>1, <1>3, <1>4, Zenon DEF InPast
<1>7. PICK k \in 0 .. i - 1 : Halfway(r, fork, txs, g, i, k)
  BY <1>6
<1>8. fork \in Nat /\ txs \in Seq(Txs)
  BY RestOf, GasAssumption DEF RestOK
<1>9. Applies(fork, r.state, Head(r.todo))
  BY <1>1, <1>7, Zenon DEF Halfway
<1>10. /\ k + 1 \in 0 .. i - 1
       /\ Len(Tail(r.todo)) = i - 1 - (k + 1)
       /\ \A m \in 1 .. Len(Tail(r.todo)) : Tail(r.todo)[m] = txs[(k + 1) + m]
       /\ g[k + 1] = Append(r.state, Head(r.todo))
  <2>1. Onward(r, fork, txs, g, i, k)
    BY <1>4, <1>7, <1>8, HalfwayNext
  <2>. QED
    BY <1>9, <2>1, Zenon DEF Onward
<1>11. Halfway(q, fork, txs, g, i, k + 1)
  <2>1. "replay" # "running" /\ "replay" # "call" /\ "replay" # "install"
    OBVIOUS
  <2>2. txs[i] = r.target
    BY <1>7, Zenon DEF Halfway
  <2>. QED
    BY <1>3, <1>4, <1>10, <2>1, <2>2, Zenon DEF Halfway
<1>. QED
  BY <1>10, <1>11

LEMMA SetTracerPast ==
    ASSUME Orderly, NEW c \in Clients, SetTracer(c), NEW g, Replay(fork, txs, g),
           InPast(sim[c], fork, txs, g)
    PROVE  InPast(sim'[c], fork, txs, g)
<1>. DEFINE r == sim[c]
            q == sim'[c]
            b == {d \in Clients \ {c} : Using(d)} # {} /\ sim[c].kind \in Replays
<1>. SUFFICES ASSUME q # Nil, q.kind = "trace", ~q.excused
              PROVE  \E i \in 1 .. Len(txs) : \E k \in 0 .. i - 1 : Halfway(q, fork, txs, g, i, k)
  BY DEF InPast
<1>1. /\ r # Nil /\ q = [r EXCEPT !.step = "call", !.overlapped = b]
      /\ r.step = "install" \/ (r.step = "replay" /\ r.todo = <<>>)
  BY SetTracerMoves, Zenon
<1>2. r \in Sims
  BY <1>1, Mine
<1>. HIDE DEF q, b
<1>3. /\ q.kind = r.kind /\ q.target = r.target /\ q.state = r.state /\ q.todo = r.todo
      /\ q.step = "call" /\ ~r.excused
  BY <1>1, <1>2, Zenon DEF Sims
<1>6. PICK i \in 1 .. Len(txs) : \E k \in 0 .. i - 1 : Halfway(r, fork, txs, g, i, k)
  BY <1>1, <1>3, Zenon DEF InPast
<1>7. PICK k \in 0 .. i - 1 : Halfway(r, fork, txs, g, i, k)
  BY <1>6
<1>8. Halfway(q, fork, txs, g, i, k)
  <2>1. "call" # "running" /\ "call" # "install"
    OBVIOUS
  <2>. QED
    BY <1>1, <1>3, <1>7, <2>1, Zenon DEF Halfway
<1>. QED
  BY <1>8

\* A trace at its end answers with the past of its transaction.
LEMMA AnswerPast ==
    ASSUME Orderly, PastInv, NEW c \in Clients, sim[c] # Nil, sim[c].kind = "trace",
           sim[c].todo = <<>>, ~sim[c].excused, covered, ~short,
           Applies(fork, sim[c].state, sim[c].target)
    PROVE  sim[c].state = PastOf(sim[c].target)
<1>. DEFINE r == sim[c]
<1>1. PICK g : /\ Replay(fork, txs, g) /\ applied = g[Len(txs)]
               /\ \A d \in Clients : InPast(sim[d], fork, txs, g)
  BY Zenon DEF PastInv
<1>2. PICK i \in 1 .. Len(txs) : \E k \in 0 .. i - 1 : Halfway(r, fork, txs, g, i, k)
  BY <1>1, Zenon DEF InPast
<1>3. PICK k \in 0 .. i - 1 : Halfway(r, fork, txs, g, i, k)
  BY <1>2
<1>4. txs[i] = r.target /\ r.state = g[k] /\ Len(r.todo) = i - 1 - k
  BY <1>3 DEF Halfway
<1>5. k = i - 1
  BY <1>4
<1>6. fork \in Nat /\ txs \in Seq(Txs)
  BY RestOf, GasAssumption DEF RestOK
<1>7. Applies(fork, g[i - 1], txs[i])
  BY <1>4, <1>5, Zenon
<1>8. SubSeq(applied, 1, Min({j \in DOMAIN applied : applied[j] = txs[i]}) - 1) = g[i - 1]
  BY <1>1, <1>6, <1>7, PastFound
<1>. QED
  BY <1>4, <1>5, <1>8, Zenon DEF PastOf

\* A step that answers nothing.
LEMMA NoAnswerPast ==
    ASSUME result' = Nil, PastInv'
    PROVE  (PastInv /\ TracedInItsPast)'
BY Zenon DEF TracedInItsPast

\* A step of a simulation.
LEMMA WorkPast ==
    ASSUME Orderly, PastInv, NEW c \in Clients, Work(c)
    PROVE  (PastInv /\ TracedInItsPast)'
<1>. DEFINE Onwards == \A g : Replay(fork, txs, g) /\ AllPast(sim, fork, txs, g) => AllPast(sim', fork, txs, g)
<1>0. <<Nil, Nil>> \in Seen /\ \A g : InPast(Nil, fork, txs, g)
  BY DEF Seen, InPast
<1>1. \A g : AllPast(sim, fork, txs, g) => InPast(sim[c], fork, txs, g)
  BY DEF AllPast
<1>2. ASSUME UNCHANGED <<nodeVars, history>>, Onwards
      PROVE  PastInv'
  BY <1>2, PastKept DEF nodeVars, history
<1>3. ASSUME Moves(c)
      PROVE  UNCHANGED <<nodeVars, history>>
  BY <1>3 DEF Moves
<1>4. ASSUME result' # Nil, result'.state = PastOf(result'.target), UNCHANGED applied
      PROVE  TracedInItsPast'
  <2>1. PastOf(result.target)' = PastOf(result'.target)
    BY <1>4 DEF PastOf
  <2>. QED
    BY <1>4, <2>1, Zenon DEF TracedInItsPast
<1>5. CASE Refuse(c) \/ Forfeit(c)
  <2>1. Moves(c) /\ (\A d \in Clients \ {c} : sim'[d] = sim[d])
    BY <1>5, RefuseMoves, ForfeitMoves, Zenon
  <2>2. Onwards
    BY <1>0, <1>1, <1>5, <2>1, RefusePast, OthersPast
  <2>3. result' = Nil
    BY <1>5 DEF Refuse, Forfeit, Skip
  <2>. QED
    BY <1>2, <1>3, <2>1, <2>2, <2>3, NoAnswerPast
<1>6. CASE SubGas(c)
  <2>1. Moves(c) /\ (\A d \in Clients \ {c} : sim'[d] = sim[d])
    BY <1>6, SubGasMoves, Zenon
  <2>2. Onwards
    BY <1>0, <1>1, <1>6, <2>1, SubGasPast, OthersPast
  <2>3. result' = Nil
    BY <1>6 DEF SubGas
  <2>. QED
    BY <1>2, <1>3, <2>1, <2>2, <2>3, NoAnswerPast
<1>7. CASE Applied(c)
  <2>1. Moves(c) /\ (\A d \in Clients \ {c} : sim'[d] = sim[d])
    BY <1>7, AppliedMoves, Zenon
  <2>2. Onwards
    BY <1>0, <1>1, <1>7, <2>1, AppliedPast, OthersPast
  <2>3. result' = Nil
    BY <1>7 DEF Applied
  <2>. QED
    BY <1>2, <1>3, <2>1, <2>2, <2>3, NoAnswerPast
<1>8. CASE SetTracer(c)
  <2>1. /\ Moves(c) /\ result' = Nil
        /\ \A d \in Clients \ {c} :
             sim'[d] = IF d \in {e \in Clients \ {c} : Using(e)} /\ sim[d].kind \in Replays
                       THEN Marked(sim[d], TRUE) ELSE sim[d]
    BY <1>8, SetTracerMoves, Zenon
  <2>2. \A d \in Clients \ {c} : sim'[d] = sim[d] \/ (sim[d] # Nil /\ sim'[d] = Marked(sim[d], TRUE))
    <3>1. \A d : Using(d) => sim[d] # Nil
      BY Zenon DEF Using, At
    <3>. QED
      BY <2>1, <3>1, Zenon
  <2>3. Onwards
    BY <1>0, <1>1, <1>8, <2>2, SetTracerPast, OthersPast
  <2>. QED
    BY <1>2, <1>3, <2>1, <2>3, NoAnswerPast
<1>9. CASE EstimateCall(c)
  <2>1. /\ Moves(c) /\ result' = Nil /\ sim'[c] = Nil
        /\ \A d \in Clients \ {c} : sim'[d] = Captured(<<Nil, Nil>>)[d]
    BY <1>9, EstimateCallMoves, Zenon
  <2>2. Onwards
    BY <1>0, <2>1, OthersPast
  <2>. QED
    BY <1>2, <1>3, <2>1, <2>2, NoAnswerPast
<1>10. CASE RangeCall(c)
  <2>. DEFINE tx == Head(sim[c].todo)
              p == Captured(tx)[c]
  <2>1. /\ Moves(c) /\ result' = Nil /\ sim[c] # Nil /\ sim[c].kind = "range" /\ tx \in Txs
        /\ \/ /\ sim'[c] = [p EXCEPT !.state = Append(sim[c].state, tx), !.step = "replay"]
              /\ \A d \in Clients \ {c} : sim'[d] = Captured(tx)[d]
           \/ /\ sim'[c] = [sim[c] EXCEPT !.step = "replay"]
              /\ \A d \in Clients \ {c} : sim'[d] = sim[d]
    BY <1>10, RangeCallMoves, Zenon
  <2>2. tx \in Seen /\ sim[c] \in Sims
    BY <2>1, Mine DEF Seen
  <2>3. p \in Sims /\ p.kind = "range"
    BY <2>1, <2>2, CapturedAlike, Zenon DEF Alike
  <2>4. [p EXCEPT !.state = Append(sim[c].state, tx), !.step = "replay"].kind = p.kind
        /\ [sim[c] EXCEPT !.step = "replay"].kind = sim[c].kind
    <3>. HIDE DEF tx, p
    <3>. QED
      BY <2>2, <2>3, Zenon DEF Sims
  <2>. HIDE DEF tx, p
  <2>5. sim'[c].kind = "range" /\ "range" # "trace"
    BY <2>1, <2>3, <2>4
  <2>6. \A g : InPast(sim'[c], fork, txs, g)
    BY <2>5, Zenon DEF InPast
  <2>7. Onwards
    BY <2>1, <2>2, <2>6, OthersPast
  <2>. QED
    BY <1>2, <1>3, <2>1, <2>7, NoAnswerPast
<1>11. CASE RangeReturns(c)
  <2>1. /\ Moves(c) /\ result' = sim[c] /\ sim'[c] = Nil /\ sim[c].kind = "range"
        /\ \A d \in Clients \ {c} : sim'[d] = sim[d]
    BY <1>11, RangeReturnsMoves, Zenon
  <2>2. Onwards
    BY <1>0, <2>1, OthersPast
  <2>3. "range" # "trace"
    OBVIOUS
  <2>4. TracedInItsPast'
    BY <2>1, <2>3, Zenon DEF TracedInItsPast
  <2>. QED
    BY <1>2, <1>3, <2>1, <2>2, <2>4
<1>12. CASE ProbeCall(c)
  <2>. DEFINE r == sim[c]
              q == [r EXCEPT !.ops = <<r.target>>]
  <2>1. /\ Moves(c) /\ sim'[c] = Nil /\ r # Nil /\ r.kind = "trace" /\ r.todo = <<>>
        /\ \A d \in Clients \ {c} : sim'[d] = sim[d]
        /\ (result' = q /\ Applies(fork, r.state, r.target)) \/ result' = Nil
    BY <1>12, ProbeCallMoves, Zenon
  <2>2. Onwards
    BY <1>0, <2>1, OthersPast
  <2>3. PastInv' /\ UNCHANGED <<nodeVars, history>>
    BY <1>2, <1>3, <2>1, <2>2
  <2>4. q.kind = r.kind /\ q.state = r.state /\ q.target = r.target /\ q.excused = r.excused
    <3>1. r \in Sims
      BY <2>1, Mine
    <3>. QED
      BY <3>1, OpsAlike, ZenonT(40) DEF Alike
  <2>. HIDE DEF q
  <2>5. CASE result' = q /\ Applies(fork, r.state, r.target)
    <3>1. ~r.excused /\ covered /\ ~short => q.state = PastOf(q.target)
      BY <2>1, <2>4, <2>5, AnswerPast, Zenon
    <3>2. applied' = applied /\ covered' = covered /\ short' = short
      BY <2>3 DEF nodeVars, history
    <3>3. CASE ~r.excused /\ covered /\ ~short /\ q # Nil
      BY <1>4, <2>3, <2>5, <3>1, <3>2, <3>3
    <3>4. CASE r.excused \/ ~covered \/ short \/ q = Nil
      <4>1. TracedInItsPast'
        BY <2>4, <2>5, <3>2, <3>4, Zenon DEF TracedInItsPast
      <4>. QED
        BY <2>3, <4>1
    <3>. QED
      BY <3>3, <3>4
  <2>6. CASE result' = Nil
    BY <2>3, <2>6, NoAnswerPast
  <2>. QED
    BY <2>1, <2>5, <2>6
<1>13. CASE TraceCall(c)
  <2>. DEFINE r == sim[c]
              q == Captured(r.target)[c]
  <2>1. /\ Moves(c) /\ sim'[c] = Nil /\ r # Nil /\ r.kind = "trace" /\ r.step = "call"
        /\ \/ /\ result' = q /\ Applies(fork, r.state, r.target) /\ r.target \in Seen
              /\ \A d \in Clients \ {c} : sim'[d] = Captured(r.target)[d]
           \/ result' = Nil /\ \A d \in Clients \ {c} : sim'[d] = sim[d]
    BY <1>13, TraceCallMoves, Zenon
  <2>2. Onwards
    <3>. HIDE DEF q
    <3>. QED
      BY <1>0, <2>1, OthersPast
  <2>3. PastInv' /\ UNCHANGED <<nodeVars, history>>
    BY <1>2, <1>3, <2>1, <2>2
  <2>4. CASE result' = q /\ Applies(fork, r.state, r.target) /\ r.target \in Seen
    <3>0. Alike(q, r)
      BY <2>1, <2>4, CapturedAlike, Zenon
    <3>. HIDE DEF q
    <3>1. q.kind = r.kind /\ q.state = r.state /\ q.target = r.target /\ q.excused = r.excused
      BY <3>0, Zenon DEF Alike
    <3>2. applied' = applied /\ covered' = covered /\ short' = short
      BY <2>3 DEF nodeVars, history
    <3>3. CASE ~r.excused /\ covered /\ ~short /\ q # Nil
      <4>1. r.todo = <<>>
        <5>1. PICK g : \A d \in Clients : InPast(sim[d], fork, txs, g)
          BY <3>3, Zenon DEF PastInv
        <5>2. \E i \in 1 .. Len(txs) : \E k \in 0 .. i - 1 : Halfway(r, fork, txs, g, i, k)
          BY <2>1, <3>3, <5>1, Zenon DEF InPast
        <5>. QED
          BY <2>1, <5>2, Zenon DEF Halfway
      <4>2. r.state = PastOf(r.target)
        BY <2>1, <2>4, <3>3, <4>1, AnswerPast, Zenon
      <4>3. q.state = PastOf(q.target)
        BY <3>1, <4>2, Zenon
      <4>. QED
        BY <1>4, <2>3, <2>4, <3>2, <3>3, <4>3
    <3>4. CASE r.excused \/ ~covered \/ short \/ q = Nil
      <4>1. TracedInItsPast'
        BY <2>4, <3>1, <3>2, <3>4, Zenon DEF TracedInItsPast
      <4>. QED
        BY <2>3, <4>1
    <3>. QED
      BY <3>3, <3>4
  <2>5. CASE result' = Nil
    BY <2>3, <2>5, NoAnswerPast
  <2>. QED
    BY <2>1, <2>4, <2>5
<1>. QED
  BY <1>5, <1>6, <1>7, <1>8, <1>9, <1>10, <1>11, <1>12, <1>13 DEF Work

\* The first n members of a list.
LEMMA FirstMembers ==
    ASSUME NEW list \in Seq(Txs), NEW n \in 0 .. Len(list), NEW todo, todo = SubSeq(list, 1, n)
    PROVE  Len(todo) = n /\ \A m \in 1 .. n : todo[m] = list[m]
OBVIOUS

\* A trace arrives with everything that precedes its transaction to do.
LEMMA FreshPast ==
    ASSUME NEW f, NEW list \in Seq(Txs), NEW g, Replay(f, list, g), NEW j \in DOMAIN list,
           NEW todo, todo = SubSeq(list, 1, Min({k \in DOMAIN list : list[k] = list[j]}) - 1)
    PROVE  InPast(Fresh("trace", todo, list[j]), f, list, g)
<1>. DEFINE q == Fresh("trace", todo, list[j])
            i == Min({k \in DOMAIN list : list[k] = list[j]})
<1>1. q.target = list[j] /\ q.state = <<>> /\ q.todo = todo /\ q.step = "replay"
  BY DEF Fresh
<1>2. i \in 1 .. Len(list) /\ list[i] = list[j] /\ i - 1 \in 0 .. Len(list)
  BY BeforeType
<1>. HIDE DEF q, i
<1>3. todo = SubSeq(list, 1, i - 1)
  BY DEF i
<1>4. Len(todo) = i - 1 /\ \A m \in 1 .. Len(todo) : todo[m] = list[m]
  <2>1. i - 1 \in 0 .. Len(list)
    BY <1>2
  <2>2. Len(todo) = i - 1 /\ \A m \in 1 .. i - 1 : todo[m] = list[m]
    BY <1>3, <2>1, FirstMembers, Zenon
  <2>. QED
    BY <2>2, Zenon
<1>5. 0 \in 0 .. i - 1 /\ i - 1 - 0 = i - 1 /\ \A m \in 1 .. Len(todo) : 0 + m = m
  BY <1>2, <1>4
<1>6. g[0] = <<>> /\ "replay" # "running" /\ "replay" # "call" /\ "replay" # "install"
  BY DEF Replay
<1>7. Halfway(q, f, list, g, i, 0)
  BY <1>1, <1>2, <1>4, <1>5, <1>6, Zenon DEF Halfway
<1>. QED
  BY <1>2, <1>5, <1>7, Zenon DEF InPast, q

LEMMA ArrivePast ==
    ASSUME Orderly, PastInv, NEW c \in Clients, Arrive(c), ~TraceTransactionBundle(c)
    PROVE  (PastInv /\ TracedInItsPast)'
<1>1. PICK kind \in {"trace", "range", "estimate"}, list \in Seq(Txs), target \in Txs \cup {Nil} :
           /\ kind = "trace" => /\ \E j \in DOMAIN txs : target = txs[j]
                                /\ list = Before(target) /\ target \in Txs
           /\ kind = "range" => list = txs /\ target \in Txs
           /\ sim[c] = Nil
           /\ Start(c, kind, list, target, sim) /\ result' = Nil
           /\ UNCHANGED <<nodeVars, gasVars, tracer, history>>
  BY ArrivesWith, Zenon
<1>2. kind \in Replays => target \in Txs
  BY <1>1 DEF Replays
<1>3. Moves(c) /\ sim'[c] = Fresh(kind, list, target) /\ \A d \in Clients \ {c} : sim'[d] = sim[d]
  BY <1>1, <1>2, ArriveMoves
<1>4. txs \in Seq(Txs)
  BY RestOf DEF RestOK
<1>5. ASSUME NEW g, Replay(fork, txs, g)
      PROVE  InPast(sim'[c], fork, txs, g)
  <2>1. CASE kind = "trace"
    <3>1. PICK j \in DOMAIN txs : target = txs[j]
      BY <1>1, <2>1
    <3>2. list = SubSeq(txs, 1, Min({k \in DOMAIN txs : txs[k] = txs[j]}) - 1)
      BY <1>1, <2>1, <3>1 DEF Before
    <3>3. InPast(Fresh("trace", list, txs[j]), fork, txs, g)
      BY <1>4, <1>5, <3>2, FreshPast
    <3>. QED
      BY <1>3, <2>1, <3>1, <3>3, Zenon
  <2>2. CASE kind # "trace"
    <3>1. sim'[c].kind = kind
      BY <1>3 DEF Fresh
    <3>. QED
      BY <2>2, <3>1, Zenon DEF InPast
  <2>. QED
    BY <2>1, <2>2
<1>6. <<Nil, Nil>> \in Seen
  BY DEF Seen
<1>7. \A g : Replay(fork, txs, g) /\ AllPast(sim, fork, txs, g) => AllPast(sim', fork, txs, g)
  BY <1>3, <1>5, <1>6, OthersPast
<1>8. UNCHANGED <<fork, applied, txs, short, covered>>
  BY <1>1 DEF nodeVars, history
<1>9. PastInv'
  BY <1>7, <1>8, PastKept
<1>. QED
  BY <1>1, <1>9, NoAnswerPast

LEMMA BundlePast ==
    ASSUME Orderly, PastInv, NEW c \in Clients, TraceTransactionBundle(c), result' = Nil
    PROVE  (PastInv /\ TracedInItsPast)'
<1>1. /\ sim'[c] = Fresh("bundle", <<Nil>>, Nil)
      /\ UNCHANGED <<nodeVars, tracer, history>>
      /\ \A d \in Clients \ {c} : sim'[d] = Detached(FALSE)[d]
  BY BundleOrderly, Zenon
<1>2. UNCHANGED <<fork, applied, txs, short, covered>>
  BY <1>1 DEF nodeVars, history
<1>3. ASSUME NEW g, AllPast(sim, fork, txs, g)
      PROVE  AllPast(sim', fork, txs, g)
  <2>1. InPast(sim'[c], fork, txs, g)
    <3>1. sim'[c].kind = "bundle" /\ "bundle" # "trace"
      BY <1>1 DEF Fresh
    <3>. QED
      BY <3>1, Zenon DEF InPast
  <2>2. ASSUME NEW d \in Clients \ {c}
        PROVE  InPast(sim'[d], fork, txs, g)
    <3>. DEFINE q == Detached(FALSE)[d]
    <3>0. FALSE \in BOOLEAN
      OBVIOUS
    <3>1. CASE sim[d] = Nil
      <4>1. sim'[d] = Nil
        BY <1>1, <3>0, <3>1, DetachedGoes, Zenon
      <4>. QED
        BY <4>1 DEF InPast
    <3>2. CASE sim[d] # Nil
      <4>1. /\ q.kind = sim[d].kind /\ q.step = sim[d].step
            /\ q.todo = sim[d].todo /\ q.state = sim[d].state /\ q.target = sim[d].target
            /\ q.excused = (sim[d].excused \/ (FALSE /\ sim[d].kind \in Replays))
        BY <3>0, <3>2, DetachedGoes, Zenon
      <4>. HIDE DEF q
      <4>2. AsFar(q, sim[d])
        BY <4>1, Zenon DEF AsFar
      <4>3. InPast(sim[d], fork, txs, g)
        BY <1>3 DEF AllPast
      <4>4. InPast(q, fork, txs, g)
        BY <3>2, <4>2, <4>3, AsFarPast
      <4>. QED
        BY <1>1, <4>4 DEF q
    <3>. QED
      BY <3>1, <3>2
  <2>. QED
    BY <2>1, <2>2 DEF AllPast
<1>4. PastInv'
  BY <1>2, <1>3, PastKept
<1>. QED
  BY <1>4, NoAnswerPast

\* A transaction joins the pool and, if it can, the state.
LEMMA SendPast ==
    ASSUME Orderly, PastInv, NEW tx \in Txs, Send(tx), result' = Nil
    PROVE  (PastInv /\ TracedInItsPast)'
<1>. DEFINE run == [fork |-> fork, state |-> applied, gas |-> gas, forfeited |-> forfeited, short |-> short]
            ran == ExecuteMsg(run, tx)
<1>1. RestOK
  BY RestOf
<1>2. run \in Runs /\ run.short = short /\ run.state = applied /\ run.fork = fork
  BY <1>1, Zenon DEF RestOK, Runs
<1>3. /\ txs' = Append(txs, tx) /\ applied' = ran.state /\ short' = ran.short
      /\ fork' = fork /\ sim' = sim /\ covered' = covered
  BY DEF Send
<1>. HIDE DEF run, ran
<1>4. ~ran.short => /\ ~run.short
                    /\ ran.state = IF Applies(fork, applied, tx) THEN Append(applied, tx) ELSE applied
  <2>1. ran = ExecuteMsg(run, tx)
    BY DEF ran
  <2>. QED
    BY <1>2, <2>1 DEF ExecuteMsg, Runs
<1>5. PastInv'
  <2>. SUFFICES ASSUME covered, ~ran.short
                PROVE  \E h : /\ Replay(fork', txs', h) /\ applied' = h[Len(txs')]
                              /\ \A c \in Clients : InPast(sim'[c], fork', txs', h)
    BY <1>3 DEF PastInv
  <2>1. PICK g : /\ Replay(fork, txs, g) /\ applied = g[Len(txs)]
                 /\ \A c \in Clients : InPast(sim[c], fork, txs, g)
    BY <1>2, <1>4, Zenon DEF PastInv
  <2>2. txs \in Seq(Txs)
    BY <1>1 DEF RestOK
  <2>a. PICK h : Longer(fork, txs, g, tx, h)
    BY <2>1, <2>2, ReplayAppend
  <2>3. /\ Replay(fork, Append(txs, tx), h)
        /\ \A n \in 0 .. Len(txs) : h[n] = g[n]
        /\ h[Len(Append(txs, tx))] = LET s == g[Len(txs)]
                                     IN  IF Applies(fork, s, tx) THEN Append(s, tx) ELSE s
    BY <2>a, Zenon DEF Longer
  <2>4. applied' = h[Len(txs')]
    BY <1>3, <1>4, <2>1, <2>3, Zenon
  <2>5. ASSUME NEW c \in Clients
        PROVE  InPast(sim[c], fork, Append(txs, tx), h)
    <3>. SUFFICES ASSUME sim[c] # Nil, sim[c].kind = "trace", ~sim[c].excused
                  PROVE  \E i \in 1 .. Len(Append(txs, tx)) : \E k \in 0 .. i - 1 :
                           Halfway(sim[c], fork, Append(txs, tx), h, i, k)
      BY DEF InPast
    <3>1. PICK i \in 1 .. Len(txs) : \E k \in 0 .. i - 1 : Halfway(sim[c], fork, txs, g, i, k)
      BY <2>1, Zenon DEF InPast
    <3>2. PICK k \in 0 .. i - 1 : Halfway(sim[c], fork, txs, g, i, k)
      BY <3>1
    <3>. DEFINE r == sim[c]
    <3>3. /\ txs[i] = r.target /\ r.state = g[k] /\ Len(r.todo) = i - 1 - k
          /\ \A m \in 1 .. Len(r.todo) : r.todo[m] = txs[k + m]
      BY <3>2 DEF Halfway
    <3>4. /\ i \in 1 .. Len(Append(txs, tx)) /\ k \in 0 .. Len(txs)
          /\ \A n \in 1 .. Len(txs) : Append(txs, tx)[n] = txs[n]
      BY <2>2
    <3>5. \A m \in 1 .. Len(r.todo) : k + m \in 1 .. Len(txs)
      BY <2>2, <3>3
    <3>6. \A m \in 1 .. Len(r.todo) : r.todo[m] = Append(txs, tx)[k + m]
      BY <3>3, <3>4, <3>5
    <3>7. Append(txs, tx)[i] = r.target /\ r.state = h[k]
      BY <2>3, <3>3, <3>4
    <3>8. Halfway(r, fork, Append(txs, tx), h, i, k)
      BY <3>2, <3>6, <3>7, Zenon DEF Halfway
    <3>. QED
      BY <3>4, <3>8
  <2>. QED
    BY <1>3, <2>3, <2>4, <2>5, Zenon
<1>. QED
  BY <1>5, NoAnswerPast

\* After a reset no trace is owed anything, and the pool is what was run.
LEMMA ResetPast ==
    ASSUME Orderly, NEW list \in Seq(Txs), NEW f \in 0 .. MaxFork, ResetAnd(list, f),
           sim' = Detached(TRUE), result' = Nil, covered' => txs' = list
    PROVE  (PastInv /\ TracedInItsPast)'
<1>. DEFINE run == [fork |-> f, state |-> <<>>, gas |-> GasLimit, forfeited |-> 0, short |-> FALSE]
            ran == ExecuteTxs(list, run)
<1>1. run \in Runs /\ run.state = <<>> /\ run.fork = f
  <2>1. <<>> \in Seq(Txs) /\ GasLimit \in Nat
    BY GasAssumption
  <2>. QED
    BY <2>1, Zenon DEF Runs
<1>2. fork' = f /\ applied' = ran.state /\ short' = ran.short
  BY DEF ResetAnd
<1>. HIDE DEF run
<1>3. ~ran.short => \E g : Replay(f, list, g) /\ ran.state = g[Len(list)]
  BY <1>1, ExecuteTxsReplay
<1>. HIDE DEF ran
<1>4. \A c \in Clients : \A g : InPast(sim'[c], fork', txs', g)
  <2>. SUFFICES ASSUME NEW c \in Clients, NEW g, sim'[c] # Nil, sim'[c].kind = "trace"
                PROVE  sim'[c].excused
    BY Zenon DEF InPast
  <2>1. TRUE \in BOOLEAN /\ "trace" \in Replays
    BY DEF Replays
  <2>2. sim[c] # Nil
    BY <2>1, DetachedGoes, Zenon
  <2>3. sim'[c].kind = sim[c].kind /\ sim'[c].excused = (sim[c].excused \/ (TRUE /\ sim[c].kind \in Replays))
    BY <2>1, <2>2, DetachedGoes, Zenon
  <2>. QED
    BY <2>1, <2>3, Zenon
<1>5. PastInv'
  <2>. SUFFICES ASSUME covered', ~ran.short
                PROVE  \E g : /\ Replay(fork', txs', g) /\ applied' = g[Len(txs')]
                              /\ \A c \in Clients : InPast(sim'[c], fork', txs', g)
    BY <1>2 DEF PastInv
  <2>1. txs' = list
    OBVIOUS
  <2>. QED
    BY <1>2, <1>3, <1>4, <2>1, Zenon
<1>. QED
  BY <1>5, NoAnswerPast

LEMMA NodePast ==
    ASSUME Orderly, PastInv, Node
    PROVE  (PastInv /\ TracedInItsPast)'
<1>1. RestOK /\ result' = Nil
  BY RestOf DEF Node
<1>2. fork \in Nat /\ applied \in Seq(Txs) /\ txs \in Seq(Txs) /\ fork \in 0 .. MaxFork
      /\ <<>> \in Seq(Txs)
  BY <1>1, GasAssumption DEF RestOK
<1>3. ASSUME NEW a \in Accounts, Send(<<a, GetNonce(fork, applied, a)>>)
      PROVE  (PastInv /\ TracedInItsPast)'
  <2>1. <<a, GetNonce(fork, applied, a)>> \in Txs
    BY <1>2, NonceType DEF Txs
  <2>. QED
    BY <1>1, <1>3, <2>1, SendPast
<1>4. ASSUME NEW a \in Accounts, Send(<<a, 1>>)
      PROVE  (PastInv /\ TracedInItsPast)'
  <2>1. <<a, 1>> \in Txs
    BY DEF Txs
  <2>. QED
    BY <1>1, <1>4, <2>1, SendPast
<1>5. ASSUME NEW f \in Later, ResetState(f) \/ ReExecTxPool(f)
      PROVE  (PastInv /\ TracedInItsPast)'
  <2>1. f \in 0 .. MaxFork
    BY <1>2, GasAssumption DEF Later
  <2>2. CASE ResetState(f)
    <3>1. ResetAnd(<<>>, f) /\ sim' = Detached(TRUE) /\ (covered' => txs' = <<>>)
      BY <2>2 DEF ResetState
    <3>. QED
      BY <1>1, <1>2, <2>1, <3>1, ResetPast
  <2>3. CASE ReExecTxPool(f)
    <3>1. ResetAnd(txs, f) /\ sim' = Detached(TRUE) /\ (covered' => txs' = txs)
      BY <2>3 DEF ReExecTxPool
    <3>. QED
      BY <1>1, <1>2, <2>1, <3>1, ResetPast
  <2>. QED
    BY <1>5, <2>2, <2>3
<1>6. CASE ClearTxPool
  <2>1. ResetAnd(<<>>, fork) /\ sim' = Detached(TRUE) /\ (covered' => txs' = <<>>)
    BY <1>6 DEF ClearTxPool
  <2>. QED
    BY <1>1, <1>2, <2>1, ResetPast
<1>7. ASSUME NEW f \in TraceForks, TraceBlocks(f)
      PROVE  (PastInv /\ TracedInItsPast)'
  <2>1. f \in 0 .. MaxFork
    BY GasAssumption
  <2>2. ResetAnd(<<>>, f) /\ sim' = Detached(TRUE) /\ (covered' => txs' = <<>>)
    BY <1>7 DEF TraceBlocks, ResetState
  <2>. QED
    BY <1>1, <1>2, <2>1, <2>2, ResetPast
<1>. QED
  BY <1>3, <1>4, <1>5, <1>6, <1>7 DEF Node

LEMMA PastAlways ==
    Spec => [](PastInv /\ TracedInItsPast)
<1>1. Init => PastInv /\ TracedInItsPast
  <2>. SUFFICES ASSUME Init PROVE PastInv /\ TracedInItsPast
    OBVIOUS
  <2>1. applied = <<>> /\ txs = <<>> /\ result = Nil /\ \A c \in Clients : sim[c] = Nil
    BY DEF Init
  <2>. DEFINE g == [n \in 0 .. 0 |-> <<>>]
  <2>2. Replay(fork, txs, g) /\ applied = g[Len(txs)]
    BY <2>1 DEF Replay
  <2>. HIDE DEF g
  <2>3. \A c \in Clients : InPast(sim[c], fork, txs, g)
    BY <2>1, Zenon DEF InPast
  <2>4. PastInv
    BY <2>2, <2>3, Zenon DEF PastInv
  <2>. QED
    BY <2>1, <2>4, Zenon DEF TracedInItsPast
<1>2. Orderly /\ (PastInv /\ TracedInItsPast) /\ [Next]_vars => (PastInv /\ TracedInItsPast)'
  <2>. SUFFICES ASSUME Orderly, PastInv, TracedInItsPast, [Next]_vars
                PROVE  (PastInv /\ TracedInItsPast)'
    OBVIOUS
  <2>1. CASE Node
    BY <2>1, NodePast
  <2>2. ASSUME NEW c \in Clients, Arrive(c) PROVE (PastInv /\ TracedInItsPast)'
    <3>1. result' = Nil
      BY <2>2 DEF Arrive
    <3>. QED
      BY <2>2, <3>1, BundlePast, ArrivePast
  <2>3. ASSUME NEW c \in Clients, Work(c) PROVE (PastInv /\ TracedInItsPast)'
    BY <2>3, WorkPast
  <2>4. CASE UNCHANGED vars
    <3>1. UNCHANGED <<fork, applied, txs, short, covered>> /\ sim' = sim /\ result' = result
      BY <2>4 DEF vars, nodeVars, history
    <3>2. PastInv'
      BY <3>1, PastKept
    <3>3. TracedInItsPast'
      BY <3>1 DEF TracedInItsPast, PastOf
    <3>. QED
      BY <3>2, <3>3
  <2>. QED
    BY <2>1, <2>2, <2>3, <2>4 DEF Next
<1>. QED
  BY <1>1, <1>2, GasAlways, PTL DEF Spec

\* A transaction of the node's state is traced, and probed, in the state in
\* which the node executed it, for any pool, although the trace replays the
\* pool message by message next to everything else.
THEOREM TraceFaithful == Spec => []TracedInItsPast
BY PastAlways, PTL
=============================================================================
