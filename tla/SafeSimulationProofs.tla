------------------------- MODULE SafeSimulationProofs -------------------------
(***************************************************************************)
(* Proofs about SafeSimulation, for every Safe, every list of owners, any  *)
(* pool of calls and every bound: what is packed is read back unchanged    *)
(* (BuildTransactions against MultiSend), owners are sorted (sort.Slice),  *)
(* and what mfer_simulateSafeExec returns is what it says.                 *)
(***************************************************************************)
EXTENDS SafeSimulation, InductionLemmas

-----------------------------------------------------------------------------
(* Sorting the participants. *)

\* Positions in an order that makes the list ascend.
Ascends(list, n, p) ==
    /\ p \in [1 .. n -> 1 .. n]
    /\ \A i, j \in 1 .. n : p[i] = p[j] => i = j
    /\ \A t \in 1 .. n : \E i \in 1 .. n : p[i] = t
    /\ \A i, j \in 1 .. n : i < j => list[p[i]] <= list[p[j]]

\* One more address is put behind those that are not greater.
LEMMA Insertion ==
    ASSUME NEW n \in Nat, NEW list \in [1 .. n + 1 -> Nat], NEW p, Ascends(list, n, p)
    PROVE  \E q : Ascends(list, n + 1, q)
<1>. DEFINE x == list[n + 1]
            K == {k \in 0 .. n : \A i \in 1 .. k : list[p[i]] <= x}
<1>0. /\ p \in [1 .. n -> 1 .. n]
      /\ \A i, j \in 1 .. n : p[i] = p[j] => i = j
      /\ \A t \in 1 .. n : \E i \in 1 .. n : p[i] = t
      /\ \A i, j \in 1 .. n : i < j => list[p[i]] <= list[p[j]]
  BY DEF Ascends
<1>1. K \subseteq 0 .. n /\ 0 \in K
  OBVIOUS
<1>2. PICK k \in K : \A m \in K : m <= k
  <2>. HIDE DEF K
  <2>. QED
    BY <1>1, GreatestBounded
<1>3. k \in 0 .. n /\ (\A i \in 1 .. k : list[p[i]] <= x) /\ x \in Nat
  BY <1>2
<1>4. ASSUME NEW j \in 1 .. n PROVE p[j] \in 1 .. n /\ p[j] \in 1 .. n + 1 /\ p[j] # n + 1 /\ list[p[j]] \in Nat
  <2>1. p[j] \in 1 .. n
    BY <1>0
  <2>2. p[j] \in 1 .. n + 1 /\ p[j] # n + 1
    BY <2>1
  <2>. QED
    BY <2>1, <2>2
<1>5. \A j \in k + 1 .. n : x <= list[p[j]]
  <2>. SUFFICES ASSUME NEW j \in k + 1 .. n PROVE x <= list[p[j]]
    OBVIOUS
  <2>1. k + 1 \in 0 .. n /\ ~(k + 1 <= k) /\ k + 1 \in 1 .. n /\ j \in 1 .. n
    BY <1>3
  <2>2. k + 1 \notin K
    BY <1>2, <2>1
  <2>3. \E i \in 1 .. k + 1 : ~(list[p[i]] <= x)
    BY <2>1, <2>2
  <2>4. ~(list[p[k + 1]] <= x)
    BY <1>3, <2>3
  <2>5. list[p[k + 1]] <= list[p[j]]
    <3>1. CASE j = k + 1
      BY <1>4, <2>1, <3>1
    <3>2. CASE j # k + 1
      <4>1. k + 1 < j
        BY <1>3, <3>2
      <4>. QED
        BY <1>0, <2>1, <4>1
    <3>. QED
      BY <3>1, <3>2
  <2>. QED
    BY <1>3, <1>4, <2>1, <2>4, <2>5
<1>. DEFINE q == [i \in 1 .. n + 1 |-> IF i <= k THEN p[i] ELSE IF i = k + 1 THEN n + 1 ELSE p[i - 1]]
<1>. HIDE DEF K
<1>6. \A i \in 1 .. n + 1 : /\ i <= k => q[i] = p[i] /\ i \in 1 .. n
                            /\ i = k + 1 => q[i] = n + 1
                            /\ i > k + 1 => q[i] = p[i - 1] /\ i - 1 \in k + 1 .. n /\ i - 1 \in 1 .. n
  BY <1>3
<1>7. q \in [1 .. n + 1 -> 1 .. n + 1]
  BY <1>0, <1>3, <1>4
<1>. HIDE DEF q
<1>8. ASSUME NEW i \in 1 .. n + 1, NEW j \in 1 .. n + 1, q[i] = q[j] PROVE i = j
  <2>1. \A m \in 1 .. n + 1 : q[m] = n + 1 <=> m = k + 1
    BY <1>3, <1>4, <1>6
  <2>2. CASE i = k + 1 \/ j = k + 1
    BY <1>8, <2>1, <2>2
  <2>3. CASE i # k + 1 /\ j # k + 1
    <3>. DEFINE Old(m) == IF m <= k THEN m ELSE m - 1
    <3>1. ASSUME NEW m \in {i, j} PROVE Old(m) \in 1 .. n /\ q[m] = p[Old(m)]
      <4>1. m \in 1 .. n + 1 /\ m # k + 1
        BY <2>3
      <4>2. CASE m <= k
        BY <1>6, <4>1, <4>2
      <4>3. CASE ~(m <= k)
        <5>1. m > k + 1
          BY <1>3, <4>1, <4>3
        <5>. QED
          BY <1>6, <4>1, <4>3, <5>1
      <4>. QED
        BY <4>2, <4>3
    <3>2. Old(i) = Old(j)
      BY <1>0, <1>8, <3>1
    <3>. QED
      BY <1>3, <2>3, <3>2
  <2>. QED
    BY <2>2, <2>3
<1>9. ASSUME NEW t \in 1 .. n + 1 PROVE \E i \in 1 .. n + 1 : q[i] = t
  <2>1. CASE t = n + 1
    <3>1. k + 1 \in 1 .. n + 1
      BY <1>3
    <3>. QED
      BY <1>6, <2>1, <3>1
  <2>2. CASE t # n + 1
    <3>1. t \in 1 .. n
      BY <2>2
    <3>2. PICK s \in 1 .. n : p[s] = t
      BY <1>0, <3>1
    <3>3. CASE s <= k
      <4>1. s \in 1 .. n + 1
        OBVIOUS
      <4>. QED
        BY <1>6, <3>2, <3>3, <4>1
    <3>4. CASE ~(s <= k)
      <4>1. s + 1 \in 1 .. n + 1 /\ s + 1 > k + 1 /\ (s + 1) - 1 = s
        BY <1>3, <3>4
      <4>. QED
        BY <1>6, <3>2, <4>1
    <3>. QED
      BY <3>3, <3>4
  <2>. QED
    BY <2>1, <2>2
<1>10. ASSUME NEW i \in 1 .. n + 1, NEW j \in 1 .. n + 1, i < j PROVE list[q[i]] <= list[q[j]]
  <2>1. CASE j <= k
    <3>1. i <= k /\ q[i] = p[i] /\ q[j] = p[j] /\ i \in 1 .. n /\ j \in 1 .. n
      BY <1>3, <1>6, <1>10, <2>1
    <3>. QED
      BY <1>0, <1>10, <3>1
  <2>2. CASE j = k + 1
    <3>1. i <= k /\ i \in 1 .. k
      BY <1>3, <1>10, <2>2
    <3>2. q[i] = p[i] /\ q[j] = n + 1
      BY <1>6, <2>2, <3>1
    <3>. QED
      BY <1>3, <3>1, <3>2
  <2>3. CASE j > k + 1
    <3>1. q[j] = p[j - 1] /\ j - 1 \in k + 1 .. n /\ j - 1 \in 1 .. n
      BY <1>6, <2>3
    <3>2. CASE i <= k
      <4>1. q[i] = p[i] /\ i \in 1 .. n /\ i < j - 1
        BY <1>3, <1>6, <2>3, <3>2
      <4>2. list[p[i]] <= list[p[j - 1]]
        BY <1>0, <3>1, <4>1
      <4>. QED
        BY <3>1, <4>1, <4>2
    <3>3. CASE i = k + 1
      BY <1>5, <1>6, <3>1, <3>3
    <3>4. CASE i > k + 1
      <4>1. q[i] = p[i - 1] /\ i - 1 \in 1 .. n /\ i - 1 < j - 1
        BY <1>3, <1>6, <1>10, <2>3, <3>4
      <4>2. list[p[i - 1]] <= list[p[j - 1]]
        BY <1>0, <3>1, <4>1
      <4>. QED
        BY <3>1, <4>1, <4>2
    <3>. QED
      BY <1>3, <3>2, <3>3, <3>4
  <2>. QED
    BY <1>3, <2>1, <2>2, <2>3
<1>. QED
  BY <1>7, <1>8, <1>9, <1>10 DEF Ascends

\* Every list can be sorted.
LEMMA Sortable ==
    ASSUME NEW n \in Nat, NEW list \in [1 .. n -> Nat]
    PROVE  \E p : Ascends(list, n, p)
<1>. DEFINE S == {m \in Nat : \A f \in [1 .. m -> Nat] : \E p : Ascends(f, m, p)}
<1>1. 0 \in S
  <2>1. ASSUME NEW f \in [1 .. 0 -> Nat] PROVE Ascends(f, 0, [i \in 1 .. 0 |-> 0])
    BY DEF Ascends
  <2>. QED
    BY <2>1
<1>2. ASSUME NEW m \in Nat, m \in S PROVE m + 1 \in S
  <2>. SUFFICES ASSUME NEW f \in [1 .. m + 1 -> Nat] PROVE \E p : Ascends(f, m + 1, p)
    OBVIOUS
  <2>. DEFINE g == [i \in 1 .. m |-> f[i]]
  <2>1. g \in [1 .. m -> Nat]
    OBVIOUS
  <2>2. PICK p : Ascends(g, m, p)
    BY <1>2, <2>1
  <2>3. Ascends(f, m, p)
    <3>1. \A i \in 1 .. m : p[i] \in 1 .. m /\ g[p[i]] = f[p[i]]
      BY <2>2 DEF Ascends
    <3>. HIDE DEF g
    <3>. QED
      BY <2>2, <3>1 DEF Ascends
  <2>. QED
    BY <2>3, Insertion
<1>3. n \in S
  <2>. HIDE DEF S
  <2>. QED
    BY <1>1, <1>2, SetInduction
<1>. QED
  BY <1>3

Ascending(s) == \A i, j \in 1 .. Len(s) : i < j => s[i] <= s[j]

\* What GenSafeCalldataWithApproveHash leaves in the caller's slice.
LEMMA SortedIs ==
    ASSUME NEW T, T \subseteq Nat, NEW list \in Seq(T)
    PROVE  /\ Sorted(list) \in Seq(T) /\ Len(Sorted(list)) = Len(list)
           /\ Ascending(Sorted(list))
<1>. DEFINE n == Len(list)
            C == {[i \in DOMAIN list |-> list[p[i]]] : p \in Bijection(DOMAIN list, DOMAIN list)}
            Asc(s) == \A i, j \in DOMAIN list : i < j => s[i] <= s[j]
<1>1. n \in Nat /\ DOMAIN list = 1 .. n /\ list \in [1 .. n -> T] /\ list \in [1 .. n -> Nat]
  <2>1. n \in Nat /\ DOMAIN list = 1 .. n /\ list \in [1 .. n -> T]
    OBVIOUS
  <2>. QED
    BY <2>1
<1>2. PICK p : Ascends(list, n, p)
  <2>. HIDE DEF n
  <2>. QED
    BY <1>1, Sortable
<1>3. p \in Bijection(DOMAIN list, DOMAIN list)
  BY <1>1, <1>2 DEF Ascends, Bijection, Injection, Surjection, IsInjective
<1>4. [i \in DOMAIN list |-> list[p[i]]] \in C
  BY <1>3
<1>5. Asc([i \in DOMAIN list |-> list[p[i]]])
  BY <1>1, <1>2 DEF Ascends
<1>6. Sorted(list) \in C /\ Asc(Sorted(list))
  <2>1. Sorted(list) = CHOOSE s \in C : Asc(s)
    BY DEF Sorted
  <2>2. \E s \in C : Asc(s)
    BY <1>4, <1>5
  <2>. HIDE DEF C, Asc
  <2>. QED
    BY <2>1, <2>2
<1>7. PICK r \in Bijection(DOMAIN list, DOMAIN list) : Sorted(list) = [i \in DOMAIN list |-> list[r[i]]]
  BY <1>6
<1>8. r \in [1 .. n -> 1 .. n]
  BY <1>1 DEF Bijection, Injection
<1>9. Sorted(list) \in [1 .. n -> T]
  BY <1>1, <1>7, <1>8
<1>10. Sorted(list) \in Seq(T) /\ Len(Sorted(list)) = n
  BY <1>1, <1>9
<1>. QED
  BY <1>1, <1>6, <1>10 DEF Ascending

-----------------------------------------------------------------------------
(* Packing the pool, and reading it back. *)

LEMMA LenType == ASSUME NEW T, NEW s \in Seq(T) PROVE Len(s) \in Nat
OBVIOUS

LEMMA SeqEta ==
    ASSUME NEW T, NEW s \in Seq(T), NEW n \in Nat, Len(s) = n
    PROVE  s = [x \in 1 .. n |-> s[x]]
OBVIOUS

\* Two sequences, one behind the other.
Joined(a, b, T, c) ==
    /\ Len(a) \in Nat /\ Len(b) \in Nat
    /\ c \in Seq(T) /\ Len(c) = Len(a) + Len(b)
    /\ \A i \in 1 .. Len(a) : c[i] = a[i]
    /\ \A i \in 1 .. Len(b) : c[Len(a) + i] = b[i]

LEMMA ConcatIs ==
    ASSUME NEW T, NEW a \in Seq(T), NEW b \in Seq(T)
    PROVE  Joined(a, b, T, a \o b)
<1>1. Len(a) \in Nat /\ Len(b) \in Nat
  OBVIOUS
<1>2. a \o b \in Seq(T) /\ Len(a \o b) = Len(a) + Len(b)
  OBVIOUS
<1>3. \A i \in 1 .. Len(a) : (a \o b)[i] = a[i]
  OBVIOUS
<1>4. \A i \in 1 .. Len(b) : (a \o b)[Len(a) + i] = b[i]
  OBVIOUS
<1>. QED
  BY <1>1, <1>2, <1>3, <1>4 DEF Joined

\* Calls that BuildTransaction can pack: they have a To.
Packable == [to : Nat, value : Nat, data : Seq(Nat)]

\* A record is four words and the data.
LEMMA BuildTransactionIs ==
    ASSUME NEW tx \in Packable
    PROVE  /\ BuildTransaction(tx) \in Seq(Nat)
           /\ Len(BuildTransaction(tx)) = 4 + Len(tx.data)
           /\ BuildTransaction(tx)[2] = tx.to /\ BuildTransaction(tx)[3] = tx.value
           /\ BuildTransaction(tx)[4] = Len(tx.data)
           /\ \A j \in 1 .. Len(tx.data) : BuildTransaction(tx)[4 + j] = tx.data[j]
<1>1. tx.to \in Nat /\ tx.value \in Nat /\ tx.data \in Seq(Nat) /\ Len(tx.data) \in Nat
  BY DEF Packable
<1>. DEFINE head == <<0, tx.to, tx.value, Len(tx.data)>>
            data == tx.data
<1>2. /\ head \in Seq(Nat) /\ Len(head) = 4
      /\ head[2] = tx.to /\ head[3] = tx.value /\ head[4] = Len(tx.data)
  BY <1>1
<1>3. data \in Seq(Nat)
  BY <1>1
<1>4. BuildTransaction(tx) = head \o data
  BY DEF BuildTransaction
<1>. HIDE DEF head, data
<1>5. /\ head \o data \in Seq(Nat) /\ Len(head \o data) = 4 + Len(data)
      /\ \A j \in 1 .. 4 : (head \o data)[j] = head[j]
      /\ \A j \in 1 .. Len(data) : (head \o data)[4 + j] = data[j]
  <2>1. Joined(head, data, Nat, head \o data)
    BY <1>2, <1>3, ConcatIs
  <2>. QED
    BY <1>2, <2>1 DEF Joined
<1>6. /\ (head \o data)[2] = tx.to /\ (head \o data)[3] = tx.value
      /\ (head \o data)[4] = Len(tx.data)
  BY <1>2, <1>5
<1>. QED
  BY <1>4, <1>5, <1>6 DEF data

LEMMA RecordWithin ==
    ASSUME NEW x \in Nat, NEW y \in Nat, NEW z \in Nat, NEW i \in 1 .. 4 + y, x + 4 + y <= z
    PROVE  x + i \in 1 .. z
OBVIOUS

Builds(g, m, txs) ==
    g = [n \in 0 .. m |-> IF n = 0 THEN <<>> ELSE g[n - 1] \o BuildTransaction(txs[n])]

\* The loop of BuildTransactions.
LEMMA BuildLoop ==
    ASSUME NEW txs \in Seq(Packable)
    PROVE  \E g : Builds(g, Len(txs), txs) /\ BuildTransactions(txs) = g[Len(txs)]
<1>. DEFINE S == {m \in Nat : \E g : Builds(g, m, txs)}
<1>1. 0 \in S
  <2>1. Builds([n \in 0 .. 0 |-> <<>>], 0, txs)
    BY DEF Builds
  <2>. QED
    BY <2>1
<1>2. ASSUME NEW m \in Nat, m \in S PROVE m + 1 \in S
  <2>1. PICK g : Builds(g, m, txs)
    BY <1>2
  <2>. DEFINE h == [n \in 0 .. m + 1 |-> IF n <= m THEN g[n] ELSE g[m] \o BuildTransaction(txs[m + 1])]
  <2>2. ASSUME NEW n \in 0 .. m + 1
        PROVE  h[n] = IF n = 0 THEN <<>> ELSE h[n - 1] \o BuildTransaction(txs[n])
    <3>1. CASE n = 0
      BY <2>1, <3>1 DEF Builds
    <3>2. CASE n \in 1 .. m
      <4>1. n \in 0 .. m /\ n - 1 \in 0 .. m + 1 /\ n - 1 <= m /\ n <= m /\ n # 0
        BY <3>2
      <4>2. h[n] = g[n] /\ h[n - 1] = g[n - 1]
        BY <4>1
      <4>3. g[n] = g[n - 1] \o BuildTransaction(txs[n])
        BY <2>1, <4>1 DEF Builds
      <4>. QED
        BY <4>1, <4>2, <4>3
    <3>3. CASE n = m + 1
      <4>1. n - 1 = m /\ m \in 0 .. m + 1 /\ ~(n <= m) /\ n # 0 /\ m <= m
        BY <3>3
      <4>2. h[n] = g[m] \o BuildTransaction(txs[n]) /\ h[n - 1] = g[m]
        BY <3>3, <4>1
      <4>. QED
        BY <4>1, <4>2
    <3>. QED
      BY <3>1, <3>2, <3>3
  <2>3. Builds(h, m + 1, txs)
    BY <2>2 DEF Builds
  <2>4. \E k : Builds(k, m + 1, txs)
    <3>. HIDE DEF h
    <3>. QED
      BY <2>3
  <2>5. m + 1 \in Nat
    OBVIOUS
  <2>. QED
    BY <2>4, <2>5, Zenon
<1>3. Len(txs) \in S
  <2>. HIDE DEF S
  <2>1. Len(txs) \in Nat
    OBVIOUS
  <2>. QED
    BY <1>1, <1>2, <2>1, SetInduction
<1>4. \E g : Builds(g, Len(txs), txs)
  BY <1>3
<1>. DEFINE f == CHOOSE g : Builds(g, Len(txs), txs)
<1>5. Builds(f, Len(txs), txs)
  BY <1>4
<1>6. BuildTransactions(txs) = f[Len(txs)]
  BY DEF BuildTransactions, Builds
<1>. QED
  BY <1>5, <1>6

\* After m calls: the words so far, in which the record of each call keeps
\* the place at which it was appended.
Layout(g, m, txs) ==
    /\ g[m] \in Seq(Nat)
    /\ \A j \in 1 .. m :
         /\ g[j - 1] \in Seq(Nat) /\ g[j] \in Seq(Nat)
         /\ Len(g[j]) = Len(g[j - 1]) + 4 + Len(txs[j].data)
         /\ Len(g[j]) <= Len(g[m])
         /\ \A i \in 1 .. 4 + Len(txs[j].data) :
              g[m][Len(g[j - 1]) + i] = BuildTransaction(txs[j])[i]

\* What BuildTransactions packs.
LEMMA LayoutIs ==
    ASSUME NEW txs \in Seq(Packable), NEW g, Builds(g, Len(txs), txs)
    PROVE  \A m \in 0 .. Len(txs) : Layout(g, m, txs)
<1>. DEFINE S == {m \in Nat : m <= Len(txs) => Layout(g, m, txs)}
<1>1. 0 \in S
  <2>1. g[0] = <<>>
    BY DEF Builds
  <2>2. Layout(g, 0, txs)
    BY <2>1 DEF Layout
  <2>. QED
    BY <2>2
<1>2. ASSUME NEW m \in Nat, m \in S PROVE m + 1 \in S
  <2>. SUFFICES ASSUME m + 1 <= Len(txs) PROVE Layout(g, m + 1, txs)
    OBVIOUS
  <2>. DEFINE a == g[m]
              b == BuildTransaction(txs[m + 1])
              d == Len(txs[m + 1].data)
  <2>1. Layout(g, m, txs) /\ txs[m + 1] \in Packable /\ m + 1 \in 0 .. Len(txs) /\ m + 1 # 0 /\ (m + 1) - 1 = m
    BY <1>2
  <2>2. b \in Seq(Nat) /\ Len(b) = 4 + d /\ d \in Nat
    <3>1. txs[m + 1].data \in Seq(Nat)
      BY <2>1 DEF Packable
    <3>2. d \in Nat
      BY <3>1, LenType
    <3>. QED
      BY <2>1, <3>2, BuildTransactionIs
  <2>3. a \in Seq(Nat)
    BY <2>1 DEF Layout
  <2>4. g[m + 1] = a \o b
    BY <2>1 DEF Builds
  <2>. HIDE DEF a, b, d
  <2>5. /\ a \o b \in Seq(Nat) /\ Len(a \o b) = Len(a) + 4 + d /\ Len(a) \in Nat
        /\ \A i \in 1 .. Len(a) : (a \o b)[i] = a[i]
        /\ \A i \in 1 .. 4 + d : (a \o b)[Len(a) + i] = b[i]
    <3>1. Joined(a, b, Nat, a \o b)
      BY <2>2, <2>3, ConcatIs
    <3>2. Len(a) \in Nat /\ Len(a) + (4 + d) = Len(a) + 4 + d
      BY <2>2, <3>1 DEF Joined
    <3>. QED
      BY <2>2, <3>1, <3>2 DEF Joined
  <2>6. ASSUME NEW j \in 1 .. m + 1
        PROVE  /\ g[j - 1] \in Seq(Nat) /\ g[j] \in Seq(Nat)
               /\ Len(g[j]) = Len(g[j - 1]) + 4 + Len(txs[j].data)
               /\ Len(g[j]) <= Len(g[m + 1])
               /\ \A i \in 1 .. 4 + Len(txs[j].data) :
                    g[m + 1][Len(g[j - 1]) + i] = BuildTransaction(txs[j])[i]
    <3>1. CASE j = m + 1
      <4>1. g[j - 1] = a /\ g[j] = a \o b /\ Len(txs[j].data) = d /\ BuildTransaction(txs[j]) = b
        BY <2>1, <2>4, <3>1 DEF a, b, d
      <4>2. Len(a \o b) <= Len(a \o b) /\ g[m + 1] = a \o b
        BY <2>2, <2>4, <2>5
      <4>. QED
        BY <2>3, <2>5, <4>1, <4>2
    <3>2. CASE j # m + 1
      <4>1. j \in 1 .. m /\ j \in 1 .. Len(txs)
        BY <3>2, <2>1
      <4>2. /\ g[j - 1] \in Seq(Nat) /\ g[j] \in Seq(Nat)
            /\ Len(g[j]) = Len(g[j - 1]) + 4 + Len(txs[j].data)
            /\ Len(g[j]) <= Len(a)
            /\ \A i \in 1 .. 4 + Len(txs[j].data) : a[Len(g[j - 1]) + i] = BuildTransaction(txs[j])[i]
        BY <2>1, <4>1 DEF Layout, a
      <4>3. Len(txs[j].data) \in Nat /\ Len(g[j - 1]) \in Nat /\ Len(g[j]) \in Nat
        <5>1. txs[j] \in Packable
          BY <4>1
        <5>2. txs[j].data \in Seq(Nat)
          BY <5>1 DEF Packable
        <5>. QED
          BY <4>2, <5>2, LenType
      <4>4. ASSUME NEW i \in 1 .. 4 + Len(txs[j].data)
            PROVE  (a \o b)[Len(g[j - 1]) + i] = BuildTransaction(txs[j])[i]
        <5>1. Len(g[j - 1]) + i \in 1 .. Len(a)
          <6>1. Len(a) \in Nat /\ Len(g[j - 1]) + 4 + Len(txs[j].data) <= Len(a)
            BY <2>5, <4>2
          <6>. QED
            BY <4>3, <6>1, RecordWithin
        <5>. QED
          BY <2>5, <4>2, <5>1
      <4>5. Len(g[j]) <= Len(a \o b)
        <5>1. Len(a) \in Nat /\ d \in Nat /\ Len(g[j]) <= Len(a) /\ Len(a \o b) = Len(a) + 4 + d
          BY <2>2, <2>5, <4>2
        <5>. QED
          BY ONLY <4>3, <5>1
      <4>. QED
        BY <2>4, <4>2, <4>4, <4>5
    <3>. QED
      BY <3>1, <3>2
  <2>. QED
    BY <2>4, <2>5, <2>6 DEF Layout
<1>3. Nat \subseteq S
  <2>. HIDE DEF S
  <2>. QED
    BY <1>1, <1>2, SetInduction
<1>. QED
  BY <1>3

\* MultiSendCallOnly's words, its records, and what it makes of the last n
\* words when rest is what it makes of fewer.
WordAt(b, i) == IF i \in DOMAIN b THEN b[i] ELSE 0

ReadAt(b, i) ==
    [to |-> WordAt(b, i + 1), value |-> WordAt(b, i + 2),
     data |-> [j \in 1 .. WordAt(b, i + 3) |-> WordAt(b, i + 3 + j)]]

SizeAt(b, i) == 4 + WordAt(b, i + 3)

CallsOf(b, n, rest) ==
    IF n = 0 THEN <<>>
    ELSE <<ReadAt(b, Len(b) - n + 1)>> \o
           (IF SizeAt(b, Len(b) - n + 1) < n THEN rest[n - SizeAt(b, Len(b) - n + 1)] ELSE <<>>)

Reads(c, m, b) == c = [n \in 0 .. m |-> CallsOf(b, n, c)]

LEMMA SizeType ==
    ASSUME NEW b \in Seq(Nat), NEW i
    PROVE  SizeAt(b, i) \in Nat /\ SizeAt(b, i) >= 4
<1>1. WordAt(b, i + 3) \in Nat
  BY DEF WordAt
<1>. QED
  BY <1>1 DEF SizeAt

\* Only calls of fewer words matter.
LEMMA CallsOfLess ==
    ASSUME NEW b \in Seq(Nat), NEW n \in Nat, NEW c, NEW e, \A k \in 0 .. n - 1 : c[k] = e[k]
    PROVE  CallsOf(b, n, c) = CallsOf(b, n, e)
<1>. DEFINE size == SizeAt(b, Len(b) - n + 1)
<1>1. size \in Nat /\ size >= 4
  BY SizeType
<1>. HIDE DEF size
<1>2. size < n => n - size \in 0 .. n - 1
  BY <1>1
<1>3. size < n => c[n - size] = e[n - size]
  BY <1>2
<1>. QED
  BY <1>3 DEF CallsOf, size

\* The loop of MultiSendCallOnly.
LEMMA MultiSendLoop ==
    ASSUME NEW b \in Seq(Nat)
    PROVE  \E c : Reads(c, Len(b), b) /\ MultiSend(b) = c[Len(b)]
<1>. DEFINE S == {m \in Nat : \E c : Reads(c, m, b)}
<1>1. 0 \in S
  <2>1. Reads([n \in 0 .. 0 |-> <<>>], 0, b)
    BY DEF Reads, CallsOf
  <2>. QED
    BY <2>1
<1>2. ASSUME NEW m \in Nat, m \in S PROVE m + 1 \in S
  <2>1. PICK c : Reads(c, m, b)
    BY <1>2
  <2>. DEFINE h == [n \in 0 .. m + 1 |-> IF n <= m THEN c[n] ELSE CallsOf(b, m + 1, c)]
  <2>2. \A k \in 0 .. m : h[k] = c[k]
    OBVIOUS
  <2>3. ASSUME NEW n \in 0 .. m + 1 PROVE h[n] = CallsOf(b, n, h)
    <3>0. n \in Nat /\ \A k \in 0 .. n - 1 : c[k] = h[k]
      BY <2>2
    <3>1. CallsOf(b, n, c) = CallsOf(b, n, h)
      <4>. HIDE DEF h
      <4>. QED
        BY <3>0, CallsOfLess
    <3>2. CASE n <= m
      <4>1. n \in 0 .. m
        BY <3>2
      <4>2. c[n] = CallsOf(b, n, c)
        BY <2>1, <4>1 DEF Reads
      <4>. QED
        BY <2>2, <3>1, <4>1, <4>2
    <3>3. CASE n = m + 1
      <4>1. h[n] = CallsOf(b, n, c)
        BY <3>3
      <4>. QED
        BY <3>1, <4>1
    <3>. QED
      BY <3>2, <3>3
  <2>4. h = [n \in 0 .. m + 1 |-> CallsOf(b, n, h)]
    <3>1. h = [n \in 0 .. m + 1 |-> h[n]]
      OBVIOUS
    <3>. HIDE DEF h
    <3>. QED
      BY <2>3, <3>1
  <2>5. \E k : Reads(k, m + 1, b)
    <3>. HIDE DEF h
    <3>. QED
      BY <2>4 DEF Reads
  <2>6. m + 1 \in Nat
    OBVIOUS
  <2>. QED
    BY <2>5, <2>6, Zenon
<1>3. Len(b) \in S
  <2>. HIDE DEF S
  <2>1. Len(b) \in Nat
    OBVIOUS
  <2>. QED
    BY <1>1, <1>2, <2>1, SetInduction
<1>4. \E c : Reads(c, Len(b), b)
  BY <1>3
<1>. DEFINE f == CHOOSE c : Reads(c, Len(b), b)
<1>5. Reads(f, Len(b), b)
  BY <1>4
<1>6. MultiSend(b) = f[Len(b)]
  BY DEF MultiSend, Reads, CallsOf, ReadAt, SizeAt, WordAt
<1>. QED
  BY <1>5, <1>6

\* The record of a call, wherever it lies among the words, reads as the call.
LEMMA ReadsRecord ==
    ASSUME NEW tx \in Packable, NEW b \in Seq(Nat), NEW x \in Nat,
           x + 4 + Len(tx.data) <= Len(b),
           \A i \in 1 .. 4 + Len(tx.data) : b[x + i] = BuildTransaction(tx)[i]
    PROVE  /\ ReadAt(b, x + 1) = tx /\ SizeAt(b, x + 1) = 4 + Len(tx.data)
           /\ Len(tx.data) \in Nat
<1>. DEFINE d == Len(tx.data)
<1>1. /\ tx = [to |-> tx.to, value |-> tx.value, data |-> tx.data]
      /\ tx.data \in Seq(Nat)
  BY DEF Packable
<1>2. d \in Nat /\ Len(b) \in Nat /\ DOMAIN b = 1 .. Len(b) /\ tx.data = [j \in 1 .. d |-> tx.data[j]]
  BY <1>1
<1>3. /\ BuildTransaction(tx)[2] = tx.to /\ BuildTransaction(tx)[3] = tx.value
      /\ BuildTransaction(tx)[4] = d
      /\ \A j \in 1 .. d : BuildTransaction(tx)[4 + j] = tx.data[j]
  BY BuildTransactionIs
<1>4. ASSUME NEW i \in 1 .. 4 + d PROVE WordAt(b, x + i) = BuildTransaction(tx)[i]
  <2>1. x + i \in 1 .. Len(b)
    BY <1>2, RecordWithin DEF d
  <2>. QED
    BY <1>2, <2>1 DEF WordAt, d
<1>. HIDE DEF d
<1>5. /\ 2 \in 1 .. 4 + d /\ 3 \in 1 .. 4 + d /\ 4 \in 1 .. 4 + d
      /\ (x + 1) + 1 = x + 2 /\ (x + 1) + 2 = x + 3 /\ (x + 1) + 3 = x + 4
  BY <1>2
<1>6. /\ WordAt(b, (x + 1) + 1) = tx.to /\ WordAt(b, (x + 1) + 2) = tx.value
      /\ WordAt(b, (x + 1) + 3) = d
  BY <1>3, <1>4, <1>5
<1>7. ASSUME NEW j \in 1 .. d PROVE WordAt(b, (x + 1) + 3 + j) = tx.data[j]
  <2>1. 4 + j \in 1 .. 4 + d /\ (x + 1) + 3 + j = x + (4 + j)
    BY <1>2
  <2>. QED
    BY <1>3, <1>4, <2>1
<1>8. [j \in 1 .. WordAt(b, (x + 1) + 3) |-> WordAt(b, (x + 1) + 3 + j)] = tx.data
  BY <1>2, <1>6, <1>7
<1>9. ReadAt(b, x + 1) = [to |-> tx.to, value |-> tx.value, data |-> tx.data]
  BY <1>6, <1>8 DEF ReadAt
<1>. QED
  BY <1>1, <1>2, <1>6, <1>9 DEF SizeAt, d

\* One call in front of others.
LEMMA OneMore ==
    ASSUME NEW T, NEW txs \in Seq(T), NEW k \in Nat, k + 1 <= Len(txs)
    PROVE  <<txs[Len(txs) - k]>> \o [x \in 1 .. k |-> txs[Len(txs) - k + x]]
             = [x \in 1 .. k + 1 |-> txs[Len(txs) - (k + 1) + x]]
<1>. DEFINE K == Len(txs)
            one == <<txs[K - k]>>
            rest == [x \in 1 .. k |-> txs[K - k + x]]
            all == [x \in 1 .. k + 1 |-> txs[K - (k + 1) + x]]
<1>1. K \in Nat /\ K - k \in 1 .. K
  OBVIOUS
<1>2. ASSUME NEW x \in 1 .. k PROVE K - k + x \in 1 .. K /\ txs[K - k + x] \in T
  <2>1. K - k + x \in 1 .. K
    BY <1>1
  <2>. QED
    BY <2>1
<1>3. one \in Seq(T) /\ Len(one) = 1 /\ one[1] = txs[K - k]
  BY <1>1
<1>4. rest \in [1 .. k -> T]
  BY <1>2
<1>5. rest \in Seq(T) /\ Len(rest) = k
  BY <1>4
<1>6. \A x \in 1 .. k : rest[x] = txs[K - k + x]
  OBVIOUS
<1>7. \A x \in 1 .. k + 1 : all[x] = txs[K - (k + 1) + x]
  OBVIOUS
<1>8. all = [x \in 1 .. k + 1 |-> all[x]]
  OBVIOUS
<1>. HIDE DEF one, rest, all, K
<1>9. Joined(one, rest, T, one \o rest)
  BY <1>3, <1>5, ConcatIs
<1>10. /\ one \o rest \in Seq(T) /\ Len(one \o rest) = 1 + k
       /\ (one \o rest)[1] = txs[K - k]
       /\ \A x \in 1 .. k : (one \o rest)[1 + x] = rest[x]
  BY <1>3, <1>5, <1>9 DEF Joined
<1>11. one \o rest = [x \in 1 .. k + 1 |-> (one \o rest)[x]]
  <2>1. k + 1 \in Nat /\ Len(one \o rest) = k + 1 /\ one \o rest \in Seq(T)
    BY <1>10
  <2>. QED
    BY <2>1, SeqEta
<1>12. ASSUME NEW x \in 1 .. k + 1 PROVE (one \o rest)[x] = all[x]
  <2>1. CASE x = 1
    <3>1. K - (k + 1) + x = K - k
      BY <1>1, <2>1
    <3>. QED
      BY <1>7, <1>10, <2>1, <3>1
  <2>2. CASE x # 1
    <3>1. x - 1 \in 1 .. k /\ 1 + (x - 1) = x /\ K - k + (x - 1) = K - (k + 1) + x
      BY <1>1, <2>2
    <3>. QED
      BY <1>6, <1>7, <1>10, <3>1
  <2>. QED
    BY <2>1, <2>2
<1>13. one \o rest = all
  BY <1>8, <1>11, <1>12
<1>. QED
  BY <1>13 DEF one, rest, all, K

\* What BuildTransactions packs MultiSendCallOnly executes, call for call,
\* for any number of calls and whatever their data looks like.
LEMMA RoundTrip ==
    ASSUME NEW txs \in Seq(Packable)
    PROVE  MultiSend(BuildTransactions(txs)) = txs
<1>. DEFINE K == Len(txs)
<1>0. K \in Nat /\ txs = [x \in 1 .. K |-> txs[x]]
  OBVIOUS
<1>1. PICK g : Builds(g, K, txs) /\ BuildTransactions(txs) = g[K]
  BY BuildLoop
<1>2. \A m \in 0 .. K : Layout(g, m, txs)
  BY <1>1, LayoutIs
<1>. DEFINE b == g[K]
            N == Len(b)
<1>3. Layout(g, K, txs) /\ b \in Seq(Nat) /\ N \in Nat /\ g[0] = <<>>
  <2>1. Layout(g, K, txs)
    BY <1>0, <1>2
  <2>2. b \in Seq(Nat)
    BY <2>1 DEF Layout
  <2>. QED
    BY <1>0, <1>1, <2>1, <2>2, LenType DEF Builds
<1>4. PICK c : Reads(c, N, b) /\ MultiSend(b) = c[N]
  BY <1>3, MultiSendLoop
<1>. DEFINE Last(k) == [x \in 1 .. k |-> txs[K - k + x]]
            Good(k) == /\ g[K - k] \in Seq(Nat) /\ Len(g[K - k]) <= N
                       /\ c[N - Len(g[K - k])] = Last(k)
            S == {k \in Nat : k <= K => Good(k)}
<1>5. c[0] = <<>>
  BY <1>3, <1>4 DEF Reads, CallsOf
<1>6. 0 \in S
  <2>1. K - 0 = K /\ N - Len(g[K]) = 0 /\ Len(g[K]) <= N /\ Last(0) = <<>>
    BY <1>0, <1>3
  <2>. QED
    BY <1>3, <1>5, <2>1
<1>7. ASSUME NEW k \in Nat, k \in S PROVE k + 1 \in S
  <2>. SUFFICES ASSUME k + 1 <= K PROVE Good(k + 1)
    <3>1. k + 1 \in Nat
      OBVIOUS
    <3>. HIDE DEF Good
    <3>. QED
      BY <3>1
  <2>. DEFINE j == K - k
              tx == txs[j]
              x == Len(g[j - 1])
              y == Len(g[j])
              d == Len(tx.data)
              last == Last(k)
  <2>1. j \in 1 .. K /\ j - 1 = K - (k + 1) /\ tx \in Packable /\ k <= K
    BY <1>0
  <2>2. c[N - y] = last
    BY <1>7, <2>1
  <2>3. /\ g[j - 1] \in Seq(Nat) /\ g[j] \in Seq(Nat) /\ y = x + 4 + d /\ y <= N
        /\ \A i \in 1 .. 4 + d : b[x + i] = BuildTransaction(tx)[i]
    BY <1>3, <2>1 DEF Layout
  <2>4. x \in Nat /\ y \in Nat
    BY <2>3, LenType
  <2>5. ReadAt(b, x + 1) = tx /\ SizeAt(b, x + 1) = 4 + d /\ d \in Nat
    <3>. HIDE DEF tx, x, b
    <3>. QED
      BY <1>3, <2>1, <2>3, <2>4, ReadsRecord
  <2>6. <<tx>> \o last = Last(k + 1)
    BY <1>0, OneMore
  <2>. HIDE DEF tx, x, y, d, last, b, N, j
  <2>7. /\ N - x \in 0 .. N /\ N - x # 0 /\ N - (N - x) + 1 = x + 1 /\ x <= N
        /\ (N - x) - (4 + d) = N - y /\ (4 + d < N - x <=> N - y # 0)
    <3>1. N \in Nat /\ x \in Nat /\ y \in Nat /\ d \in Nat /\ y = x + 4 + d /\ y <= N
      BY <1>3, <2>3, <2>4, <2>5
    <3>. QED
      BY ONLY <3>1
  <2>8. c[N - x] = CallsOf(b, N - x, c)
    BY <1>4, <2>7 DEF Reads
  <2>9. CallsOf(b, N - x, c) = <<tx>> \o (IF 4 + d < N - x THEN c[N - y] ELSE <<>>)
    BY <2>5, <2>7 DEF CallsOf, N
  <2>10. (IF 4 + d < N - x THEN c[N - y] ELSE <<>>) = last
    BY <1>5, <2>2, <2>7
  <2>11. c[N - x] = Last(k + 1)
    BY <2>6, <2>8, <2>9, <2>10
  <2>. QED
    BY <2>1, <2>3, <2>7, <2>11 DEF x
<1>8. K \in S
  <2>. HIDE DEF S
  <2>. QED
    BY <1>0, <1>6, <1>7, SetInduction
<1>9. c[N - Len(g[0])] = Last(K)
  <2>1. K <= K /\ K - K = 0
    BY <1>0
  <2>. QED
    BY <1>8, <2>1
<1>10. N - Len(g[0]) = N
  BY <1>3
<1>11. Last(K) = txs
  <2>1. \A x \in 1 .. K : K - K + x = x
    BY <1>0
  <2>. QED
    BY <1>0, <2>1
<1>. QED
  BY <1>1, <1>4, <1>9, <1>10, <1>11

-----------------------------------------------------------------------------
(* The request. *)

Steps == {"nonce", "threshold", "owners", "approve"}

\* The locals of a request.
Fields == {"step", "safe", "calls", "data", "nonce", "hash", "threshold", "owners", "sigs", "todo",
           "approvals", "stale", "faulty", "switched", "reforked"}

Shaped(r) == r = [f \in Fields |-> r[f]]

\* The owners still to approve are the last of the list.
Pending(todo, list) ==
    /\ Len(todo) <= Len(list)
    /\ \A i \in 1 .. Len(todo) : todo[i] = list[Len(list) - Len(todo) + i]

\* What a request keeps to itself: it packs the pool it read, hashes what it
\* packs with the nonce it read, and signs for the owners in order.
RequestOK(r) ==
    /\ Shaped(r)
    /\ r.step \in Steps
    /\ r.calls \in Seq(Packable) /\ r.data = BuildTransactions(r.calls)
    /\ r.threshold \in Nat
    /\ r.owners \in Seq(Owners) /\ r.todo \in Seq(Owners)
    /\ r.step # "nonce" => r.safe = Safe /\ r.hash = GetTxDataHash(Safe, r.data, r.nonce)
    /\ r.step = "approve" =>
         /\ Ascending(r.owners) /\ r.sigs = GenApproveHashSigs(r.owners)
         /\ Pending(r.todo, r.owners)

\* The owners passed so far have approved the hash on the clone.
Approved(r) ==
    \A i \in 1 .. Len(r.owners) - Len(r.todo) :
        r.owners[i] \in Range(Base.owners) => <<r.owners[i], r.hash>> \in r.approvals

\* What a request shares with the node, unless it was disturbed.
Current(r) ==
    /\ r.switched \in BOOLEAN /\ r.reforked \in BOOLEAN /\ r.stale \in BOOLEAN /\ r.faulty \in BOOLEAN
    /\ ~r.switched => impersonated = r.safe
    /\ r.step # "nonce" /\ ~r.stale /\ ~r.reforked => r.nonce = root.safe
    /\ r.step = "approve" /\ ~r.stale /\ ~r.faulty /\ ~r.switched /\ ~r.reforked => Approved(r)

InFlight == req # Nil => RequestOK(req) /\ Current(req)

Answered == SuccessRanThePool /\ ReturnedIsExecutable /\ RefusedForAReason

SafeInv == TypeOK /\ InFlight /\ Answered


\* Whatever clears the answer leaves nothing to answer for.
LEMMA Cleared == result' = Nil => Answered'
BY DEF Answered, SuccessRanThePool, ReturnedIsExecutable, RefusedForAReason

\* The constants are Safes that exist.
LEMMA OwnersType ==
    /\ Owners \subseteq Nat
    /\ Base.owners \in Seq(Owners) /\ Enlarged.owners \in Seq(Owners)
    /\ Base.threshold \in 1 .. Len(Base.owners) /\ Enlarged.threshold \in 1 .. Len(Enlarged.owners)
<1>1. /\ Base.owners \in Seq(Nat) /\ Enlarged.owners \in Seq(Nat)
      /\ Base.threshold \in 1 .. Len(Base.owners) /\ Enlarged.threshold \in 1 .. Len(Enlarged.owners)
  BY SafeAssumption
<1>2. ASSUME NEW s \in Seq(Nat), Range(s) \subseteq Owners PROVE s \in Seq(Owners)
  <2>1. s \in [1 .. Len(s) -> Owners] /\ Len(s) \in Nat
    BY <1>2 DEF Range
  <2>. QED
    BY <2>1
<1>3. Range(Base.owners) \subseteq Nat /\ Range(Enlarged.owners) \subseteq Nat
  <2>1. ASSUME NEW s \in Seq(Nat) PROVE Range(s) \subseteq Nat
    BY DEF Range
  <2>. QED
    BY <1>1, <2>1
<1>. QED
  BY <1>1, <1>2, <1>3 DEF Owners

\* The pool as SimulateSafeExec reads it.
LEMMA PoolPackable ==
    ASSUME NEW s \in Seq(Calls), \A i \in DOMAIN s : s[i].to # Nil
    PROVE  s \in Seq(Packable)
<1>1. ASSUME NEW i \in 1 .. Len(s) PROVE s[i] \in Packable
  <2>0. Calls \subseteq [to : Nat \cup {Nil}, value : Nat, data : Seq(Nat)]
    BY SafeAssumption
  <2>1. s[i] \in [to : Nat \cup {Nil}, value : Nat, data : Seq(Nat)] /\ s[i].to # Nil
    <3>1. s[i] \in Calls /\ s[i].to # Nil
      OBVIOUS
    <3>. QED
      BY <2>0, <3>1
  <2>. DEFINE tx == s[i]
  <2>2. /\ tx = [to |-> tx.to, value |-> tx.value, data |-> tx.data]
        /\ tx.to \in Nat /\ tx.value \in Nat /\ tx.data \in Seq(Nat)
    BY <2>1
  <2>. HIDE DEF tx
  <2>3. tx \in Packable
    BY <2>2 DEF Packable
  <2>. QED
    BY <2>3 DEF tx
<1>2. s \in [1 .. Len(s) -> Packable] /\ Len(s) \in Nat
  BY <1>1
<1>. QED
  BY <1>2

\* The node starts without a request.
LEMMA SafeInit == Init => SafeInv
<1>. SUFFICES ASSUME Init PROVE SafeInv
  OBVIOUS
<1>1. up \in Nonces
  BY SafeAssumption DEF Init, Nonces
<1>2. TypeOK
  BY <1>1 DEF Init, TypeOK
<1>3. InFlight /\ Answered
  BY DEF Init, InFlight, Answered, SuccessRanThePool, ReturnedIsExecutable, RefusedForAReason
<1>. QED
  BY <1>2, <1>3 DEF SafeInv


-----------------------------------------------------------------------------
(* The chain and the other requests. *)

\* Two requests that differ only in what they share with the node.
Alike(r, q) ==
    /\ q.step = r.step /\ q.safe = r.safe /\ q.calls = r.calls /\ q.data = r.data
    /\ q.nonce = r.nonce /\ q.hash = r.hash /\ q.threshold = r.threshold
    /\ q.owners = r.owners /\ q.sigs = r.sigs /\ q.todo = r.todo

LEMMA AlikeOK ==
    ASSUME NEW r, NEW q, RequestOK(r), Shaped(q), Alike(r, q)
    PROVE  RequestOK(q)
BY DEF RequestOK, Alike

\* A request that nothing it shares has moved for.
LEMMA Quiet ==
    ASSUME SafeInv, UNCHANGED <<root, impersonated, req>>
    PROVE  InFlight'
BY DEF SafeInv, InFlight, Current, RequestOK, Approved

LEMMA NonceUp ==
    ASSUME NEW n \in Nonces, NEW o
    PROVE  /\ n.safe < MaxNonce => [n EXCEPT !.safe = n.safe + 1] \in Nonces
           /\ o \in Owners /\ n.owner[o] < MaxNonce
                => [n EXCEPT !.owner = [n.owner EXCEPT ![o] = n.owner[o] + 1]] \in Nonces
<1>0. MaxNonce \in Nat
  BY SafeAssumption
<1>1. n.safe \in 0 .. MaxNonce /\ n.owner \in [Owners -> 0 .. MaxNonce]
  BY DEF Nonces
<1>2. ASSUME n.safe < MaxNonce PROVE [n EXCEPT !.safe = n.safe + 1] \in Nonces
  <2>1. n.safe + 1 \in 0 .. MaxNonce
    BY <1>0, <1>1, <1>2
  <2>. QED
    BY <1>1, <2>1 DEF Nonces
<1>3. ASSUME o \in Owners, n.owner[o] < MaxNonce
      PROVE  [n EXCEPT !.owner = [n.owner EXCEPT ![o] = n.owner[o] + 1]] \in Nonces
  <2>1. n.owner[o] + 1 \in 0 .. MaxNonce
    <3>1. n.owner[o] \in 0 .. MaxNonce
      BY <1>1, <1>3
    <3>. QED
      BY <1>0, <1>3, <3>1
  <2>2. [n.owner EXCEPT ![o] = n.owner[o] + 1] \in [Owners -> 0 .. MaxNonce]
    BY <1>1, <2>1
  <2>. QED
    BY <2>2 DEF Nonces
<1>. QED
  BY <1>2, <1>3

\* The chain moves.
LEMMA ChainKeeps ==
    ASSUME SafeInv, SafeExecutes \/ \E o \in Range(Base.owners) : OwnerSends(o)
    PROVE  SafeInv'
<1>1. up' \in Nonces
  <2>1. up \in Nonces
    BY DEF SafeInv, TypeOK
  <2>2. CASE SafeExecutes
    BY <2>1, <2>2, NonceUp DEF SafeExecutes
  <2>3. CASE \E o \in Range(Base.owners) : OwnerSends(o)
    <3>1. PICK o \in Range(Base.owners) : OwnerSends(o)
      BY <2>3
    <3>2. o \in Owners
      BY DEF Owners
    <3>3. up.owner[o] < MaxNonce
          /\ up' = [up EXCEPT !.owner = [up.owner EXCEPT ![o] = up.owner[o] + 1]]
      BY <3>1 DEF OwnerSends
    <3>. QED
      BY <2>1, <3>2, <3>3, NonceUp
  <2>. QED
    BY <2>2, <2>3
<1>2. UNCHANGED <<root, setup, pool, impersonated, req>> /\ result' = Nil
  BY DEF SafeExecutes, OwnerSends, nodeVars
<1>3. TypeOK'
  BY <1>1, <1>2 DEF SafeInv, TypeOK
<1>. QED
  BY <1>2, <1>3, Quiet, Cleared DEF SafeInv

\* Transactions of others change the pool and the Safe, not the request.
LEMMA PoolKeeps ==
    ASSUME SafeInv, ClearTxPool \/ \E tx \in Calls : SendTransaction(tx)
    PROVE  SafeInv'
<1>1. UNCHANGED <<up, root, impersonated, req>> /\ result' = Nil
  BY DEF ClearTxPool, SendTransaction
<1>2. pool' \in Seq(Calls) /\ setup' \in {Base, Enlarged}
  <2>1. pool \in Seq(Calls) /\ setup \in {Base, Enlarged}
    BY DEF SafeInv, TypeOK
  <2>2. CASE ClearTxPool
    BY <2>2 DEF ClearTxPool
  <2>3. CASE \E tx \in Calls : SendTransaction(tx)
    BY <2>1, <2>3 DEF SendTransaction
  <2>. QED
    BY <2>2, <2>3
<1>3. TypeOK'
  BY <1>1, <1>2 DEF SafeInv, TypeOK
<1>. QED
  BY <1>1, <1>3, Quiet, Cleared DEF SafeInv

\* A re-fork marks the request.
LEMMA ReforkKeeps == ASSUME SafeInv, Refork PROVE SafeInv'
<1>1. /\ root' = up /\ setup' \in {setup, Base} /\ result' = Nil
      /\ UNCHANGED <<up, pool, impersonated>>
  BY DEF Refork
<1>2. ASSUME req' # Nil PROVE RequestOK(req)' /\ Current(req)'
  <2>1. req # Nil /\ req' = [req EXCEPT !.reforked = TRUE]
    BY <1>2 DEF Refork, Note
  <2>2. RequestOK(req) /\ Current(req)
    BY <2>1 DEF SafeInv, InFlight
  <2>3. Shaped(req)
    BY <2>2 DEF RequestOK
  <2>4. /\ Shaped(req') /\ Alike(req, req') /\ req'.reforked = TRUE
        /\ req'.switched = req.switched /\ req'.stale = req.stale /\ req'.faulty = req.faulty
    BY <2>1, <2>3 DEF Shaped, Fields, Alike
  <2>5. RequestOK(req')
    BY <2>2, <2>4, AlikeOK
  <2>. QED
    BY <1>1, <2>2, <2>4, <2>5 DEF Current, Alike, RequestOK
<1>3. TypeOK'
  <2>1. req' # Nil => req'.step \in Steps /\ req'.owners \in Seq(Owners) /\ req'.todo \in Seq(Owners)
    BY <1>2 DEF RequestOK
  <2>. QED
    BY <1>1, <2>1 DEF SafeInv, TypeOK, Steps
<1>. QED
  BY <1>1, <1>2, <1>3, Cleared DEF SafeInv, InFlight

\* So does a switch of the impersonated account.
LEMMA ImpersonateKeeps ==
    ASSUME SafeInv, NEW account \in {Safe, EOA}, Impersonate(account)
    PROVE  SafeInv'
<1>1. /\ impersonated' = account /\ result' = Nil /\ UNCHANGED <<up, root, setup, pool>>
  BY DEF Impersonate
<1>2. ASSUME req' # Nil PROVE RequestOK(req)' /\ Current(req)'
  <2>1. req # Nil /\ req' = [req EXCEPT !.switched = TRUE]
    BY <1>2 DEF Impersonate, Note
  <2>2. RequestOK(req) /\ Current(req)
    BY <2>1 DEF SafeInv, InFlight
  <2>3. Shaped(req)
    BY <2>2 DEF RequestOK
  <2>4. /\ Shaped(req') /\ Alike(req, req') /\ req'.switched = TRUE
        /\ req'.reforked = req.reforked /\ req'.stale = req.stale /\ req'.faulty = req.faulty
    BY <2>1, <2>3 DEF Shaped, Fields, Alike
  <2>5. RequestOK(req')
    BY <2>2, <2>4, AlikeOK
  <2>. QED
    BY <1>1, <2>2, <2>4, <2>5 DEF Current, Alike, RequestOK
<1>3. TypeOK'
  <2>1. req' # Nil => req'.step \in Steps /\ req'.owners \in Seq(Owners) /\ req'.todo \in Seq(Owners)
    BY <1>2 DEF RequestOK
  <2>. QED
    BY <1>1, <2>1 DEF SafeInv, TypeOK, Steps
<1>. QED
  BY <1>1, <1>2, <1>3, Cleared DEF SafeInv, InFlight


-----------------------------------------------------------------------------
(* The request's own steps. *)

\* A step of the request keeps everything if it leaves the node alone and
\* the request in order.
LEMMA OwnStep ==
    ASSUME SafeInv, UNCHANGED <<up, nodeVars>>, result' = Nil,
           req' # Nil => RequestOK(req') /\ Current(req)'
    PROVE  SafeInv'
<1>1. TypeOK'
  <2>1. req' # Nil => req'.step \in Steps /\ req'.owners \in Seq(Owners) /\ req'.todo \in Seq(Owners)
    BY DEF RequestOK
  <2>. QED
    BY <2>1 DEF SafeInv, TypeOK, Steps, nodeVars
<1>2. InFlight'
  BY DEF InFlight, RequestOK
<1>. QED
  BY <1>1, <1>2, Cleared DEF SafeInv

LEMMA FailsKeeps == ASSUME SafeInv, Fails PROVE SafeInv'
BY OwnStep DEF Fails

\* The pool is read and packed.
LEMMA SimulateKeeps ==
    ASSUME SafeInv, NEW list \in OwnerLists, SimulateSafeExec(list)
    PROVE  SafeInv'
<1>1. /\ req' = [step |-> "nonce", safe |-> impersonated, calls |-> pool,
                 data |-> BuildTransactions(pool), nonce |-> 0, hash |-> Nil, threshold |-> 0,
                 owners |-> list, sigs |-> <<>>, todo |-> <<>>, approvals |-> {},
                 stale |-> FALSE, faulty |-> FALSE, switched |-> FALSE, reforked |-> FALSE]
      /\ result' = Nil /\ UNCHANGED <<up, nodeVars>>
      /\ \A i \in DOMAIN pool : pool[i].to # Nil
  BY DEF SimulateSafeExec
<1>2. pool \in Seq(Packable) /\ list \in Seq(Owners)
  <2>1. pool \in Seq(Calls)
    BY DEF SafeInv, TypeOK
  <2>. QED
    BY <1>1, <2>1, PoolPackable, SafeAssumption
<1>3. /\ Shaped(req') /\ req'.step = "nonce" /\ req'.safe = impersonated /\ req'.calls = pool
      /\ req'.data = BuildTransactions(pool) /\ req'.threshold = 0 /\ req'.owners = list
      /\ req'.todo = <<>> /\ req'.stale = FALSE /\ req'.faulty = FALSE /\ req'.switched = FALSE
      /\ req'.reforked = FALSE
  BY <1>1 DEF Shaped, Fields
<1>4. RequestOK(req')
  BY <1>2, <1>3 DEF RequestOK, Steps
<1>5. Current(req)'
  BY <1>1, <1>3 DEF Current, nodeVars
<1>. QED
  BY <1>1, <1>4, <1>5, OwnStep

\* The owners in order, all still to approve.
LEMMA GenIs ==
    ASSUME NEW r, Shaped(r), NEW list \in Seq(Owners)
    PROVE  LET q == GenSafeCalldata(r, list)
           IN  /\ Shaped(q) /\ q.step = "approve" /\ q.owners = Sorted(list) /\ q.todo = Sorted(list)
               /\ q.sigs = GenApproveHashSigs(Sorted(list))
               /\ q.safe = r.safe /\ q.calls = r.calls /\ q.data = r.data /\ q.nonce = r.nonce
               /\ q.hash = r.hash /\ q.threshold = r.threshold
               /\ q.stale = r.stale /\ q.faulty = r.faulty /\ q.switched = r.switched
               /\ q.reforked = r.reforked
BY DEF GenSafeCalldata, Shaped, Fields

\* From the hash on, a request may gather its signatures.
LEMMA Gathering ==
    ASSUME NEW r, NEW list \in Seq(Owners), Shaped(r), r.step \in {"threshold", "owners"},
           RequestOK(r), Current(r)
    PROVE  RequestOK(GenSafeCalldata(r, list)) /\ Current(GenSafeCalldata(r, list))
<1>. DEFINE q == GenSafeCalldata(r, list)
            sorted == Sorted(list)
<1>1. /\ Shaped(q) /\ q.step = "approve" /\ q.owners = sorted /\ q.todo = sorted
      /\ q.sigs = GenApproveHashSigs(sorted)
      /\ q.safe = r.safe /\ q.calls = r.calls /\ q.data = r.data /\ q.nonce = r.nonce
      /\ q.hash = r.hash /\ q.threshold = r.threshold
      /\ q.stale = r.stale /\ q.faulty = r.faulty /\ q.switched = r.switched
      /\ q.reforked = r.reforked
  BY GenIs
<1>2. sorted \in Seq(Owners) /\ Ascending(sorted)
  BY OwnersType, SortedIs
<1>3. Len(sorted) \in Nat
  BY <1>2, LenType
<1>. HIDE DEF q, sorted
<1>4. Pending(sorted, sorted)
  <2>1. Len(sorted) <= Len(sorted) /\ \A i \in 1 .. Len(sorted) : Len(sorted) - Len(sorted) + i = i
    BY <1>3
  <2>. QED
    BY <2>1 DEF Pending
<1>5. Approved(q)
  <2>1. 1 .. Len(q.owners) - Len(q.todo) = {}
    BY <1>1, <1>3
  <2>. QED
    BY <2>1 DEF Approved
<1>6. RequestOK(q)
  BY <1>1, <1>2, <1>4 DEF RequestOK, Steps
<1>7. Current(q)
  BY <1>1, <1>5 DEF Current
<1>. QED
  BY <1>6, <1>7 DEF q


\* The nonce and the hash are read; a caller's list is used at once.
LEMMA GetNonceKeeps == ASSUME SafeInv, GetNonce PROVE SafeInv'
<1>. DEFINE r == [req EXCEPT !.nonce = up.safe, !.stale = up.safe # root.safe,
                            !.hash = GetTxDataHash(req.safe, req.data, up.safe)]
            q == [r EXCEPT !.step = "threshold"]
<1>1. /\ req # Nil /\ req.step = "nonce" /\ req.safe = Safe
      /\ req' = IF req.owners # <<>> THEN GenSafeCalldata(r, req.owners) ELSE q
      /\ result' = Nil /\ UNCHANGED <<up, nodeVars>>
  BY DEF GetNonce, At
<1>2. RequestOK(req) /\ Current(req)
  BY <1>1 DEF SafeInv, InFlight
<1>3. Shaped(req) /\ req.owners \in Seq(Owners)
  BY <1>2 DEF RequestOK
<1>4. /\ Shaped(r) /\ Shaped(q) /\ q.step = "threshold" /\ q.safe = req.safe /\ q.calls = req.calls
      /\ q.data = req.data /\ q.nonce = up.safe /\ q.threshold = req.threshold
      /\ q.hash = GetTxDataHash(req.safe, req.data, up.safe)
      /\ q.owners = req.owners /\ q.todo = req.todo
      /\ q.faulty = req.faulty /\ q.switched = req.switched /\ q.reforked = req.reforked
  BY <1>3 DEF Shaped, Fields
<1>5. q.stale = (up.safe # root.safe)
  BY <1>3 DEF Shaped, Fields
<1>6. GenSafeCalldata(r, req.owners) = GenSafeCalldata(q, req.owners)
  BY <1>3 DEF GenSafeCalldata, Shaped, Fields
<1>. HIDE DEF r, q
<1>7. RequestOK(q)
  BY <1>1, <1>2, <1>4 DEF RequestOK, Steps
<1>8. Current(q)
  <2>1. q.stale \in BOOLEAN /\ (~q.stale => q.nonce = root.safe)
    BY <1>4, <1>5, Zenon
  <2>. QED
    BY <1>2, <1>4, <2>1 DEF Current
<1>9. RequestOK(req') /\ Current(req')
  <2>1. CASE req.owners # <<>>
    <3>1. RequestOK(GenSafeCalldata(q, req.owners)) /\ Current(GenSafeCalldata(q, req.owners))
      BY <1>3, <1>4, <1>7, <1>8, Gathering
    <3>. QED
      BY <1>1, <1>6, <2>1, <3>1
  <2>2. CASE req.owners = <<>>
    BY <1>1, <1>7, <1>8, <2>2
  <2>. QED
    BY <2>1, <2>2
<1>10. Current(req)'
  BY <1>1, <1>9 DEF Current, nodeVars
<1>. QED
  BY <1>1, <1>9, <1>10, OwnStep

\* getSafeOwnersAndThreshold, first call.
LEMMA GetThresholdKeeps == ASSUME SafeInv, GetThreshold PROVE SafeInv'
<1>1. /\ req # Nil /\ req.step = "threshold"
      /\ req' = [req EXCEPT !.step = "owners", !.threshold = setup.threshold]
      /\ result' = Nil /\ UNCHANGED <<up, nodeVars>>
  BY DEF GetThreshold, At
<1>2. RequestOK(req) /\ Current(req)
  BY <1>1 DEF SafeInv, InFlight
<1>3. Shaped(req) /\ setup.threshold \in Nat
  <2>1. setup \in {Base, Enlarged}
    BY DEF SafeInv, TypeOK
  <2>2. Base.threshold \in Nat /\ Enlarged.threshold \in Nat
    BY OwnersType, LenType
  <2>. QED
    BY <1>2, <2>1, <2>2 DEF RequestOK
<1>4. /\ Shaped(req') /\ req'.step = "owners" /\ req'.threshold = setup.threshold
      /\ req'.safe = req.safe /\ req'.calls = req.calls /\ req'.data = req.data
      /\ req'.nonce = req.nonce /\ req'.hash = req.hash /\ req'.owners = req.owners
      /\ req'.todo = req.todo /\ req'.stale = req.stale /\ req'.faulty = req.faulty
      /\ req'.switched = req.switched /\ req'.reforked = req.reforked
  BY <1>1, <1>3 DEF Shaped, Fields
<1>5. RequestOK(req')
  BY <1>1, <1>2, <1>3, <1>4 DEF RequestOK, Steps
<1>6. Current(req)'
  BY <1>1, <1>2, <1>4 DEF Current, nodeVars
<1>. QED
  BY <1>1, <1>5, <1>6, OwnStep

\* The second call, and owners[:threshold].
LEMMA GetOwnersKeeps == ASSUME SafeInv, GetOwners PROVE SafeInv'
<1>. DEFINE n == req.threshold
            list == SubSeq(setup.owners, 1, n)
<1>1. /\ req # Nil /\ req.step = "owners" /\ result' = Nil /\ UNCHANGED <<up, nodeVars>>
      /\ req' = IF n > Len(setup.owners) THEN Nil ELSE GenSafeCalldata(req, list)
  BY DEF GetOwners, FirstOwners, At
<1>2. RequestOK(req) /\ Current(req)
  BY <1>1 DEF SafeInv, InFlight
<1>3. Shaped(req) /\ n \in Nat
  BY <1>2 DEF RequestOK
<1>4. setup.owners \in Seq(Owners)
  BY OwnersType DEF SafeInv, TypeOK
<1>5. CASE n > Len(setup.owners)
  BY <1>1, <1>5, OwnStep
<1>6. CASE ~(n > Len(setup.owners))
  <2>1. list \in Seq(Owners)
    <3>1. 1 \in 1 .. Len(setup.owners) + 1 /\ n \in 0 .. Len(setup.owners) /\ Len(setup.owners) \in Nat
      BY <1>3, <1>4, <1>6, LenType
    <3>2. ASSUME NEW s \in Seq(Owners), NEW k \in 0 .. Len(s) PROVE SubSeq(s, 1, k) \in Seq(Owners)
      OBVIOUS
    <3>. QED
      BY <1>4, <3>1, <3>2
  <2>. HIDE DEF list
  <2>2. RequestOK(GenSafeCalldata(req, list)) /\ Current(GenSafeCalldata(req, list))
    BY <1>1, <1>2, <1>3, <2>1, Gathering
  <2>3. RequestOK(req') /\ Current(req')
    BY <1>1, <1>6, <2>2
  <2>4. Current(req)'
    BY <1>1, <2>3 DEF Current, nodeVars
  <2>. QED
    BY <1>1, <2>3, <2>4, OwnStep
<1>. QED
  BY <1>5, <1>6


\* The next owner is the first of those still to approve.
LEMMA NextPending ==
    ASSUME NEW T, NEW todo \in Seq(T), NEW list \in Seq(T), Pending(todo, list), todo # <<>>
    PROVE  /\ Tail(todo) \in Seq(T) /\ Pending(Tail(todo), list)
           /\ Len(list) - Len(Tail(todo)) = Len(list) - Len(todo) + 1
           /\ Head(todo) = list[Len(list) - Len(todo) + 1]
           /\ Len(list) - Len(todo) \in Nat
<1>1. /\ Len(todo) \in Nat \ {0} /\ Len(list) \in Nat /\ Len(todo) <= Len(list)
      /\ Head(todo) = todo[1]
      /\ Tail(todo) \in Seq(T) /\ Len(Tail(todo)) = Len(todo) - 1
      /\ \A i \in 1 .. Len(todo) - 1 : Tail(todo)[i] = todo[i + 1]
  BY DEF Pending
<1>. DEFINE m == Len(todo)
            n == Len(list)
            rest == Tail(todo)
<1>2. \A i \in 1 .. m : todo[i] = list[n - m + i]
  BY DEF Pending
<1>3. Len(rest) <= n /\ 1 \in 1 .. m /\ n - (m - 1) = n - m + 1 /\ n - m \in Nat
  BY <1>1
<1>4. ASSUME NEW i \in 1 .. Len(rest) PROVE rest[i] = list[n - Len(rest) + i]
  <2>1. i \in 1 .. m - 1 /\ i + 1 \in 1 .. m /\ n - (m - 1) + i = n - m + (i + 1)
    BY <1>1
  <2>. QED
    BY <1>1, <1>2, <2>1
<1>5. Pending(rest, list)
  BY <1>3, <1>4 DEF Pending
<1>. QED
  BY <1>1, <1>2, <1>3, <1>5

\* One approval on the clone.
LEMMA ApproveKeeps == ASSUME SafeInv, Approve PROVE SafeInv'
<1>. DEFINE o == Head(req.todo)
<1>1. /\ req # Nil /\ req.step = "approve" /\ req.todo # <<>>
      /\ result' = Nil /\ UNCHANGED <<up, nodeVars>>
  BY DEF Approve, At
<1>2. PICK executes \in BOOLEAN :
        req' = [req EXCEPT !.todo = Tail(req.todo), !.faulty = req.faulty \/ ~executes,
                           !.approvals = req.approvals \cup (IF executes THEN Approval(o) ELSE {}),
                           !.stale = req.stale \/ up.owner[o] # root.owner[o]]
  BY DEF Approve
<1>3. RequestOK(req) /\ Current(req)
  BY <1>1 DEF SafeInv, InFlight
<1>4. /\ Shaped(req) /\ req.todo \in Seq(Owners) /\ req.owners \in Seq(Owners)
      /\ Pending(req.todo, req.owners) /\ req.safe = Safe
  BY <1>1, <1>3 DEF RequestOK
<1>5. /\ Shaped(req') /\ req'.todo = Tail(req.todo)
      /\ req'.approvals = req.approvals \cup (IF executes THEN Approval(o) ELSE {})
      /\ req'.step = req.step /\ req'.safe = req.safe /\ req'.calls = req.calls /\ req'.data = req.data
      /\ req'.nonce = req.nonce /\ req'.hash = req.hash /\ req'.threshold = req.threshold
      /\ req'.owners = req.owners /\ req'.sigs = req.sigs
      /\ req'.switched = req.switched /\ req'.reforked = req.reforked
  BY <1>2, <1>4 DEF Shaped, Fields
<1>6. /\ req'.faulty = (req.faulty \/ ~executes)
      /\ req'.stale = (req.stale \/ up.owner[o] # root.owner[o])
  BY <1>2, <1>4, Zenon DEF Shaped, Fields
<1>. DEFINE k == Len(req.owners) - Len(req.todo)
<1>7. /\ Tail(req.todo) \in Seq(Owners) /\ Pending(Tail(req.todo), req.owners)
      /\ Len(req.owners) - Len(Tail(req.todo)) = k + 1
      /\ o = req.owners[k + 1] /\ k \in Nat
  BY <1>1, <1>4, NextPending
<1>8. RequestOK(req')
  BY <1>1, <1>3, <1>5, <1>7 DEF RequestOK
<1>9. /\ req'.faulty \in BOOLEAN /\ req'.stale \in BOOLEAN
      /\ ~req'.faulty => ~req.faulty /\ executes
      /\ ~req'.stale => ~req.stale /\ up.owner[o] = root.owner[o]
  <2>1. req.faulty \in BOOLEAN /\ req.stale \in BOOLEAN
    BY <1>3, Zenon DEF Current
  <2>. QED
    BY <1>6, <2>1, Zenon
<1>10. ASSUME ~req'.stale, ~req'.faulty, ~req'.switched, ~req'.reforked PROVE Approved(req')
  <2>1. Approved(req) /\ impersonated = Safe
    BY <1>1, <1>3, <1>4, <1>5, <1>9, <1>10 DEF Current
  <2>2. o \in Range(Base.owners) => <<o, req.hash>> \in req'.approvals
    BY <1>5, <1>9, <1>10, <2>1 DEF Approval
  <2>3. req.approvals \subseteq req'.approvals
    BY <1>5
  <2>. HIDE DEF k
  <2>4. ASSUME NEW i \in 1 .. k + 1, req.owners[i] \in Range(Base.owners)
        PROVE  <<req.owners[i], req.hash>> \in req'.approvals
    <3>1. CASE i = k + 1
      BY <1>7, <2>2, <2>4, <3>1
    <3>2. CASE i # k + 1
      <4>1. i \in 1 .. k
        BY <1>7, <3>2
      <4>. QED
        BY <2>1, <2>3, <2>4, <4>1 DEF Approved, k
    <3>. QED
      BY <3>1, <3>2
  <2>. QED
    BY <1>5, <1>7, <2>4 DEF Approved
<1>11. Current(req)'
  BY <1>1, <1>3, <1>5, <1>9, <1>10 DEF Current, nodeVars
<1>. QED
  BY <1>1, <1>8, <1>11, OwnStep

\* Signatures of owners that suffice pass the Safe's check, once each of them
\* sent the message or approved the hash.
LEMMA SigsPass ==
    ASSUME NEW list \in Seq(Owners), Ascending(list), Fit(list), NEW approvals, NEW hash, NEW sender,
           \A i \in 1 .. Len(list) : sender = list[i] \/ <<list[i], hash>> \in approvals
    PROVE  CheckSignatures(Base, approvals, hash, GenApproveHashSigs(list), sender)
<1>. DEFINE sigs == GenApproveHashSigs(list)
            n == Base.threshold
<1>1. Len(list) \in Nat /\ DOMAIN list = 1 .. Len(list) /\ n \in Nat /\ n <= Len(list)
  BY OwnersType, LenType DEF Fit
<1>2. /\ Len(sigs) = Len(list)
      /\ \A i \in 1 .. Len(list) : sigs[i].r = list[i] /\ sigs[i].v = 1
  BY <1>1 DEF GenApproveHashSigs
<1>. HIDE DEF sigs
<1>3. ASSUME NEW i \in 1 .. n
      PROVE  /\ sigs[i].v = 1 /\ sigs[i].r \in Range(Base.owners)
             /\ i > 1 => sigs[i - 1].r < sigs[i].r
             /\ sender = sigs[i].r \/ <<sigs[i].r, hash>> \in approvals
  <2>1. i \in 1 .. Len(list)
    BY <1>1
  <2>2. sigs[i].v = 1 /\ sigs[i].r = list[i]
    BY <1>2, <2>1
  <2>3. list[i] \in Range(Base.owners)
    BY <1>1, <2>1 DEF Fit, Range
  <2>4. ASSUME i > 1 PROVE sigs[i - 1].r < sigs[i].r
    <3>1. i - 1 \in 1 .. Len(list) /\ i - 1 < i /\ i - 1 # i
      BY <2>1, <2>4
    <3>2. sigs[i - 1].r = list[i - 1]
      BY <1>2, <3>1
    <3>3. list[i - 1] <= list[i]
      BY <2>1, <3>1 DEF Ascending
    <3>4. list[i - 1] # list[i]
      BY <1>1, <2>1, <3>1 DEF Fit, IsInjective
    <3>5. list[i - 1] \in Nat /\ list[i] \in Nat
      <4>1. list[i - 1] \in Owners /\ list[i] \in Owners
        BY <2>1, <3>1
      <4>. QED
        BY <4>1, OwnersType
    <3>. QED
      BY <2>2, <3>2, <3>3, <3>4, <3>5
  <2>. QED
    BY <2>1, <2>2, <2>3, <2>4
<1>4. Len(sigs) >= n
  BY <1>1, <1>2
<1>. QED
  BY <1>3, <1>4 DEF CheckSignatures, sigs


\* The request returns what it found.
LEMMA ExecKeeps == ASSUME SafeInv, Exec PROVE SafeInv'
<1>. DEFINE hash == GetTxDataHash(Safe, req.data, root.safe)
            passes == CheckSignatures(Base, req.approvals, hash, req.sigs, req.owners[1])
<1>0. PICK end \in Ends, misread \in BOOLEAN :
        /\ MayEnd(end, passes /\ ~misread)
        /\ result' = [req |-> req, end |-> end, faulty |-> req.faulty \/ misread,
                      done |-> IF end = "ran" THEN MultiSend(req.data) ELSE <<>>]
  BY DEF Exec
<1>1. /\ req # Nil /\ req.step = "approve" /\ req.todo = <<>> /\ req' = Nil /\ UNCHANGED <<up, nodeVars>>
  BY DEF Exec, At
<1>2. RequestOK(req) /\ Current(req)
  BY <1>1 DEF SafeInv, InFlight
<1>3. /\ req.calls \in Seq(Packable) /\ req.data = BuildTransactions(req.calls)
      /\ req.owners \in Seq(Owners) /\ Ascending(req.owners)
      /\ req.sigs = GenApproveHashSigs(req.owners)
      /\ req.safe = Safe /\ req.hash = GetTxDataHash(Safe, req.data, req.nonce)
  BY <1>1, <1>2 DEF RequestOK
<1>4. TypeOK' /\ InFlight'
  BY <1>1 DEF SafeInv, TypeOK, InFlight, nodeVars
<1>5. /\ result'.req = req /\ result'.end = end
      /\ result'.done = IF end = "ran" THEN MultiSend(req.data) ELSE <<>>
  BY <1>0
<1>5a. result'.faulty <=> req.faulty \/ misread
  BY <1>0, Zenon
<1>6. ASSUME end \in {"ran", "nothing"}, ~req.switched PROVE result'.done = req.calls
  <2>1. impersonated = Safe
    BY <1>2, <1>3, <1>6 DEF Current
  <2>2. end = "ran"
    BY <1>0, <1>6, <2>1 DEF MayEnd
  <2>. QED
    BY <1>3, <1>5, <2>2, RoundTrip
<1>7. ASSUME Fit(req.owners), ~req.stale, ~req.faulty, ~misread, ~req.switched, ~req.reforked
      PROVE  end # "refused"
  <2>1. Approved(req) /\ req.nonce = root.safe
    BY <1>1, <1>2, <1>7 DEF Current
  <2>2. req.hash = hash
    BY <1>3, <2>1
  <2>3. Len(req.owners) - Len(req.todo) = Len(req.owners) /\ DOMAIN req.owners = 1 .. Len(req.owners)
    BY <1>1, <1>3
  <2>4. ASSUME NEW i \in 1 .. Len(req.owners) PROVE <<req.owners[i], hash>> \in req.approvals
    <3>1. req.owners[i] \in Range(Base.owners)
      BY <1>7, <2>3 DEF Fit, Range
    <3>. QED
      BY <2>1, <2>2, <2>3, <3>1 DEF Approved
  <2>. HIDE DEF hash
  <2>5. passes
    BY <1>3, <1>7, <2>4, SigsPass
  <2>. HIDE DEF passes
  <2>. QED
    BY <1>0, <1>7, <2>5, Zenon DEF MayEnd
<1>8. ASSUME Fit(req.owners), up.safe = req.nonce
      PROVE  CheckSignatures(Base, {<<o, req.hash>> : o \in Range(req.owners)},
                             GetTxDataHash(Safe, req.data, up.safe), req.sigs, Nil)
  <2>. DEFINE all == {<<o, req.hash>> : o \in Range(req.owners)}
  <2>1. \A i \in 1 .. Len(req.owners) : <<req.owners[i], req.hash>> \in all
    BY <1>3 DEF Range
  <2>. HIDE DEF all
  <2>2. CheckSignatures(Base, all, req.hash, req.sigs, Nil)
    BY <1>3, <1>8, <2>1, SigsPass
  <2>. QED
    BY <1>3, <1>8, <2>2 DEF all
<1>9. SuccessRanThePool'
  BY <1>5, <1>6 DEF SuccessRanThePool
<1>10. RefusedForAReason'
  BY <1>5, <1>5a, <1>7, Zenon DEF RefusedForAReason
<1>11. ReturnedIsExecutable'
  BY <1>1, <1>5, <1>8 DEF ReturnedIsExecutable
<1>. QED
  BY <1>4, <1>9, <1>10, <1>11 DEF SafeInv, Answered

LEMMA SafeAlways == Spec => []SafeInv
<1>1. SafeInv /\ [Next]_vars => SafeInv'
  <2>. SUFFICES ASSUME SafeInv, [Next]_vars PROVE SafeInv'
    OBVIOUS
  <2>1. CASE UNCHANGED vars
    BY <2>1 DEF vars, SafeInv, TypeOK, InFlight, RequestOK, Current, Approved, Answered,
                SuccessRanThePool, ReturnedIsExecutable, RefusedForAReason
  <2>2. CASE Environment
    BY <2>2, ChainKeeps, PoolKeeps, ReforkKeeps, ImpersonateKeeps DEF Environment
  <2>3. CASE Request
    BY <2>3, SimulateKeeps, GetNonceKeeps, GetThresholdKeeps, GetOwnersKeeps, FailsKeeps,
       ApproveKeeps, ExecKeeps DEF Request
  <2>. QED
    BY <2>1, <2>2, <2>3 DEF Next
<1>. QED
  BY <1>1, SafeInit, PTL DEF Spec

-----------------------------------------------------------------------------
(* The theorems. *)

\* Whatever happens between the calls of getSafeOwnersAndThreshold, the
\* owners in use are ones the Safe had, for any two owner lists and
\* thresholds.
THEOREM TypeCorrect == Spec => []TypeOK
<1>1. SafeInv => TypeOK
  BY DEF SafeInv
<1>. QED
  BY <1>1, SafeAlways, PTL

\* A simulation that succeeds executed the pool it read, call for call,
\* through BuildTransactions and MultiSendCallOnly, if the impersonated
\* account stayed: for a pool of any length and calls with any data.
THEOREM PoolSimulated == Spec => []SuccessRanThePool
<1>1. SafeInv => SuccessRanThePool
  BY DEF SafeInv, Answered
<1>. QED
  BY <1>1, SafeAlways, PTL

\* The calldata of GenSafeCalldataWithApproveHash passes the Safe's check of
\* signatures once its owners approved the returned hash, for any number of
\* owners in any order, while the Safe's nonce is the one returned.
THEOREM Executable == Spec => []ReturnedIsExecutable
<1>1. SafeInv => ReturnedIsExecutable
  BY DEF SafeInv, Answered
<1>. QED
  BY <1>1, SafeAlways, PTL

\* The Safe refuses what the node signed for no reason but the named ones,
\* for any number of owners: every approval of an undisturbed request counts,
\* however the calls of the pool then end.
THEOREM RefusalHasAReason == Spec => []RefusedForAReason
<1>1. SafeInv => RefusedForAReason
  BY DEF SafeInv, Answered
<1>. QED
  BY <1>1, SafeAlways, PTL
=============================================================================
