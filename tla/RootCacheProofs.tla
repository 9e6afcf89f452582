--------------------------- MODULE RootCacheProofs ---------------------------
(***************************************************************************)
(* Proofs about RootCache, for any number of readers, re-forks, keys and   *)
(* heights, any queue capacities, batch size and number of tries.          *)
(*                                                                         *)
(* Matching says where every request is: in one queue or in the batch,     *)
(* once, next to the answer it will get.  It gives TypeOK and              *)
(* AnswersMatch.  Freshness adds of which height the answers are, relative *)
(* to the re-forks that crossed them, and which accounts a re-fork knows;  *)
(* it gives OnlyLateIsStale and, where nothing clears the cache,           *)
(* ReforkRefreshesAll.                                                     *)
(***************************************************************************)
EXTENDS RootCache, TLAPS

\* A reader that is on its way knows its key.
Wanting == \A r \in Readers : rpc[r] # "idle" => want[r] \in Keys

\* The readers of a queue offer requests of its kind, each one request.
Queued ==
    \A kind \in Kinds :
        /\ \A i \in 1 .. Len(queue[kind]) :
             rpc[queue[kind][i]] = "offer" /\ KindOf(want[queue[kind][i]]) = kind
        /\ \A i, j \in 1 .. Len(queue[kind]) : queue[kind][i] = queue[kind][j] => i = j

\* The readers of the batch wait for timeSlot, each for one answer.
Batched ==
    /\ \A i \in 1 .. Len(batch) : rpc[batch[i]] = "wait" /\ KindOf(want[batch[i]]) = job
    /\ \A i, j \in 1 .. Len(batch) : batch[i] = batch[j] => i = j

\* What timeSlot has in hand at each of its steps.
Staged ==
    /\ tpc = "drain" => todo # 0
    /\ tpc \in {"measure", "select"} => batch = <<>>
    /\ tpc \notin {"measure", "select"} => job \in Kinds
    /\ tpc \in {"load", "mark", "call", "reply"} => batch # <<>>
    /\ tpc = "mark" => job = "account" /\ sent = 0
    /\ tpc \in {"mark", "call", "reply"} => Len(values) = Len(batch) /\ height \in Heights
    /\ tpc = "call" => sent <= Len(batch)

\* How much of the batch has been answered.
Answered == IF tpc = "call" THEN sent ELSE IF tpc = "reply" THEN Len(batch) ELSE 0

\* What has been answered answers the request at the same place.
Served == \A i \in 1 .. Answered : IsAnswer(values[i], want[batch[i]])

\* A re-fork that fetches holds the mutex and has a height.
Fetching ==
    \A x \in Resetters : xpc[x] \in {"slots", "accounts"} => mutex = x /\ xheight[x] \in Heights

Matching ==
    TypeOK /\ Wanting /\ Queued /\ Batched /\ Staged /\ Served /\ Fetching /\ AnswersMatch

-----------------------------------------------------------------------------
\* Fetched at the forked height, or upstream has lost that height.
Current(v, k) == v = <<k, bn>> \/ bn \in gone

\* A reader no re-fork and no clearing has crossed gets a current answer.
Timely ==
    /\ \A r \in Readers : rpc[r] = "store" /\ r \notin crossed => Current(got[r], want[r])
    /\ tpc \in {"mark", "call", "reply"} =>
         \A i \in 1 .. Len(batch) : batch[i] \notin crossed => height = bn
    /\ \A i \in 1 .. Answered : batch[i] \notin crossed => Current(values[i], want[batch[i]])

\* Only clearing the cache makes the node forget which accounts it uses.
Forgotten(lost) == "clear" \in ResetKinds /\ lost

\* Accounts on their way, and in the pad, are recorded for the next re-fork.
Recorded ==
    /\ \A r \in Readers : rpc[r] = "store" /\ want[r] \in Accounts =>
         want[r] \in accessed \/ Forgotten(r \in crossed)
    /\ tpc \in {"call", "reply"} /\ job = "account" =>
         \A i \in 1 .. Len(batch) : want[batch[i]] \in accessed \/ Forgotten(batch[i] \in crossed)
    /\ \A k \in Accounts : cache[k] # Absent => k \in accessed \/ Forgotten(k \in late)

\* Nobody but x is inside a re-fork.
Alone(x) == \A y \in Resetters \ {x} : xpc[y] = "idle"

\* A re-fork that is alone fetches at the forked height, and the accounts
\* it fetches are those of the pad.
Refetched ==
    \A x \in Resetters :
        /\ xpc[x] \in {"slots", "accounts"} /\ Alone(x) => xheight[x] = bn
        /\ xpc[x] = "accounts" =>
             \A k \in Accounts : cache[k] # Absent => k \in xaccounts[x] \/ Forgotten(k \in late)
        /\ xpc[x] = "accounts" /\ Alone(x) /\ bn \notin gone =>
             \A k \in Slots : cache[k] = Absent \/ cache[k] = <<k, bn>>

Freshness == Timely /\ Recorded /\ Refetched /\ OnlyLateIsStale

-----------------------------------------------------------------------------
(* Types, in parts. *)

RootTypes ==
    /\ bn \in Heights /\ gone \subseteq Heights
    /\ cache \in [Keys -> Entries \cup {Absent}]
    /\ accessed \subseteq Accounts
    /\ keyFile \subseteq Slots
    /\ mutex \in Resetters \cup {None}

ReaderTypes ==
    /\ rpc \in [Readers -> {"idle", "push", "offer", "wait", "store"}]
    /\ want \in [Readers -> Keys \cup {None}]
    /\ got \in [Readers -> Entries \cup {None}]
    /\ queue \in [Kinds -> Seq(Readers)]

SlotTypes ==
    /\ tpc \in {"measure", "select", "drain", "load", "mark", "call", "reply"}
    /\ lens \in [Kinds -> Nat]
    /\ job \in Kinds \cup {None}
    /\ todo \in Nat
    /\ batch \in Seq(Readers)
    /\ height \in Heights \cup {None}
    /\ values \in Seq(Entries)
    /\ sent \in Nat
    /\ tries \in 0 .. MaxTries

ResetTypes ==
    /\ xpc \in [Resetters -> {"idle", "lock", "slots", "accounts"}]
    /\ xheight \in [Resetters -> Heights \cup {None}]
    /\ xaccounts \in [Resetters -> SUBSET Accounts]
    /\ lastReset \in {"ok", "slotsFail", "accountsFail"}

HistoryTypes == crossed \subseteq Readers /\ late \subseteq Keys

LEMMA TypeParts ==
    TypeOK <=> RootTypes /\ ReaderTypes /\ SlotTypes /\ ResetTypes /\ HistoryTypes
BY DEF TypeOK, RootTypes, ReaderTypes, SlotTypes, ResetTypes, HistoryTypes

\* Where the requests are.
Travel == ReaderTypes /\ SlotTypes /\ Wanting /\ Queued /\ Batched /\ Staged

LEMMA KindTypes == ASSUME NEW k PROVE KindOf(k) \in Kinds
BY DEF KindOf, Kinds

LEMMA TravelFrame ==
    ASSUME Travel, UNCHANGED <<readVars, queue, slotVars>>
    PROVE  Travel'
<1>1. /\ rpc' = rpc /\ want' = want /\ got' = got /\ queue' = queue /\ tpc' = tpc /\ lens' = lens
      /\ job' = job /\ todo' = todo /\ batch' = batch /\ height' = height /\ values' = values
      /\ sent' = sent /\ tries' = tries
  BY DEF readVars, slotVars
<1>2. ReaderTypes' /\ SlotTypes'
  BY <1>1 DEF Travel, ReaderTypes, SlotTypes
<1>3. Wanting' /\ Staged'
  BY <1>1 DEF Travel, Wanting, Staged
<1>4. Queued' /\ Batched'
  BY <1>1 DEF Travel, Queued, Batched
<1>. QED
  BY <1>2, <1>3, <1>4 DEF Travel

\* A reader outside queue and batch moves.
LEMMA OutsideStep ==
    ASSUME Travel, NEW r \in Readers, rpc[r] # "offer", rpc[r] # "wait",
           queue' = queue, batch' = batch, job' = job,
           \A s \in Readers \ {r} : rpc'[s] = rpc[s] /\ want'[s] = want[s]
    PROVE  Queued' /\ Batched'
<1>1. /\ queue \in [Kinds -> Seq(Readers)] /\ batch \in Seq(Readers)
  BY DEF Travel, ReaderTypes, SlotTypes
<1>2. ASSUME NEW kind \in Kinds, NEW i \in 1 .. Len(queue[kind])
      PROVE  queue[kind][i] \in Readers \ {r}
  <2>1. rpc[queue[kind][i]] = "offer"
    BY DEF Travel, Queued
  <2>. QED
    BY <1>1, <2>1
<1>3. ASSUME NEW i \in 1 .. Len(batch)
      PROVE  batch[i] \in Readers \ {r}
  <2>1. rpc[batch[i]] = "wait"
    BY DEF Travel, Batched
  <2>. QED
    BY <1>1, <2>1
<1>4. Queued'
  BY <1>2, ZenonT(40) DEF Travel, Queued
<1>5. Batched'
  BY <1>3, Zenon DEF Travel, Batched
<1>. QED
  BY <1>4, <1>5

LEMMA MissTravel ==
    ASSUME Travel, NEW r \in Readers, NEW k \in Keys, Miss(r, k)
    PROVE  Travel'
<1>1. /\ rpc[r] = "idle" /\ rpc' = [rpc EXCEPT ![r] = "push"] /\ want' = [want EXCEPT ![r] = k]
      /\ got' = got /\ queue' = queue /\ UNCHANGED slotVars
  BY DEF Miss
<1>2. /\ batch' = batch /\ job' = job /\ tpc' = tpc /\ todo' = todo /\ height' = height
      /\ values' = values /\ sent' = sent /\ tries' = tries /\ lens' = lens
  BY <1>1 DEF slotVars
<1>3. ReaderTypes' /\ Wanting'
  BY <1>1 DEF Travel, ReaderTypes, Wanting
<1>4. SlotTypes' /\ Staged'
  BY <1>2 DEF Travel, SlotTypes, Staged
<1>5. \A s \in Readers \ {r} : rpc'[s] = rpc[s] /\ want'[s] = want[s]
  BY <1>1 DEF Travel, ReaderTypes
<1>6. Queued' /\ Batched'
  BY <1>1, <1>2, <1>5, OutsideStep
<1>. QED
  BY <1>3, <1>4, <1>6 DEF Travel

LEMMA StoreTravel ==
    ASSUME Travel, NEW r \in Readers, Store(r)
    PROVE  Travel'
<1>1. /\ rpc[r] = "store" /\ rpc' = [rpc EXCEPT ![r] = "idle"] /\ want' = [want EXCEPT ![r] = None]
      /\ got' = [got EXCEPT ![r] = None] /\ queue' = queue /\ UNCHANGED slotVars
  BY DEF Store
<1>2. /\ batch' = batch /\ job' = job /\ tpc' = tpc /\ todo' = todo /\ height' = height
      /\ values' = values /\ sent' = sent /\ tries' = tries /\ lens' = lens
  BY <1>1 DEF slotVars
<1>3. ReaderTypes' /\ Wanting'
  BY <1>1 DEF Travel, ReaderTypes, Wanting
<1>4. SlotTypes' /\ Staged'
  BY <1>2 DEF Travel, SlotTypes, Staged
<1>5. \A s \in Readers \ {r} : rpc'[s] = rpc[s] /\ want'[s] = want[s]
  BY <1>1 DEF Travel, ReaderTypes
<1>6. Queued' /\ Batched'
  BY <1>1, <1>2, <1>5, OutsideStep
<1>. QED
  BY <1>3, <1>4, <1>6 DEF Travel

\* The new reader of a queue is in no queue yet.
LEMMA PushTravel ==
    ASSUME Travel, NEW r \in Readers, Push(r)
    PROVE  Travel'
<1>. DEFINE kind == KindOf(want[r])
<1>1. /\ rpc[r] = "push" /\ rpc' = [rpc EXCEPT ![r] = "offer"] /\ want' = want
      /\ got' = got /\ queue' = [queue EXCEPT ![kind] = Append(@, r)] /\ UNCHANGED slotVars
  BY DEF Push
<1>2. /\ batch' = batch /\ job' = job /\ tpc' = tpc /\ todo' = todo /\ height' = height
      /\ values' = values /\ sent' = sent /\ tries' = tries /\ lens' = lens
  BY <1>1 DEF slotVars
<1>3. kind \in Kinds
  BY KindTypes
<1>. HIDE DEF kind
<1>4. /\ rpc \in [Readers -> {"idle", "push", "offer", "wait", "store"}]
      /\ queue \in [Kinds -> Seq(Readers)] /\ batch \in Seq(Readers)
  BY DEF Travel, ReaderTypes, SlotTypes
<1>5. /\ \A s \in Readers \ {r} : rpc'[s] = rpc[s]
      /\ rpc'[r] = "offer"
      /\ \A q \in Kinds \ {kind} : queue'[q] = queue[q]
      /\ queue'[kind] = Append(queue[kind], r)
  BY <1>1, <1>3, <1>4
<1>6. ReaderTypes' /\ Wanting'
  BY <1>1, <1>3 DEF Travel, ReaderTypes, Wanting
<1>7. SlotTypes' /\ Staged'
  BY <1>2 DEF Travel, SlotTypes, Staged
<1>8. ASSUME NEW q \in Kinds, NEW i \in 1 .. Len(queue[q])
      PROVE  queue[q][i] \in Readers \ {r}
  <2>1. rpc[queue[q][i]] = "offer"
    BY DEF Travel, Queued
  <2>. QED
    BY <1>1, <1>4, <2>1
<1>9. ASSUME NEW i \in 1 .. Len(batch)
      PROVE  batch[i] \in Readers \ {r}
  <2>1. rpc[batch[i]] = "wait"
    BY DEF Travel, Batched
  <2>. QED
    BY <1>1, <1>4, <2>1
<1>10. Batched'
  <2>1. /\ \A i \in 1 .. Len(batch) : rpc'[batch[i]] = "wait" /\ KindOf(want[batch[i]]) = job
        /\ \A i, j \in 1 .. Len(batch) : batch[i] = batch[j] => i = j
    BY <1>5, <1>9, Zenon DEF Travel, Batched
  <2>2. want' = want
    BY <1>1
  <2>. QED
    BY <1>2, <2>1, <2>2, Zenon DEF Batched
<1>11. Queued'
  <2>. SUFFICES ASSUME NEW q \in Kinds
                PROVE  /\ \A i \in 1 .. Len(queue'[q]) :
                            rpc'[queue'[q][i]] = "offer" /\ KindOf(want[queue'[q][i]]) = q
                       /\ \A i, j \in 1 .. Len(queue'[q]) : queue'[q][i] = queue'[q][j] => i = j
    BY <1>1, Zenon DEF Queued
  <2>1. CASE q # kind
    <3>1. queue'[q] = queue[q]
      BY <1>5, <2>1
    <3>2. \A i \in 1 .. Len(queue[q]) : rpc'[queue[q][i]] = rpc[queue[q][i]]
      BY <1>5, <1>8, Zenon
    <3>. QED
      BY <3>1, <3>2, Zenon DEF Travel, Queued
  <2>2. CASE q = kind
    <3>1. /\ queue'[q] = Append(queue[q], r) /\ queue[q] \in Seq(Readers)
      BY <1>4, <1>5, <2>2
    <3>2. /\ Len(queue'[q]) = Len(queue[q]) + 1 /\ Len(queue[q]) \in Nat
          /\ \A i \in 1 .. Len(queue[q]) : queue'[q][i] = queue[q][i]
          /\ queue'[q][Len(queue[q]) + 1] = r
      BY <3>1
    <3>3. \A i \in 1 .. Len(queue'[q]) : i \in 1 .. Len(queue[q]) \/ i = Len(queue[q]) + 1
      BY <3>2
    <3>4. KindOf(want[r]) = q
      BY <2>2 DEF kind
    <3>5. /\ \A i \in 1 .. Len(queue[q]) :
               rpc[queue[q][i]] = "offer" /\ KindOf(want[queue[q][i]]) = q
          /\ \A i, j \in 1 .. Len(queue[q]) : queue[q][i] = queue[q][j] => i = j
      BY DEF Travel, Queued
    <3>6. \A i \in 1 .. Len(queue'[q]) :
            rpc'[queue'[q][i]] = "offer" /\ KindOf(want[queue'[q][i]]) = q
      BY <1>5, <1>8, <3>2, <3>3, <3>4, <3>5, ZenonT(40)
    <3>7. ASSUME NEW i \in 1 .. Len(queue'[q]), NEW j \in 1 .. Len(queue'[q]),
                 queue'[q][i] = queue'[q][j]
          PROVE  i = j
      <4>1. CASE i \in 1 .. Len(queue[q]) /\ j \in 1 .. Len(queue[q])
        BY <3>2, <3>5, <3>7, <4>1, Zenon
      <4>2. CASE i = Len(queue[q]) + 1 /\ j = Len(queue[q]) + 1
        BY <4>2
      <4>3. CASE i \in 1 .. Len(queue[q]) /\ j = Len(queue[q]) + 1
        BY <1>8, <3>2, <3>7, <4>3
      <4>4. CASE i = Len(queue[q]) + 1 /\ j \in 1 .. Len(queue[q])
        BY <1>8, <3>2, <3>7, <4>4
      <4>. QED
        BY <3>3, <4>1, <4>2, <4>3, <4>4
    <3>. QED
      BY <3>6, <3>7
  <2>. QED
    BY <2>1, <2>2
<1>. QED
  BY <1>6, <1>7, <1>10, <1>11 DEF Travel

\* timeSlot moves on and leaves readers, queues and batch alone.
LEMMA InsideStep ==
    ASSUME Travel, UNCHANGED <<readVars, queue>>, batch' = batch, job' = job
    PROVE  ReaderTypes' /\ Wanting' /\ Queued' /\ Batched'
<1>1. rpc' = rpc /\ want' = want /\ got' = got /\ queue' = queue
  BY DEF readVars
<1>2. ReaderTypes' /\ Wanting'
  BY <1>1 DEF Travel, ReaderTypes, Wanting
<1>3. Queued' /\ Batched'
  BY <1>1 DEF Travel, Queued, Batched
<1>. QED
  BY <1>2, <1>3

LEMMA MeasureTravel == ASSUME Travel, Measure PROVE Travel'
<1>1. /\ tpc = "measure" /\ tpc' = "select" /\ lens' = [kind \in Kinds |-> Len(queue[kind])]
      /\ UNCHANGED <<readVars, queue>> /\ job' = job /\ todo' = todo /\ batch' = batch
      /\ height' = height /\ values' = values /\ sent' = sent /\ tries' = tries
  BY DEF Measure
<1>2. ReaderTypes' /\ Wanting' /\ Queued' /\ Batched'
  BY <1>1, InsideStep
<1>3. \A kind \in Kinds : Len(queue[kind]) \in Nat
  BY DEF Travel, ReaderTypes
<1>4. SlotTypes'
  BY <1>1, <1>3 DEF Travel, SlotTypes
<1>5. Staged'
  BY <1>1 DEF Travel, Staged
<1>. QED
  BY <1>2, <1>4, <1>5 DEF Travel

LEMMA TickTravel == ASSUME Travel, NEW kind \in Kinds, Tick(kind) PROVE Travel'
<1>1. /\ tpc = "select" /\ lens' = [q \in Kinds |-> 0]
      /\ \/ tpc' = "measure" /\ job' = job /\ todo' = todo
         \/ lens[kind] # 0 /\ tpc' = "drain" /\ job' = kind /\ todo' = lens[kind]
      /\ UNCHANGED <<readVars, queue>> /\ batch' = batch
      /\ height' = height /\ values' = values /\ sent' = sent /\ tries' = tries
  BY DEF Tick
<1>2. batch = <<>> /\ Len(batch) = 0
  BY <1>1 DEF Travel, Staged
<1>3. rpc' = rpc /\ want' = want /\ got' = got /\ queue' = queue
  BY <1>1 DEF readVars
<1>4. ReaderTypes' /\ Wanting'
  BY <1>3 DEF Travel, ReaderTypes, Wanting
<1>5. Queued'
  BY <1>3 DEF Travel, Queued
<1>6. Batched'
  BY <1>1, <1>2 DEF Batched
<1>7. SlotTypes'
  BY <1>1 DEF Travel, SlotTypes
<1>8. Staged'
  BY <1>1, <1>2 DEF Travel, Staged
<1>. QED
  BY <1>4, <1>5, <1>6, <1>7, <1>8 DEF Travel

LEMMA LoadTravel == ASSUME Travel, bn \in Heights, Load PROVE Travel'
<1>1. /\ tpc = "load" /\ height' = bn /\ values' = [i \in DOMAIN batch |-> Zero] /\ sent' = 0
      /\ tries' = 0 /\ tpc' = (IF job = "account" THEN "mark" ELSE "call")
      /\ UNCHANGED <<readVars, queue>> /\ lens' = lens /\ job' = job /\ todo' = todo /\ batch' = batch
  BY DEF Load
<1>2. ReaderTypes' /\ Wanting' /\ Queued' /\ Batched'
  BY <1>1, InsideStep
<1>3. batch \in Seq(Readers) /\ batch # <<>> /\ job \in Kinds
  BY <1>1 DEF Travel, SlotTypes, Staged
<1>4. values' \in Seq(Entries) /\ Len(values') = Len(batch) /\ Len(batch) \in Nat
  <2>1. Zero \in Entries
    BY DEF Entries
  <2>2. DOMAIN batch = 1 .. Len(batch) /\ Len(batch) \in Nat
    BY <1>3
  <2>. QED
    BY <1>1, <2>1, <2>2
<1>5. 0 \in 0 .. MaxTries
  BY SizesAssumption
<1>6. SlotTypes'
  BY <1>1, <1>4, <1>5 DEF Travel, SlotTypes
<1>7. Staged'
  BY <1>1, <1>3, <1>4 DEF Staged
<1>. QED
  BY <1>2, <1>6, <1>7 DEF Travel

LEMMA MarkTravel == ASSUME Travel, Mark PROVE Travel'
<1>1. /\ tpc = "mark" /\ tpc' = "call" /\ height' = height /\ values' = values /\ sent' = sent
      /\ tries' = tries /\ UNCHANGED <<readVars, queue>> /\ lens' = lens /\ job' = job
      /\ todo' = todo /\ batch' = batch
  BY DEF Mark
<1>2. ReaderTypes' /\ Wanting' /\ Queued' /\ Batched'
  BY <1>1, InsideStep
<1>3. SlotTypes'
  BY <1>1 DEF Travel, SlotTypes
<1>4. Len(batch) \in Nat
  BY DEF Travel, SlotTypes
<1>5. Staged'
  BY <1>1, <1>4 DEF Travel, Staged, SlotTypes
<1>. QED
  BY <1>2, <1>3, <1>5 DEF Travel

\* The answer to a known key at a known height is an entry.
LEMMA AnswerType == ASSUME NEW k \in Keys, NEW n \in Heights PROVE Answer(k, n) \in Entries
BY DEF Answer, Entries

LEMMA TupleType ==
    ASSUME NEW S, NEW n \in Nat, NEW f \in [1 .. n -> S]
    PROVE  f \in Seq(S) /\ Len(f) = n
OBVIOUS

LEMMA ChunkEndType ==
    ASSUME Travel, tpc = "call"
    PROVE  /\ Len(batch) \in Nat /\ sent <= ChunkEnd /\ ChunkEnd <= Len(batch)
           /\ ChunkEnd \in Nat /\ sent \in Nat /\ sent <= Len(batch)
<1>1. batch \in Seq(Readers) /\ sent \in Nat /\ sent <= Len(batch) /\ Len(batch) \in Nat
  BY DEF Travel, SlotTypes, Staged
<1>. QED
  BY <1>1, SizesAssumption DEF ChunkEnd

\* The members of the batch are readers that know their keys.
LEMMA MemberType ==
    ASSUME Travel, NEW i \in 1 .. Len(batch)
    PROVE  batch[i] \in Readers /\ want[batch[i]] \in Keys
<1>1. batch[i] \in Readers
  BY DEF Travel, SlotTypes
<1>2. rpc[batch[i]] = "wait"
  BY DEF Travel, Batched
<1>. QED
  BY <1>1, <1>2 DEF Travel, Wanting

LEMMA CallReturnsTravel == ASSUME Travel, CallReturns PROVE Travel'
<1>1. /\ tpc = "call"
      /\ values' = [i \in DOMAIN values |->
                      IF i \in Chunk THEN Answer(want[batch[i]], height) ELSE values[i]]
      /\ sent' = ChunkEnd /\ tpc' = (IF ChunkEnd = Len(batch) THEN "reply" ELSE "call")
      /\ UNCHANGED <<readVars, queue>> /\ lens' = lens /\ job' = job /\ todo' = todo
      /\ batch' = batch /\ height' = height /\ tries' = tries
  BY DEF CallReturns
<1>2. ReaderTypes' /\ Wanting' /\ Queued' /\ Batched'
  BY <1>1, InsideStep
<1>3. /\ Len(batch) \in Nat /\ ChunkEnd \in Nat /\ ChunkEnd <= Len(batch)
  BY <1>1, ChunkEndType
<1>4. values \in Seq(Entries) /\ Len(values) = Len(batch) /\ height \in Heights
      /\ DOMAIN values = 1 .. Len(batch)
  BY <1>1 DEF Travel, SlotTypes, Staged
<1>5. \A i \in 1 .. Len(batch) : Answer(want[batch[i]], height) \in Entries /\ values[i] \in Entries
  BY <1>4, MemberType, AnswerType
<1>6. values' \in Seq(Entries) /\ Len(values') = Len(batch)
  <2>1. values' \in [1 .. Len(batch) -> Entries]
    BY <1>1, <1>4, <1>5
  <2>. QED
    BY <1>3, <2>1, TupleType
<1>7. SlotTypes'
  BY <1>1, <1>3, <1>6 DEF Travel, SlotTypes
<1>8. Staged'
  BY <1>1, <1>3, <1>6 DEF Travel, Staged
<1>. QED
  BY <1>2, <1>7, <1>8 DEF Travel

LEMMA CallFailsTravel == ASSUME Travel, CallFails PROVE Travel'
<1>1. /\ tpc = "call"
      /\ \/ tries < MaxTries /\ tries' = tries + 1 /\ tpc' = tpc
         \/ tpc' = "load" /\ tries' = 0
      /\ UNCHANGED <<readVars, queue>> /\ lens' = lens /\ job' = job /\ todo' = todo
      /\ batch' = batch /\ height' = height /\ values' = values /\ sent' = sent
  BY DEF CallFails
<1>2. ReaderTypes' /\ Wanting' /\ Queued' /\ Batched'
  BY <1>1, InsideStep
<1>3. tries' \in 0 .. MaxTries
  BY <1>1, SizesAssumption DEF Travel, SlotTypes
<1>4. SlotTypes'
  BY <1>1, <1>3 DEF Travel, SlotTypes
<1>5. Staged'
  BY <1>1 DEF Travel, Staged
<1>. QED
  BY <1>2, <1>4, <1>5 DEF Travel

\* The first of a sequence, and the rest.
LEMMA HeadTail ==
    ASSUME NEW S, NEW s \in Seq(S), s # <<>>
    PROVE  /\ Len(s) \in Nat /\ 1 \in 1 .. Len(s) /\ Head(s) = s[1] /\ Head(s) \in S
           /\ Tail(s) \in Seq(S) /\ Len(Tail(s)) = Len(s) - 1
           /\ \A i \in 1 .. Len(Tail(s)) : /\ i + 1 \in 1 .. Len(s) /\ i + 1 # 1
                                           /\ Tail(s)[i] = s[i + 1]
OBVIOUS

\* What is left of a list without repetitions does not mention its head.
LEMMA TailUnique ==
    ASSUME NEW S, NEW s \in Seq(S), s # <<>>,
           \A i, j \in 1 .. Len(s) : s[i] = s[j] => i = j
    PROVE  /\ \A i \in 1 .. Len(Tail(s)) : Tail(s)[i] # Head(s)
           /\ \A i, j \in 1 .. Len(Tail(s)) : Tail(s)[i] = Tail(s)[j] => i = j
<1>1. /\ 1 \in 1 .. Len(s) /\ Head(s) = s[1]
      /\ \A i \in 1 .. Len(Tail(s)) : i + 1 \in 1 .. Len(s) /\ i + 1 # 1 /\ Tail(s)[i] = s[i + 1]
  BY HeadTail
<1>2. \A i \in 1 .. Len(Tail(s)) : Tail(s)[i] # Head(s)
  BY <1>1, Zenon
<1>3. ASSUME NEW i \in 1 .. Len(Tail(s)), NEW j \in 1 .. Len(Tail(s)), Tail(s)[i] = Tail(s)[j]
      PROVE  i = j
  <2>1. i + 1 = j + 1
    BY <1>1, <1>3, Zenon
  <2>. QED
    BY <2>1
<1>. QED
  BY <1>2, <1>3

LEMMA DrainTravel == ASSUME Travel, Drain PROVE Travel'
<1>. DEFINE r == Head(queue[job])
<1>1. /\ tpc = "drain" /\ queue[job] # <<>> /\ rpc[r] = "offer" /\ rpc' = [rpc EXCEPT ![r] = "wait"]
      /\ batch' = Append(batch, r) /\ queue' = [queue EXCEPT ![job] = Tail(@)]
      /\ todo' = todo - 1 /\ tpc' = (IF todo = 1 THEN "load" ELSE "drain")
      /\ want' = want /\ got' = got /\ lens' = lens /\ job' = job
      /\ height' = height /\ values' = values /\ sent' = sent /\ tries' = tries
  BY DEF Drain
<1>2. /\ queue \in [Kinds -> Seq(Readers)] /\ batch \in Seq(Readers) /\ job \in Kinds
      /\ rpc \in [Readers -> {"idle", "push", "offer", "wait", "store"}]
      /\ todo \in Nat /\ todo # 0
  BY <1>1 DEF Travel, ReaderTypes, SlotTypes, Staged
<1>3. queue[job] \in Seq(Readers)
  BY <1>2
<1>4. /\ r \in Readers /\ 1 \in 1 .. Len(queue[job]) /\ r = queue[job][1]
      /\ Tail(queue[job]) \in Seq(Readers)
      /\ \A i \in 1 .. Len(Tail(queue[job])) : /\ i + 1 \in 1 .. Len(queue[job])
                                               /\ Tail(queue[job])[i] = queue[job][i + 1]
  BY <1>1, <1>3, HeadTail
<1>5. KindOf(want[r]) = job
  BY <1>2, <1>4 DEF Travel, Queued
<1>6. /\ \A i \in 1 .. Len(Tail(queue[job])) : Tail(queue[job])[i] # r
      /\ \A i, j \in 1 .. Len(Tail(queue[job])) : Tail(queue[job])[i] = Tail(queue[job])[j] => i = j
  <2>1. \A i, j \in 1 .. Len(queue[job]) : queue[job][i] = queue[job][j] => i = j
    BY <1>2 DEF Travel, Queued
  <2>. QED
    BY <1>1, <1>3, <2>1, TailUnique
<1>. HIDE DEF r
<1>7. /\ rpc'[r] = "wait" /\ \A s \in Readers \ {r} : rpc'[s] = rpc[s]
      /\ queue'[job] = Tail(queue[job]) /\ \A q \in Kinds \ {job} : queue'[q] = queue[q]
      /\ queue' \in [Kinds -> Seq(Readers)]
      /\ rpc' \in [Readers -> {"idle", "push", "offer", "wait", "store"}]
  BY <1>1, <1>2, <1>4
<1>8. ReaderTypes'
  BY <1>1, <1>7 DEF Travel, ReaderTypes
<1>9. Wanting'
  BY <1>1, <1>4, <1>7 DEF Travel, Wanting
<1>10. /\ Len(batch) \in Nat /\ Len(batch') = Len(batch) + 1 /\ batch'[Len(batch) + 1] = r
       /\ \A i \in 1 .. Len(batch) : batch'[i] = batch[i]
       /\ batch' \in Seq(Readers) /\ batch' # <<>>
  <2>1. batch' = Append(batch, r) /\ batch \in Seq(Readers) /\ r \in Readers
    BY <1>1, <1>2, <1>4
  <2>. QED
    BY <2>1
<1>11. SlotTypes' /\ Staged'
  <2>1. todo' \in Nat /\ (tpc' = "drain" => todo' # 0)
    BY <1>1, <1>2
  <2>2. SlotTypes'
    BY <1>1, <1>10, <2>1 DEF Travel, SlotTypes
  <2>3. Staged'
    BY <1>1, <1>2, <1>10, <2>1 DEF Staged
  <2>. QED
    BY <2>2, <2>3
<1>12. \A i \in 1 .. Len(batch) : batch[i] \in Readers \ {r}
  <2>1. \A i \in 1 .. Len(batch) : rpc[batch[i]] = "wait"
    BY DEF Travel, Batched
  <2>2. rpc[r] # "wait" /\ batch \in Seq(Readers)
    BY <1>1, <1>2
  <2>. QED
    BY <2>1, <2>2
<1>13. Batched'
  <2>1. \A i \in 1 .. Len(batch') : i \in 1 .. Len(batch) \/ i = Len(batch) + 1
    BY <1>10
  <2>2. \A i \in 1 .. Len(batch) : rpc'[batch[i]] = "wait" /\ KindOf(want[batch[i]]) = job
    BY <1>7, <1>12, Zenon DEF Travel, Batched
  <2>3. \A i \in 1 .. Len(batch') : rpc'[batch'[i]] = "wait" /\ KindOf(want[batch'[i]]) = job
    BY <1>5, <1>7, <1>10, <2>1, <2>2, ZenonT(40)
  <2>4. ASSUME NEW i \in 1 .. Len(batch'), NEW j \in 1 .. Len(batch'), batch'[i] = batch'[j]
        PROVE  i = j
    <3>1. \A m, n \in 1 .. Len(batch) : batch[m] = batch[n] => m = n
      BY DEF Travel, Batched
    <3>2. CASE i \in 1 .. Len(batch) /\ j \in 1 .. Len(batch)
      BY <1>10, <2>4, <3>1, <3>2, Zenon
    <3>3. CASE i = Len(batch) + 1 /\ j = Len(batch) + 1
      BY <3>3
    <3>4. CASE i \in 1 .. Len(batch) /\ j = Len(batch) + 1
      BY <1>10, <1>12, <2>4, <3>4, Zenon
    <3>5. CASE i = Len(batch) + 1 /\ j \in 1 .. Len(batch)
      BY <1>10, <1>12, <2>4, <3>5, Zenon
    <3>. QED
      BY <2>1, <3>2, <3>3, <3>4, <3>5
  <2>5. want' = want /\ job' = job
    BY <1>1
  <2>. QED
    BY <2>3, <2>4, <2>5, Zenon DEF Batched
<1>14. Queued'
  <2>. SUFFICES ASSUME NEW q \in Kinds
                PROVE  /\ \A i \in 1 .. Len(queue'[q]) :
                            rpc'[queue'[q][i]] = "offer" /\ KindOf(want[queue'[q][i]]) = q
                       /\ \A i, j \in 1 .. Len(queue'[q]) : queue'[q][i] = queue'[q][j] => i = j
    BY <1>1, Zenon DEF Queued
  <2>1. /\ \A i \in 1 .. Len(queue[q]) :
             rpc[queue[q][i]] = "offer" /\ KindOf(want[queue[q][i]]) = q
        /\ \A i, j \in 1 .. Len(queue[q]) : queue[q][i] = queue[q][j] => i = j
    BY DEF Travel, Queued
  <2>2. CASE q # job
    <3>1. queue'[q] = queue[q] /\ queue[q] \in Seq(Readers)
      BY <1>2, <1>7, <2>2
    <3>2. \A i \in 1 .. Len(queue[q]) : queue[q][i] \in Readers \ {r}
      BY <1>5, <2>1, <2>2, <3>1
    <3>. QED
      BY <1>7, <2>1, <3>1, <3>2, ZenonT(40)
  <2>3. CASE q = job
    <3>1. queue'[q] = Tail(queue[q])
      BY <1>7, <2>3
    <3>2. \A i \in 1 .. Len(Tail(queue[q])) :
            /\ Tail(queue[q])[i] \in Readers \ {r} /\ i + 1 \in 1 .. Len(queue[q])
            /\ Tail(queue[q])[i] = queue[q][i + 1]
      BY <1>4, <1>6, <2>3
    <3>3. \A i \in 1 .. Len(Tail(queue[q])) :
            rpc'[Tail(queue[q])[i]] = "offer" /\ KindOf(want[Tail(queue[q])[i]]) = q
      <4>. SUFFICES ASSUME NEW i \in 1 .. Len(Tail(queue[q]))
                    PROVE  rpc'[Tail(queue[q])[i]] = "offer" /\ KindOf(want[Tail(queue[q])[i]]) = q
        OBVIOUS
      <4>1. rpc'[Tail(queue[q])[i]] = rpc[Tail(queue[q])[i]]
        BY <1>7, <3>2, Zenon
      <4>2. rpc[queue[q][i + 1]] = "offer" /\ KindOf(want[queue[q][i + 1]]) = q
        BY <2>1, <3>2, Zenon
      <4>. QED
        BY <3>2, <4>1, <4>2, Zenon
    <3>. QED
      BY <1>6, <2>3, <3>1, <3>3, ZenonT(40)
  <2>. QED
    BY <2>2, <2>3
<1>. QED
  BY <1>8, <1>9, <1>11, <1>13, <1>14 DEF Travel

LEMMA ReplyMoves ==
    ASSUME Travel, Reply
    PROVE  /\ tpc = "reply" /\ batch # <<>> /\ batch \in Seq(Readers) /\ Head(batch) \in Readers
           /\ values # <<>> /\ values \in Seq(Entries) /\ Len(values) = Len(batch)
           /\ rpc[Head(batch)] = "wait"
           /\ rpc' = [rpc EXCEPT ![Head(batch)] = "store"]
           /\ got' = [got EXCEPT ![Head(batch)] = Head(values)]
           /\ batch' = Tail(batch) /\ values' = Tail(values)
           /\ want' = want /\ queue' = queue /\ lens' = lens /\ todo' = todo
           /\ \/ Len(batch) = 1 /\ tpc' = "measure" /\ job' = None /\ height' = None
                 /\ sent' = 0 /\ tries' = 0
              \/ Len(batch) # 1 /\ tpc' = tpc /\ job' = job /\ height' = height
                 /\ sent' = sent /\ tries' = tries
<1>1. /\ tpc = "reply" /\ batch # <<>> /\ batch \in Seq(Readers)
      /\ values \in Seq(Entries) /\ Len(values) = Len(batch)
  BY DEF Reply, Travel, SlotTypes, Staged
<1>2. Head(batch) \in Readers /\ values # <<>>
  BY <1>1
<1>. QED
  BY <1>1, <1>2 DEF Reply, GoRound

LEMMA ReplyTravel == ASSUME Travel, Reply PROVE Travel'
<1>. DEFINE r == Head(batch)
<1>1. /\ tpc = "reply" /\ batch # <<>> /\ batch \in Seq(Readers) /\ r \in Readers
      /\ values # <<>> /\ values \in Seq(Entries) /\ Len(values) = Len(batch)
      /\ rpc[r] = "wait"
      /\ rpc' = [rpc EXCEPT ![r] = "store"]
      /\ got' = [got EXCEPT ![r] = Head(values)]
      /\ batch' = Tail(batch) /\ values' = Tail(values)
      /\ want' = want /\ queue' = queue /\ lens' = lens /\ todo' = todo
  BY ReplyMoves
<1>2. \/ Len(batch) = 1 /\ tpc' = "measure" /\ job' = None /\ height' = None
         /\ sent' = 0 /\ tries' = 0
      \/ Len(batch) # 1 /\ tpc' = tpc /\ job' = job /\ height' = height
         /\ sent' = sent /\ tries' = tries
  BY ReplyMoves
<1>3. /\ Len(batch) \in Nat /\ 1 \in 1 .. Len(batch) /\ r = batch[1]
      /\ Tail(batch) \in Seq(Readers) /\ Len(Tail(batch)) = Len(batch) - 1
      /\ \A i \in 1 .. Len(Tail(batch)) : /\ i + 1 \in 1 .. Len(batch)
                                          /\ Tail(batch)[i] = batch[i + 1]
  BY <1>1, HeadTail
<1>4. /\ Tail(values) \in Seq(Entries) /\ Len(Tail(values)) = Len(batch) - 1
      /\ Head(values) \in Entries
  BY <1>1, HeadTail
<1>5. /\ \A i \in 1 .. Len(Tail(batch)) : Tail(batch)[i] # r
      /\ \A i, j \in 1 .. Len(Tail(batch)) : Tail(batch)[i] = Tail(batch)[j] => i = j
  <2>1. \A i, j \in 1 .. Len(batch) : batch[i] = batch[j] => i = j
    BY DEF Travel, Batched
  <2>. QED
    BY <1>1, <2>1, TailUnique
<1>. HIDE DEF r
<1>6. /\ rpc \in [Readers -> {"idle", "push", "offer", "wait", "store"}]
      /\ got \in [Readers -> Entries \cup {None}]
      /\ queue \in [Kinds -> Seq(Readers)]
  BY DEF Travel, ReaderTypes
<1>7. /\ rpc'[r] = "store" /\ \A s \in Readers \ {r} : rpc'[s] = rpc[s]
  BY <1>1, <1>6
<1>8. ReaderTypes'
  BY <1>1, <1>4, <1>6 DEF Travel, ReaderTypes
<1>9. Wanting'
  BY <1>1, <1>7 DEF Travel, Wanting
<1>10. SlotTypes'
  <2>1. 0 \in 0 .. MaxTries
    BY SizesAssumption
  <2>. QED
    BY <1>1, <1>2, <1>3, <1>4, <2>1 DEF Travel, SlotTypes
<1>11. Staged'
  <2>1. CASE Len(batch) = 1
    <3>1. batch' = <<>> /\ tpc' = "measure"
      BY <1>1, <1>2, <1>3, <2>1
    <3>. QED
      BY <3>1 DEF Staged
  <2>2. CASE Len(batch) # 1
    <3>0. /\ tpc' = "reply" /\ job' = job /\ height' = height
      BY <1>1, <1>2, <2>2, Zenon
    <3>a. Len(values') = Len(batch')
      BY <1>1, <1>3, <1>4, Zenon
    <3>b. batch' # <<>>
      <4>1. Len(Tail(batch)) # 0
        BY <1>3, <2>2
      <4>2. Len(batch') # 0
        BY <1>1, <4>1, Zenon
      <4>. QED
        BY <4>2
    <3>1. /\ tpc' = "reply" /\ job' = job /\ height' = height
          /\ Len(values') = Len(batch') /\ batch' # <<>>
      BY <3>0, <3>a, <3>b
    <3>2. job \in Kinds /\ height \in Heights
      BY <1>1 DEF Travel, Staged
    <3>. QED
      BY <3>1, <3>2 DEF Staged
  <2>. QED
    BY <2>1, <2>2
<1>12. \A q \in Kinds : \A i \in 1 .. Len(queue[q]) : queue[q][i] \in Readers \ {r}
  <2>. SUFFICES ASSUME NEW q \in Kinds, NEW i \in 1 .. Len(queue[q])
                PROVE  queue[q][i] \in Readers \ {r}
    OBVIOUS
  <2>1. rpc[queue[q][i]] = "offer"
    BY DEF Travel, Queued
  <2>. QED
    BY <1>1, <1>6, <2>1
<1>13. Queued'
  <2>1. queue' = queue /\ want' = want
    BY <1>1
  <2>. QED
    BY <1>7, <1>12, <2>1, Zenon DEF Travel, Queued
<1>14. Batched'
  <2>1. \A i \in 1 .. Len(Tail(batch)) : Tail(batch)[i] \in Readers \ {r}
    BY <1>3, <1>5
  <2>2. \A i \in 1 .. Len(Tail(batch)) :
          rpc'[Tail(batch)[i]] = "wait" /\ KindOf(want[Tail(batch)[i]]) = job
    <3>. SUFFICES ASSUME NEW i \in 1 .. Len(Tail(batch))
                  PROVE  rpc'[Tail(batch)[i]] = "wait" /\ KindOf(want[Tail(batch)[i]]) = job
      OBVIOUS
    <3>1. rpc'[Tail(batch)[i]] = rpc[Tail(batch)[i]]
      BY <1>7, <2>1, Zenon
    <3>2. rpc[batch[i + 1]] = "wait" /\ KindOf(want[batch[i + 1]]) = job
      BY <1>3, Zenon DEF Travel, Batched
    <3>. QED
      BY <1>3, <3>1, <3>2, Zenon
  <2>3. \A i \in 1 .. Len(Tail(batch)) : job' = job
    BY <1>2, <1>3
  <2>4. batch' = Tail(batch) /\ want' = want
    BY <1>1
  <2>. QED
    BY <1>5, <2>2, <2>3, <2>4, Zenon DEF Batched
<1>. QED
  BY <1>8, <1>9, <1>10, <1>11, <1>13, <1>14 DEF Travel

-----------------------------------------------------------------------------
(* Answers. *)

\* v answers k, given the heights upstream has lost.
Right(v, k, lost) == v \in {<<k, n>> : n \in Heights} \/ (v = Zero /\ lost # {})

LEMMA RightMore ==
    ASSUME NEW v, NEW k, NEW lost, NEW more, lost \subseteq more, Right(v, k, lost)
    PROVE  Right(v, k, more)
BY DEF Right

LEMMA RightType == ASSUME NEW v, NEW k \in Keys, NEW lost, Right(v, k, lost) PROVE v \in Entries
BY DEF Right, Entries

LEMMA AnswerRight == ASSUME NEW k, NEW n \in Heights PROVE Right(Answer(k, n), k, gone)
BY DEF Right, Answer

ReadersMatch == \A r \in Readers : rpc[r] = "store" => Right(got[r], want[r], gone)

CacheMatch == \A k \in Keys : cache[k] \in {Absent, Blank} \/ Right(cache[k], k, gone)

BatchMatch == \A i \in 1 .. Answered : Right(values[i], want[batch[i]], gone)

LEMMA MatchParts == /\ AnswersMatch <=> ReadersMatch /\ CacheMatch
                    /\ Served <=> BatchMatch
<1>1. AnswersMatch <=> ReadersMatch /\ CacheMatch
  BY DEF AnswersMatch, ReadersMatch, CacheMatch, IsAnswer, Right
<1>2. Served <=> BatchMatch
  BY DEF Served, BatchMatch, IsAnswer, Right
<1>. QED
  BY <1>1, <1>2

LEMMA AnsweredType ==
    ASSUME Travel
    PROVE  Answered \in Nat /\ Answered <= Len(batch) /\ 1 .. Answered \subseteq 1 .. Len(batch)
<1>1. Len(batch) \in Nat /\ sent \in Nat /\ (tpc = "call" => sent <= Len(batch))
  BY DEF Travel, SlotTypes, Staged
<1>2. Answered \in Nat /\ Answered <= Len(batch)
  BY <1>1 DEF Answered
<1>. QED
  BY <1>1, <1>2

\* Everything on its way stays put; upstream may lose heights.
LEMMA ServingFrame ==
    ASSUME Travel, ReadersMatch, BatchMatch, UNCHANGED <<readVars, slotVars>>, gone \subseteq gone'
    PROVE  ReadersMatch' /\ BatchMatch'
<1>1. /\ rpc' = rpc /\ want' = want /\ got' = got /\ tpc' = tpc /\ batch' = batch
      /\ values' = values /\ sent' = sent
  BY DEF readVars, slotVars
<1>2. Answered' = Answered
  BY <1>1 DEF Answered
<1>3. ReadersMatch'
  BY <1>1, RightMore, Zenon DEF ReadersMatch
<1>4. BatchMatch'
  BY <1>1, <1>2, RightMore, Zenon DEF BatchMatch
<1>. QED
  BY <1>3, <1>4

\* A reader outside the batch moves, not into "store".
LEMMA ServingOutside ==
    ASSUME Travel, ReadersMatch, BatchMatch, NEW r \in Readers, rpc[r] # "wait", rpc'[r] # "store",
           UNCHANGED slotVars, gone' = gone,
           \A s \in Readers \ {r} : rpc'[s] = rpc[s] /\ want'[s] = want[s] /\ got'[s] = got[s]
    PROVE  ReadersMatch' /\ BatchMatch'
<1>1. tpc' = tpc /\ batch' = batch /\ values' = values /\ sent' = sent
  BY DEF slotVars
<1>2. Answered' = Answered /\ 1 .. Answered \subseteq 1 .. Len(batch)
  BY <1>1, AnsweredType DEF Answered
<1>3. \A i \in 1 .. Len(batch) : rpc[batch[i]] = "wait" /\ batch[i] \in Readers
  BY DEF Travel, Batched, SlotTypes
<1>4. \A i \in 1 .. Len(batch) : want'[batch[i]] = want[batch[i]]
  BY <1>3, Zenon
<1>5. ReadersMatch'
  BY Zenon DEF ReadersMatch
<1>6. BatchMatch'
  BY <1>1, <1>2, <1>4, Zenon DEF BatchMatch
<1>. QED
  BY <1>5, <1>6

\* timeSlot moves with nothing answered yet, and no reader gets an answer.
LEMMA ServingNone ==
    ASSUME ReadersMatch, Answered' = 0, gone' = gone, want' = want, got' = got,
           \A r \in Readers : rpc'[r] = "store" => rpc[r] = "store"
    PROVE  ReadersMatch' /\ BatchMatch'
<1>1. ReadersMatch'
  BY Zenon DEF ReadersMatch
<1>2. BatchMatch'
  BY DEF BatchMatch
<1>. QED
  BY <1>1, <1>2

LEMMA ReadServing ==
    ASSUME Travel, ReadersMatch, BatchMatch, NEW r \in Readers, Read(r)
    PROVE  ReadersMatch' /\ BatchMatch'
<1>1. /\ rpc \in [Readers -> {"idle", "push", "offer", "wait", "store"}]
      /\ want \in [Readers -> Keys \cup {None}] /\ got \in [Readers -> Entries \cup {None}]
  BY DEF Travel, ReaderTypes
<1>2. ASSUME NEW k \in Keys, Miss(r, k) PROVE ReadersMatch' /\ BatchMatch'
  <2>1. /\ rpc[r] # "wait" /\ rpc'[r] # "store" /\ UNCHANGED slotVars /\ gone' = gone
        /\ \A s \in Readers \ {r} : rpc'[s] = rpc[s] /\ want'[s] = want[s] /\ got'[s] = got[s]
    BY <1>1, <1>2 DEF Miss, rootVars
  <2>. QED
    BY <2>1, ServingOutside
<1>3. CASE Push(r)
  <2>1. /\ rpc[r] # "wait" /\ rpc'[r] # "store" /\ UNCHANGED slotVars /\ gone' = gone
        /\ \A s \in Readers \ {r} : rpc'[s] = rpc[s] /\ want'[s] = want[s] /\ got'[s] = got[s]
    BY <1>1, <1>3 DEF Push, rootVars
  <2>. QED
    BY <2>1, ServingOutside
<1>4. CASE Store(r)
  <2>1. /\ rpc[r] # "wait" /\ rpc'[r] # "store" /\ UNCHANGED slotVars /\ gone' = gone
        /\ \A s \in Readers \ {r} : rpc'[s] = rpc[s] /\ want'[s] = want[s] /\ got'[s] = got[s]
    BY <1>1, <1>4 DEF Store
  <2>. QED
    BY <2>1, ServingOutside
<1>. QED
  BY <1>2, <1>3, <1>4 DEF Read

LEMMA CallReturnsServing ==
    ASSUME Travel, ReadersMatch, BatchMatch, CallReturns
    PROVE  ReadersMatch' /\ BatchMatch'
<1>1. /\ tpc = "call"
      /\ values' = [i \in DOMAIN values |->
                      IF i \in Chunk THEN Answer(want[batch[i]], height) ELSE values[i]]
      /\ sent' = ChunkEnd /\ tpc' = (IF ChunkEnd = Len(batch) THEN "reply" ELSE "call")
      /\ rpc' = rpc /\ want' = want /\ got' = got /\ batch' = batch /\ gone' = gone
  BY DEF CallReturns, readVars, rootVars
<1>2. Answered' = ChunkEnd
  BY <1>1 DEF Answered
<1>3. ReadersMatch'
  BY <1>1 DEF ReadersMatch
<1>4. /\ Len(batch) \in Nat /\ ChunkEnd <= Len(batch)
      /\ ChunkEnd \in Nat /\ sent \in Nat
  BY <1>1, ChunkEndType
<1>5. DOMAIN values = 1 .. Len(batch) /\ height \in Heights
  BY <1>1 DEF Travel, SlotTypes, Staged
<1>6. ASSUME NEW i \in 1 .. ChunkEnd
      PROVE  Right(values'[i], want[batch[i]], gone)
  <2>1. i \in DOMAIN values
    BY <1>4, <1>5
  <2>2. CASE i \in Chunk
    <3>1. values'[i] = Answer(want[batch[i]], height)
      BY <1>1, <2>1, <2>2
    <3>. QED
      BY <1>5, <3>1, AnswerRight
  <2>3. CASE i \notin Chunk
    <3>1. values'[i] = values[i]
      BY <1>1, <2>1, <2>3
    <3>2. i \in 1 .. sent
      BY <1>4, <2>3 DEF Chunk
    <3>3. Answered = sent
      BY <1>1 DEF Answered
    <3>. QED
      BY <3>1, <3>2, <3>3 DEF BatchMatch
  <2>. QED
    BY <2>2, <2>3
<1>7. BatchMatch'
  BY <1>1, <1>2, <1>6, Zenon DEF BatchMatch
<1>. QED
  BY <1>3, <1>7

LEMMA ReplyServing ==
    ASSUME Travel, ReadersMatch, BatchMatch, Reply
    PROVE  ReadersMatch' /\ BatchMatch'
<1>. DEFINE r == Head(batch)
<1>1. /\ tpc = "reply" /\ batch # <<>> /\ batch \in Seq(Readers) /\ r \in Readers
      /\ values # <<>> /\ values \in Seq(Entries) /\ Len(values) = Len(batch)
      /\ rpc' = [rpc EXCEPT ![r] = "store"]
      /\ got' = [got EXCEPT ![r] = Head(values)]
      /\ batch' = Tail(batch) /\ values' = Tail(values) /\ want' = want
      /\ tpc' \in {"measure", "reply"}
  BY ReplyMoves
<1>2. gone' = gone
  BY DEF Reply, rootVars
<1>3. /\ 1 \in 1 .. Len(batch) /\ r = batch[1]
      /\ \A i \in 1 .. Len(Tail(batch)) : /\ i + 1 \in 1 .. Len(batch)
                                          /\ Tail(batch)[i] = batch[i + 1]
      /\ Len(Tail(batch)) \in Nat /\ Len(Tail(batch)) = Len(batch) - 1
  BY <1>1, HeadTail
<1>4. /\ Head(values) = values[1]
      /\ \A i \in 1 .. Len(Tail(values)) : Tail(values)[i] = values[i + 1]
      /\ Len(Tail(values)) = Len(batch) - 1
  BY <1>1, HeadTail
<1>5. Answered = Len(batch)
  BY <1>1 DEF Answered
<1>6. \A i \in 1 .. Len(batch) : Right(values[i], want[batch[i]], gone)
  BY <1>5 DEF BatchMatch
<1>. HIDE DEF r
<1>7. /\ rpc \in [Readers -> {"idle", "push", "offer", "wait", "store"}]
      /\ got \in [Readers -> Entries \cup {None}]
  BY DEF Travel, ReaderTypes
<1>8. /\ got'[r] = values[1]
      /\ \A s \in Readers \ {r} : rpc'[s] = rpc[s] /\ got'[s] = got[s]
  BY <1>1, <1>4, <1>7
<1>9. ReadersMatch'
  <2>. SUFFICES ASSUME NEW s \in Readers, rpc'[s] = "store"
                PROVE  Right(got'[s], want[s], gone)
    BY <1>1, <1>2, Zenon DEF ReadersMatch
  <2>1. CASE s = r
    BY <1>3, <1>6, <1>8, <2>1, Zenon
  <2>2. CASE s # r
    BY <1>8, <2>2, Zenon DEF ReadersMatch
  <2>. QED
    BY <2>1, <2>2
<1>10. Answered' = 0 \/ Answered' = Len(Tail(batch))
  BY <1>1 DEF Answered
<1>11. ASSUME NEW i \in 1 .. Answered'
       PROVE  Right(Tail(values)[i], want[Tail(batch)[i]], gone)
  <2>1. i \in 1 .. Len(Tail(batch)) /\ i \in 1 .. Len(Tail(values))
    BY <1>3, <1>4, <1>10
  <2>2. i + 1 \in 1 .. Len(batch) /\ Tail(batch)[i] = batch[i + 1] /\ Tail(values)[i] = values[i + 1]
    BY <1>3, <1>4, <2>1, Zenon
  <2>. QED
    BY <1>6, <2>2, Zenon
<1>12. BatchMatch'
  BY <1>1, <1>2, <1>11, Zenon DEF BatchMatch
<1>. QED
  BY <1>9, <1>12

LEMMA TimeSlotServing ==
    ASSUME Travel, ReadersMatch, BatchMatch, TimeSlot
    PROVE  ReadersMatch' /\ BatchMatch'
<1>1. ASSUME Measure \/ (\E kind \in Kinds : Tick(kind)) \/ Load \/ Mark
      PROVE  ReadersMatch' /\ BatchMatch'
  <2>1. gone' = gone /\ rpc' = rpc /\ want' = want /\ got' = got
    BY <1>1 DEF Measure, Tick, Load, Mark, rootVars, readVars
  <2>2. Answered' = 0
    <3>1. CASE Measure
      BY <3>1 DEF Measure, Answered
    <3>2. CASE \E kind \in Kinds : Tick(kind)
      BY <3>2 DEF Tick, Answered
    <3>3. CASE Load
      BY <3>3 DEF Load, Answered
    <3>4. CASE Mark
      <4>1. tpc' = "call" /\ sent' = sent /\ sent = 0
        BY <3>4 DEF Mark, Travel, Staged
      <4>. QED
        BY <4>1 DEF Answered
    <3>. QED
      BY <1>1, <3>1, <3>2, <3>3, <3>4
  <2>. QED
    BY <2>1, <2>2, ServingNone
<1>2. CASE Drain
  <2>1. /\ gone' = gone /\ want' = want /\ got' = got /\ tpc' \in {"load", "drain"}
        /\ rpc' = [rpc EXCEPT ![Head(queue[job])] = "wait"]
    BY <1>2 DEF Drain, rootVars
  <2>2. rpc \in [Readers -> {"idle", "push", "offer", "wait", "store"}]
    BY DEF Travel, ReaderTypes
  <2>3. \A r \in Readers : rpc'[r] = "store" => rpc[r] = "store"
    BY <2>1, <2>2
  <2>4. Answered' = 0
    BY <2>1 DEF Answered
  <2>. QED
    BY <2>1, <2>3, <2>4, ServingNone
<1>3. CASE CallFails
  <2>1. /\ gone' = gone /\ rpc' = rpc /\ want' = want /\ got' = got /\ batch' = batch
        /\ values' = values /\ sent' = sent /\ tpc' \in {tpc, "load"}
    BY <1>3 DEF CallFails, rootVars, readVars
  <2>2. CASE tpc' = "load"
    <3>1. Answered' = 0
      BY <2>2 DEF Answered
    <3>. QED
      BY <2>1, <3>1, ServingNone
  <2>3. CASE tpc' = tpc
    <3>1. Answered' = Answered
      BY <2>1, <2>3 DEF Answered
    <3>. QED
      BY <2>1, <3>1, Zenon DEF ReadersMatch, BatchMatch
  <2>. QED
    BY <2>1, <2>2, <2>3
<1>. QED
  BY <1>1, <1>2, <1>3, CallReturnsServing, ReplyServing DEF TimeSlot

-----------------------------------------------------------------------------
(* The pad and the re-forks. *)

Holding == RootTypes /\ ResetTypes /\ HistoryTypes /\ Fetching

LEMMA HoldingFrame ==
    ASSUME Holding, UNCHANGED <<rootVars, resetVars, crossed, late>>
    PROVE  Holding'
<1>1. /\ bn' = bn /\ gone' = gone /\ cache' = cache /\ accessed' = accessed /\ keyFile' = keyFile
      /\ mutex' = mutex /\ xpc' = xpc /\ xheight' = xheight /\ xaccounts' = xaccounts
      /\ lastReset' = lastReset /\ crossed' = crossed /\ late' = late
  BY DEF rootVars, resetVars
<1>2. RootTypes' /\ ResetTypes' /\ HistoryTypes'
  BY <1>1 DEF Holding, RootTypes, ResetTypes, HistoryTypes
<1>3. Fetching'
  BY <1>1 DEF Holding, Fetching
<1>. QED
  BY <1>2, <1>3 DEF Holding

\* The pad is left alone; upstream may lose heights.
LEMMA CacheFrame ==
    ASSUME CacheMatch, cache' = cache, gone \subseteq gone'
    PROVE  CacheMatch'
BY RightMore, Zenon DEF CacheMatch

\* Nobody is a resetter and nobody's reader has no key: None names nothing.
LEMMA NoneOutside == None \notin Resetters /\ None \notin Keys /\ None \notin Heights
BY NamesAssumption

LEMMA StoreHolding ==
    ASSUME Holding, Travel, ReadersMatch, CacheMatch, NEW r \in Readers, Store(r)
    PROVE  Holding' /\ CacheMatch'
<1>. DEFINE k == want[r]
<1>1. /\ rpc[r] = "store" /\ cache' = [cache EXCEPT ![k] = Stored(k, got[r])]
      /\ late' \in {late, late \cup {k}} /\ crossed' = crossed \ {r}
      /\ bn' = bn /\ gone' = gone /\ accessed' = accessed /\ keyFile' = keyFile /\ mutex' = mutex
      /\ UNCHANGED resetVars
  BY DEF Store
<1>2. k \in Keys
  BY <1>1 DEF Travel, Wanting
<1>3. Right(got[r], k, gone)
  BY <1>1 DEF ReadersMatch
<1>. HIDE DEF k
<1>4. got[r] \in Entries
  BY <1>2, <1>3, RightType
<1>5. /\ cache \in [Keys -> Entries \cup {Absent}] /\ gone \subseteq Heights
  BY DEF Holding, RootTypes
<1>6. /\ cache' \in [Keys -> Entries \cup {Absent}]
      /\ cache'[k] \in {cache[k], got[r]} /\ \A j \in Keys \ {k} : cache'[j] = cache[j]
  BY <1>1, <1>2, <1>4, <1>5 DEF Stored
<1>7. /\ xpc' = xpc /\ xheight' = xheight /\ xaccounts' = xaccounts /\ lastReset' = lastReset
  BY <1>1 DEF resetVars
<1>8. RootTypes' /\ ResetTypes' /\ HistoryTypes'
  BY <1>1, <1>2, <1>6, <1>7 DEF Holding, RootTypes, ResetTypes, HistoryTypes
<1>9. Fetching'
  BY <1>1, <1>7 DEF Holding, Fetching
<1>10. CacheMatch'
  <2>. SUFFICES ASSUME NEW j \in Keys
                PROVE  cache'[j] \in {Absent, Blank} \/ Right(cache'[j], j, gone)
    BY <1>1, Zenon DEF CacheMatch
  <2>1. cache[j] \in {Absent, Blank} \/ Right(cache[j], j, gone)
    BY DEF CacheMatch
  <2>. QED
    BY <1>3, <1>6, <2>1
<1>. QED
  BY <1>8, <1>9, <1>10 DEF Holding

LEMMA MarkHolding ==
    ASSUME Holding, Travel, Mark
    PROVE  /\ Holding' /\ accessed \subseteq accessed'
           /\ \A i \in 1 .. Len(batch) : want[batch[i]] \in accessed'
<1>1. /\ tpc = "mark" /\ accessed' = accessed \cup {want[batch[i]] : i \in DOMAIN batch}
      /\ bn' = bn /\ gone' = gone /\ cache' = cache /\ keyFile' = keyFile /\ mutex' = mutex
      /\ UNCHANGED resetVars /\ crossed' = crossed /\ late' = late
  BY DEF Mark
<1>2. DOMAIN batch = 1 .. Len(batch) /\ job = "account"
  BY <1>1 DEF Travel, SlotTypes, Staged
<1>3. ASSUME NEW i \in 1 .. Len(batch) PROVE want[batch[i]] \in Accounts
  <2>1. want[batch[i]] \in Keys
    BY MemberType
  <2>2. KindOf(want[batch[i]]) = "account"
    BY <1>2 DEF Travel, Batched
  <2>. QED
    BY <2>1, <2>2 DEF KindOf, Keys
<1>4. accessed' \subseteq Accounts /\ accessed \subseteq accessed'
  BY <1>1, <1>2, <1>3 DEF Holding, RootTypes
<1>5. /\ xpc' = xpc /\ xheight' = xheight /\ xaccounts' = xaccounts /\ lastReset' = lastReset
  BY <1>1 DEF resetVars
<1>6. RootTypes' /\ ResetTypes' /\ HistoryTypes'
  BY <1>1, <1>4, <1>5 DEF Holding, RootTypes, ResetTypes, HistoryTypes
<1>7. Fetching'
  BY <1>1, <1>5 DEF Holding, Fetching
<1>8. \A i \in 1 .. Len(batch) : want[batch[i]] \in accessed'
  BY <1>1, <1>2
<1>. QED
  BY <1>4, <1>6, <1>7, <1>8 DEF Holding

LEMMA SetBNHolding ==
    ASSUME Holding, NEW x \in Resetters, NEW n \in Heights, SetBN(x, n)
    PROVE  Holding'
<1>1. /\ bn' = n /\ xpc' = [xpc EXCEPT ![x] = "lock"] /\ crossed' = InFlight
      /\ gone' = gone /\ cache' = cache /\ accessed' = accessed /\ keyFile' = keyFile
      /\ mutex' = mutex /\ xheight' = xheight /\ xaccounts' = xaccounts /\ lastReset' = lastReset
      /\ late' = late
  BY DEF SetBN
<1>2. RootTypes' /\ HistoryTypes'
  BY <1>1 DEF Holding, RootTypes, HistoryTypes, InFlight
<1>3. ResetTypes' /\ Fetching'
  BY <1>1 DEF Holding, ResetTypes, Fetching
<1>. QED
  BY <1>2, <1>3 DEF Holding

\* The owners of slots are accounts.
LEMMA OwnersType == ASSUME NEW c PROVE {OwnerOf[k] : k \in SlotsIn(c)} \subseteq Accounts
BY KeysAssumption DEF SlotsIn

LEMMA LockPadHolding ==
    ASSUME Holding, CacheMatch, NEW x \in Resetters, LockPad(x)
    PROVE  Holding' /\ CacheMatch'
<1>1. /\ mutex = None /\ mutex' = x
      /\ cache' = [k \in Keys |-> IF k \in keyFile THEN Blank ELSE cache[k]]
      /\ accessed' = accessed \cup {OwnerOf[k] : k \in SlotsIn(cache')}
      /\ xheight' = [xheight EXCEPT ![x] = bn] /\ xpc' = [xpc EXCEPT ![x] = "slots"]
      /\ bn' = bn /\ gone' = gone /\ keyFile' = keyFile /\ xaccounts' = xaccounts
      /\ lastReset' = lastReset /\ crossed' = crossed /\ late' = late
  BY DEF LockPad
<1>2. cache' \in [Keys -> Entries \cup {Absent}]
  BY <1>1 DEF Holding, RootTypes, Entries
<1>3. accessed' \subseteq Accounts
  BY <1>1, OwnersType DEF Holding, RootTypes
<1>4. RootTypes'
  BY <1>1, <1>2, <1>3 DEF Holding, RootTypes
<1>5. ResetTypes' /\ HistoryTypes'
  BY <1>1 DEF Holding, RootTypes, ResetTypes, HistoryTypes
<1>6. Fetching'
  <2>. SUFFICES ASSUME NEW y \in Resetters, xpc'[y] \in {"slots", "accounts"}
                PROVE  x = y /\ xheight'[y] \in Heights
    BY <1>1 DEF Fetching
  <2>1. ASSUME y # x PROVE FALSE
    <3>1. xpc[y] \in {"slots", "accounts"}
      BY <1>1, <2>1 DEF Holding, ResetTypes
    <3>2. mutex = y
      BY <3>1 DEF Holding, Fetching
    <3>. QED
      BY <1>1, <3>2, NoneOutside
  <2>2. y = x => xheight'[y] \in Heights
    BY <1>1 DEF Holding, ResetTypes, RootTypes
  <2>. QED
    BY <2>1, <2>2
<1>7. CacheMatch'
  <2>. SUFFICES ASSUME NEW k \in Keys
                PROVE  cache'[k] \in {Absent, Blank} \/ Right(cache'[k], k, gone)
    BY <1>1, Zenon DEF CacheMatch
  <2>1. cache[k] \in {Absent, Blank} \/ Right(cache[k], k, gone)
    BY DEF CacheMatch
  <2>2. cache'[k] \in {Blank, cache[k]}
    BY <1>1
  <2>. QED
    BY <2>1, <2>2
<1>. QED
  BY <1>4, <1>5, <1>6, <1>7 DEF Holding

LEMMA SlotsFetchedHolding ==
    ASSUME Holding, CacheMatch, NEW x \in Resetters, SlotsFetched(x)
    PROVE  Holding' /\ CacheMatch'
<1>1. /\ xpc[x] = "slots"
      /\ cache' = [k \in Keys |-> IF Refreshed(x, k) THEN Answer(k, xheight[x]) ELSE cache[k]]
      /\ keyFile' = SlotsIn(cache) /\ xaccounts' = [xaccounts EXCEPT ![x] = accessed]
      /\ xheight' = [xheight EXCEPT ![x] = bn] /\ xpc' = [xpc EXCEPT ![x] = "accounts"]
      /\ bn' = bn /\ gone' = gone /\ accessed' = accessed /\ mutex' = mutex
      /\ lastReset' = lastReset /\ crossed' = crossed /\ late' = late
  BY DEF SlotsFetched
<1>2. mutex = x /\ xheight[x] \in Heights
  BY <1>1 DEF Holding, Fetching
<1>3. \A k \in Keys : Answer(k, xheight[x]) \in Entries /\ Right(Answer(k, xheight[x]), k, gone)
  BY <1>2, AnswerType, AnswerRight
<1>4. \A k \in Keys : cache'[k] \in {Answer(k, xheight[x]), cache[k]}
  BY <1>1
<1>5. cache' \in [Keys -> Entries \cup {Absent}]
  BY <1>1, <1>3 DEF Holding, RootTypes
<1>6. RootTypes'
  BY <1>1, <1>5 DEF Holding, RootTypes, SlotsIn
<1>7. ResetTypes' /\ HistoryTypes'
  BY <1>1 DEF Holding, RootTypes, ResetTypes, HistoryTypes
<1>8. Fetching'
  BY <1>1, <1>2 DEF Holding, RootTypes, ResetTypes, Fetching
<1>9. CacheMatch'
  <2>. SUFFICES ASSUME NEW k \in Keys
                PROVE  cache'[k] \in {Absent, Blank} \/ Right(cache'[k], k, gone)
    BY <1>1, Zenon DEF CacheMatch
  <2>1. cache[k] \in {Absent, Blank} \/ Right(cache[k], k, gone)
    BY DEF CacheMatch
  <2>. QED
    BY <1>3, <1>4, <2>1
<1>. QED
  BY <1>6, <1>7, <1>8, <1>9 DEF Holding

\* A re-fork that gives the mutex back.
LEMMA UnlockHolding ==
    ASSUME Holding, NEW x \in Resetters, xpc[x] \in {"slots", "accounts"}, Unlock(x),
           lastReset' \in {"ok", "slotsFail", "accountsFail"}
    PROVE  ResetTypes' /\ Fetching' /\ \A y \in Resetters \ {x} : xpc'[y] = xpc[y]
<1>1. /\ mutex' = None /\ xpc' = [xpc EXCEPT ![x] = "idle"]
      /\ xheight' = [xheight EXCEPT ![x] = None] /\ xaccounts' = [xaccounts EXCEPT ![x] = {}]
  BY DEF Unlock
<1>2. ResetTypes' /\ \A y \in Resetters \ {x} : xpc'[y] = xpc[y]
  BY <1>1 DEF Holding, ResetTypes
<1>3. mutex = x
  BY DEF Holding, Fetching
<1>4. \A y \in Resetters : xpc'[y] \notin {"slots", "accounts"}
  <2>. SUFFICES ASSUME NEW y \in Resetters, xpc'[y] \in {"slots", "accounts"} PROVE FALSE
    OBVIOUS
  <2>1. y # x
    BY <1>1 DEF Holding, ResetTypes
  <2>2. mutex = y
    BY <1>2, <2>1 DEF Holding, Fetching
  <2>. QED
    BY <1>3, <2>1, <2>2
<1>5. Fetching'
  BY <1>4 DEF Fetching
<1>. QED
  BY <1>2, <1>5

LEMMA FailHolding ==
    ASSUME Holding, CacheMatch, NEW x \in Resetters, SlotsFail(x) \/ AccountsFail(x)
    PROVE  Holding' /\ CacheMatch'
<1>1. /\ xpc[x] \in {"slots", "accounts"} /\ Unlock(x)
      /\ lastReset' \in {"ok", "slotsFail", "accountsFail"}
      /\ accessed' \in {accessed, accessed \cup xaccounts[x]}
      /\ bn' = bn /\ gone' = gone /\ cache' = cache /\ keyFile' = keyFile
      /\ crossed' = crossed /\ late' = late
  BY DEF SlotsFail, AccountsFail
<1>2. mutex' = None
  BY <1>1 DEF Unlock
<1>3. RootTypes' /\ HistoryTypes'
  BY <1>1, <1>2 DEF Holding, RootTypes, ResetTypes, HistoryTypes
<1>4. ResetTypes' /\ Fetching'
  BY <1>1, UnlockHolding
<1>. QED
  BY <1>1, <1>3, <1>4, CacheFrame DEF Holding

LEMMA AccountsFetchedHolding ==
    ASSUME Holding, CacheMatch, NEW x \in Resetters, AccountsFetched(x)
    PROVE  Holding' /\ CacheMatch'
<1>1. /\ xpc[x] = "accounts" /\ Unlock(x) /\ lastReset' = "ok"
      /\ cache' = [k \in Keys |-> IF k \in xaccounts[x] THEN Answer(k, xheight[x]) ELSE cache[k]]
      /\ accessed' = accessed \cup xaccounts[x] /\ late' = late \ (Slots \cup xaccounts[x])
      /\ bn' = bn /\ gone' = gone /\ keyFile' = keyFile /\ crossed' = crossed
  BY DEF AccountsFetched
<1>2. xheight[x] \in Heights
  BY <1>1 DEF Holding, Fetching
<1>3. \A k \in Keys : Answer(k, xheight[x]) \in Entries /\ Right(Answer(k, xheight[x]), k, gone)
  BY <1>2, AnswerType, AnswerRight
<1>4. \A k \in Keys : cache'[k] \in {Answer(k, xheight[x]), cache[k]}
  BY <1>1
<1>5. cache' \in [Keys -> Entries \cup {Absent}]
  BY <1>1, <1>3 DEF Holding, RootTypes
<1>6. mutex' = None
  BY <1>1 DEF Unlock
<1>7. RootTypes' /\ HistoryTypes'
  BY <1>1, <1>5, <1>6 DEF Holding, RootTypes, ResetTypes, HistoryTypes
<1>8. ResetTypes' /\ Fetching'
  BY <1>1, UnlockHolding
<1>9. CacheMatch'
  <2>. SUFFICES ASSUME NEW k \in Keys
                PROVE  cache'[k] \in {Absent, Blank} \/ Right(cache'[k], k, gone)
    BY <1>1, Zenon DEF CacheMatch
  <2>1. cache[k] \in {Absent, Blank} \/ Right(cache[k], k, gone)
    BY DEF CacheMatch
  <2>. QED
    BY <1>3, <1>4, <2>1
<1>. QED
  BY <1>7, <1>8, <1>9 DEF Holding

LEMMA ClearHolding ==
    ASSUME Holding, NEW x \in Resetters, Clear(x)
    PROVE  Holding' /\ CacheMatch'
<1>1. /\ cache' = [k \in Keys |-> Absent] /\ accessed' = {} /\ keyFile' = {} /\ late' = {}
      /\ lastReset' = "ok" /\ crossed' = InFlight
      /\ bn' = bn /\ gone' = gone /\ mutex' = mutex /\ xpc' = xpc /\ xheight' = xheight
      /\ xaccounts' = xaccounts
  BY DEF Clear
<1>2. RootTypes' /\ ResetTypes' /\ HistoryTypes'
  BY <1>1 DEF Holding, RootTypes, ResetTypes, HistoryTypes, InFlight
<1>3. Fetching'
  BY <1>1 DEF Holding, Fetching
<1>4. CacheMatch'
  BY <1>1 DEF CacheMatch
<1>. QED
  BY <1>2, <1>3, <1>4 DEF Holding

LEMMA PruneHolding ==
    ASSUME Holding, CacheMatch, NEW n \in Heights, Prune(n)
    PROVE  Holding' /\ CacheMatch'
<1>1. /\ gone' = gone \cup {n}
      /\ bn' = bn /\ cache' = cache /\ accessed' = accessed /\ keyFile' = keyFile /\ mutex' = mutex
      /\ UNCHANGED resetVars /\ crossed' = crossed /\ late' = late
  BY DEF Prune
<1>2. xpc' = xpc /\ xheight' = xheight /\ xaccounts' = xaccounts /\ lastReset' = lastReset
  BY <1>1 DEF resetVars
<1>3. RootTypes' /\ ResetTypes' /\ HistoryTypes'
  BY <1>1, <1>2 DEF Holding, RootTypes, ResetTypes, HistoryTypes
<1>4. Fetching'
  BY <1>1, <1>2 DEF Holding, Fetching
<1>. QED
  BY <1>1, <1>3, <1>4, CacheFrame DEF Holding

LEMMA ResetHolding ==
    ASSUME Holding, CacheMatch, NEW x \in Resetters, Reset(x)
    PROVE  /\ Holding' /\ CacheMatch'
           /\ UNCHANGED <<readVars, queue, slotVars>> /\ gone' = gone
<1>1. UNCHANGED <<readVars, queue, slotVars>> /\ gone' = gone
  BY DEF Reset, SetBN, LockPad, SlotsFetched, SlotsFail, AccountsFetched, AccountsFail, Clear
<1>2. ASSUME NEW n \in Heights, SetBN(x, n) PROVE Holding' /\ CacheMatch'
  <2>1. cache' = cache
    BY <1>2 DEF SetBN
  <2>. QED
    BY <1>1, <1>2, <2>1, SetBNHolding, CacheFrame
<1>. QED
  BY <1>1, <1>2, LockPadHolding, SlotsFetchedHolding, FailHolding, AccountsFetchedHolding,
     ClearHolding DEF Reset

-----------------------------------------------------------------------------
(* Every request gets its own answer. *)

MatchInv == Travel /\ Holding /\ ReadersMatch /\ BatchMatch /\ CacheMatch

LEMMA MatchingParts == Matching <=> MatchInv
BY TypeParts, MatchParts, Zenon DEF Matching, MatchInv, Travel, Holding

LEMMA ReadKeeps ==
    ASSUME MatchInv, NEW r \in Readers, Read(r)
    PROVE  MatchInv'
<1>0. Travel /\ Holding /\ ReadersMatch /\ BatchMatch /\ CacheMatch
  BY DEF MatchInv
<1>1. Travel'
  BY <1>0, MissTravel, PushTravel, StoreTravel DEF Read
<1>2. ReadersMatch' /\ BatchMatch'
  BY <1>0, ReadServing
<1>3. Holding' /\ CacheMatch'
  <2>1. CASE Store(r)
    BY <1>0, <2>1, StoreHolding
  <2>2. CASE (\E k \in Keys : Miss(r, k)) \/ Push(r)
    <3>1. UNCHANGED <<rootVars, resetVars, crossed, late>>
      BY <2>2 DEF Miss, Push
    <3>2. cache' = cache /\ gone \subseteq gone'
      BY <3>1 DEF rootVars
    <3>. QED
      BY <1>0, <3>1, <3>2, HoldingFrame, CacheFrame
  <2>. QED
    BY <2>1, <2>2 DEF Read
<1>. QED
  BY <1>1, <1>2, <1>3 DEF MatchInv

LEMMA TimeSlotKeeps ==
    ASSUME MatchInv, TimeSlot
    PROVE  MatchInv'
<1>0. Travel /\ Holding /\ ReadersMatch /\ BatchMatch /\ CacheMatch
  BY DEF MatchInv
<1>1. Travel'
  <2>1. bn \in Heights
    BY <1>0 DEF Holding, RootTypes
  <2>. QED
    BY <1>0, <2>1, MeasureTravel, TickTravel, DrainTravel, LoadTravel, MarkTravel,
       CallReturnsTravel, CallFailsTravel, ReplyTravel DEF TimeSlot
<1>2. ReadersMatch' /\ BatchMatch'
  BY <1>0, TimeSlotServing
<1>3. Holding'
  <2>1. CASE Mark
    BY <1>0, <2>1, MarkHolding
  <2>2. CASE ~Mark
    <3>1. UNCHANGED <<rootVars, resetVars, crossed, late>>
      BY <2>2 DEF TimeSlot, Measure, Tick, Drain, Load, CallReturns, CallFails, Reply
    <3>. QED
      BY <1>0, <3>1, HoldingFrame
  <2>. QED
    BY <2>1, <2>2
<1>4. CacheMatch'
  <2>1. cache' = cache /\ gone \subseteq gone'
    BY DEF TimeSlot, Measure, Tick, Drain, Load, Mark, CallReturns, CallFails, Reply, rootVars
  <2>. QED
    BY <1>0, <2>1, CacheFrame
<1>. QED
  BY <1>1, <1>2, <1>3, <1>4 DEF MatchInv

LEMMA RestKeeps ==
    ASSUME MatchInv, \/ \E x \in Resetters : Reset(x)
                     \/ \E n \in Heights : Prune(n)
                     \/ UNCHANGED vars
    PROVE  MatchInv'
<1>0. Travel /\ Holding /\ ReadersMatch /\ BatchMatch /\ CacheMatch
  BY DEF MatchInv
<1>1. Holding' /\ CacheMatch' /\ UNCHANGED <<readVars, queue, slotVars>> /\ gone \subseteq gone'
  <2>1. ASSUME NEW x \in Resetters, Reset(x)
        PROVE  Holding' /\ CacheMatch' /\ UNCHANGED <<readVars, queue, slotVars>> /\ gone' = gone
    BY <1>0, <2>1, ResetHolding
  <2>2. ASSUME NEW n \in Heights, Prune(n)
        PROVE  /\ Holding' /\ CacheMatch' /\ UNCHANGED <<readVars, queue, slotVars>>
               /\ gone \subseteq gone'
    <3>1. UNCHANGED <<readVars, queue, slotVars>> /\ gone \subseteq gone'
      BY <2>2 DEF Prune
    <3>. QED
      BY <1>0, <2>2, <3>1, PruneHolding
  <2>3. CASE UNCHANGED vars
    <3>1. /\ UNCHANGED <<rootVars, resetVars, crossed, late>> /\ UNCHANGED <<readVars, queue, slotVars>>
          /\ cache' = cache /\ gone' = gone
      BY <2>3 DEF vars, rootVars
    <3>. QED
      BY <1>0, <3>1, HoldingFrame, CacheFrame
  <2>. QED
    BY <2>1, <2>2, <2>3
<1>2. Travel' /\ ReadersMatch' /\ BatchMatch'
  BY <1>0, <1>1, TravelFrame, ServingFrame
<1>. QED
  BY <1>1, <1>2 DEF MatchInv

LEMMA MatchInit == Init => MatchInv
<1>. SUFFICES ASSUME Init PROVE MatchInv
  OBVIOUS
<1>1. ReaderTypes /\ Wanting
  BY DEF Init, ReaderTypes, Wanting
<1>2. SlotTypes /\ Staged
  BY SizesAssumption DEF Init, SlotTypes, Staged
<1>3. Queued /\ Batched
  BY DEF Init, Queued, Batched
<1>4. RootTypes
  BY KeysAssumption DEF Init, RootTypes
<1>5. ResetTypes /\ HistoryTypes /\ Fetching
  BY DEF Init, ResetTypes, HistoryTypes, Fetching
<1>6. Answered = 0
  BY DEF Init, Answered
<1>7. BatchMatch
  BY <1>6 DEF BatchMatch
<1>8. ReadersMatch /\ CacheMatch
  BY DEF Init, ReadersMatch, CacheMatch
<1>. QED
  BY <1>1, <1>2, <1>3, <1>4, <1>5, <1>7, <1>8 DEF MatchInv, Travel, Holding

LEMMA MatchAlways == Spec => []MatchInv
<1>1. MatchInv /\ [Next]_vars => MatchInv'
  BY ReadKeeps, TimeSlotKeeps, RestKeeps DEF Next
<1>. QED
  BY <1>1, MatchInit, PTL DEF Spec

\* Every variable of the root layer's concurrency keeps its type.
THEOREM TypeCorrect == Spec => []TypeOK
<1>1. MatchInv => TypeOK
  BY MatchingParts DEF Matching
<1>. QED
  BY <1>1, MatchAlways, PTL

\* Whatever batch a request travels in, over however many chunks, retries
\* and re-forks, its reader gets the answer to its own key, and the pad
\* never holds one key's value under another.
THEOREM OwnAnswers == Spec => []AnswersMatch
<1>1. MatchInv => AnswersMatch
  BY MatchingParts DEF Matching
<1>. QED
  BY <1>1, MatchAlways, PTL

-----------------------------------------------------------------------------
(* How old the answers are. *)

\* Timely, in two parts.
ReadersTimely ==
    \A r \in Readers : rpc[r] = "store" /\ r \notin crossed => Current(got[r], want[r])

BatchTimely ==
    /\ tpc \in {"mark", "call", "reply"} =>
         \A i \in 1 .. Len(batch) : batch[i] \notin crossed => height = bn
    /\ \A i \in 1 .. Answered : batch[i] \notin crossed => Current(values[i], want[batch[i]])

LEMMA TimelyParts == Timely <=> ReadersTimely /\ BatchTimely
BY Zenon DEF Timely, ReadersTimely, BatchTimely

\* Nothing on its way moves, nor does the height.
LEMMA TimelyFrame ==
    ASSUME Timely, UNCHANGED <<readVars, slotVars>>, bn' = bn, gone \subseteq gone',
           crossed' = crossed
    PROVE  Timely'
<1>1. /\ rpc' = rpc /\ want' = want /\ got' = got /\ tpc' = tpc /\ batch' = batch
      /\ values' = values /\ sent' = sent /\ height' = height
  BY DEF readVars, slotVars
<1>2. Answered' = Answered
  BY <1>1 DEF Answered
<1>3. ASSUME NEW v, NEW k, Current(v, k) PROVE v = <<k, bn'>> \/ bn' \in gone'
  BY <1>3 DEF Current
<1>4. ReadersTimely'
  BY <1>1, <1>3, Zenon DEF Timely, ReadersTimely, Current
<1>5. BatchTimely'
  BY <1>1, <1>2, Zenon DEF Timely, BatchTimely, Current
<1>. QED
  BY <1>4, <1>5, TimelyParts, PTL

\* A re-fork or a clearing crosses everything on its way.
LEMMA TimelyCrossed ==
    ASSUME Travel, UNCHANGED <<readVars, slotVars>>, crossed' = InFlight
    PROVE  Timely'
<1>1. /\ rpc' = rpc /\ want' = want /\ got' = got /\ tpc' = tpc /\ batch' = batch
      /\ values' = values /\ sent' = sent /\ height' = height
  BY DEF readVars, slotVars
<1>2. Answered' = Answered /\ 1 .. Answered \subseteq 1 .. Len(batch)
  BY <1>1, AnsweredType DEF Answered
<1>3. \A i \in 1 .. Len(batch) : rpc[batch[i]] = "wait" /\ batch[i] \in Readers
  BY DEF Travel, Batched, SlotTypes
<1>4. \A i \in 1 .. Len(batch) : batch[i] \in crossed'
  BY <1>3 DEF InFlight
<1>5. ReadersTimely'
  BY <1>1 DEF ReadersTimely, InFlight
<1>6. BatchTimely'
  BY <1>1, <1>2, <1>4, Zenon DEF BatchTimely
<1>. QED
  BY <1>5, <1>6, TimelyParts, PTL

\* A reader outside the batch moves, not into "store".
LEMMA TimelyOutside ==
    ASSUME Travel, Timely, NEW r \in Readers, rpc[r] # "wait", rpc'[r] # "store",
           UNCHANGED slotVars, gone' = gone, bn' = bn, crossed' \in {crossed, crossed \ {r}},
           \A s \in Readers \ {r} : rpc'[s] = rpc[s] /\ want'[s] = want[s] /\ got'[s] = got[s]
    PROVE  Timely'
<1>1. tpc' = tpc /\ batch' = batch /\ values' = values /\ sent' = sent /\ height' = height
  BY DEF slotVars
<1>2. Answered' = Answered /\ 1 .. Answered \subseteq 1 .. Len(batch)
  BY <1>1, AnsweredType DEF Answered
<1>3. \A i \in 1 .. Len(batch) : rpc[batch[i]] = "wait" /\ batch[i] \in Readers
  BY DEF Travel, Batched, SlotTypes
<1>4. \A i \in 1 .. Len(batch) : want'[batch[i]] = want[batch[i]] /\ batch[i] # r
  BY <1>3, Zenon
<1>5. \A s \in Readers \ {r} : s \notin crossed' => s \notin crossed
  OBVIOUS
<1>6. \A i \in 1 .. Len(batch) : batch[i] \notin crossed' => batch[i] \notin crossed
  BY <1>3, <1>4, <1>5
<1>7. ReadersTimely'
  <2>. SUFFICES ASSUME NEW s \in Readers, rpc'[s] = "store", s \notin crossed'
                PROVE  got'[s] = <<want'[s], bn>> \/ bn \in gone
    BY Zenon DEF ReadersTimely, Current
  <2>1. s \in Readers \ {r}
    OBVIOUS
  <2>2. rpc[s] = "store" /\ s \notin crossed /\ want'[s] = want[s] /\ got'[s] = got[s]
    BY <1>5, <2>1
  <2>. QED
    BY <2>2, Zenon DEF Timely, Current
<1>8. BatchTimely'
  <2>1. tpc \in {"mark", "call", "reply"} =>
          \A i \in 1 .. Len(batch) : batch[i] \notin crossed' => height = bn
    BY <1>6 DEF Timely
  <2>2. ASSUME NEW i \in 1 .. Answered, batch[i] \notin crossed'
        PROVE  values[i] = <<want'[batch[i]], bn>> \/ bn \in gone
    <3>1. i \in 1 .. Len(batch)
      BY <1>2
    <3>2. batch[i] \notin crossed /\ want'[batch[i]] = want[batch[i]]
      BY <1>4, <1>6, <2>2, <3>1, Zenon
    <3>. QED
      BY <3>2, Zenon DEF Timely, Current
  <2>. QED
    BY <1>1, <1>2, <2>1, <2>2, Zenon DEF BatchTimely, Current
<1>. QED
  BY <1>7, <1>8, TimelyParts, PTL

LEMMA ReadTimely ==
    ASSUME Travel, Timely, NEW r \in Readers, Read(r)
    PROVE  Timely'
<1>1. /\ rpc \in [Readers -> {"idle", "push", "offer", "wait", "store"}]
      /\ want \in [Readers -> Keys \cup {None}] /\ got \in [Readers -> Entries \cup {None}]
  BY DEF Travel, ReaderTypes
<1>2. /\ rpc[r] # "wait" /\ rpc'[r] # "store" /\ UNCHANGED slotVars /\ gone' = gone /\ bn' = bn
      /\ crossed' \in {crossed, crossed \ {r}}
      /\ \A s \in Readers \ {r} : rpc'[s] = rpc[s] /\ want'[s] = want[s] /\ got'[s] = got[s]
  BY <1>1 DEF Read, Miss, Push, Store, rootVars
<1>. QED
  BY <1>2, TimelyOutside

\* No answer is out yet, and the batch has no height or the current one.
LEMMA TimelyNone ==
    ASSUME Timely, Answered' = 0, gone' = gone, bn' = bn, want' = want, got' = got,
           crossed' = crossed,
           \A r \in Readers : rpc'[r] = "store" => rpc[r] = "store",
           tpc' \in {"mark", "call", "reply"} =>
             \A i \in 1 .. Len(batch') : batch'[i] \notin crossed => height' = bn
    PROVE  Timely'
<1>1. ReadersTimely'
  BY Zenon DEF Timely, ReadersTimely, Current
<1>2. BatchTimely'
  BY DEF BatchTimely
<1>. QED
  BY <1>1, <1>2, TimelyParts, PTL

LEMMA CallReturnsTimely ==
    ASSUME Travel, Timely, CallReturns
    PROVE  Timely'
<1>1. /\ tpc = "call"
      /\ values' = [i \in DOMAIN values |->
                      IF i \in Chunk THEN Answer(want[batch[i]], height) ELSE values[i]]
      /\ sent' = ChunkEnd /\ tpc' = (IF ChunkEnd = Len(batch) THEN "reply" ELSE "call")
      /\ rpc' = rpc /\ want' = want /\ got' = got /\ batch' = batch /\ gone' = gone /\ bn' = bn
      /\ height' = height /\ crossed' = crossed
  BY DEF CallReturns, readVars, rootVars
<1>2. Answered' = ChunkEnd
  BY <1>1 DEF Answered
<1>3. ReadersTimely'
  BY <1>1 DEF Timely, ReadersTimely, Current
<1>4. /\ Len(batch) \in Nat /\ ChunkEnd <= Len(batch)
      /\ ChunkEnd \in Nat /\ sent \in Nat
  BY <1>1, ChunkEndType
<1>5. DOMAIN values = 1 .. Len(batch)
  BY <1>1 DEF Travel, SlotTypes, Staged
<1>6. \A i \in 1 .. Len(batch) : batch[i] \notin crossed => height = bn
  BY <1>1 DEF Timely
<1>7. ASSUME NEW i \in 1 .. ChunkEnd, batch[i] \notin crossed
      PROVE  values'[i] = <<want[batch[i]], bn>> \/ bn \in gone
  <2>1. i \in DOMAIN values /\ i \in 1 .. Len(batch)
    BY <1>4, <1>5
  <2>2. CASE i \in Chunk
    <3>1. values'[i] = Answer(want[batch[i]], height)
      BY <1>1, <2>1, <2>2
    <3>2. height = bn
      BY <1>6, <1>7, <2>1
    <3>. QED
      BY <3>1, <3>2 DEF Answer
  <2>3. CASE i \notin Chunk
    <3>1. values'[i] = values[i]
      BY <1>1, <2>1, <2>3
    <3>2. i \in 1 .. sent
      BY <1>4, <2>3 DEF Chunk
    <3>3. Answered = sent
      BY <1>1 DEF Answered
    <3>. QED
      BY <1>7, <3>1, <3>2, <3>3 DEF Timely, Current
  <2>. QED
    BY <2>2, <2>3
<1>8. BatchTimely'
  BY <1>1, <1>2, <1>6, <1>7, Zenon DEF BatchTimely, Current
<1>. QED
  BY <1>3, <1>8, TimelyParts, PTL

LEMMA ReplyTimely ==
    ASSUME Travel, Timely, Reply
    PROVE  Timely'
<1>. DEFINE r == Head(batch)
<1>1. /\ tpc = "reply" /\ batch # <<>> /\ batch \in Seq(Readers) /\ r \in Readers
      /\ values # <<>> /\ values \in Seq(Entries) /\ Len(values) = Len(batch)
      /\ rpc' = [rpc EXCEPT ![r] = "store"]
      /\ got' = [got EXCEPT ![r] = Head(values)]
      /\ batch' = Tail(batch) /\ values' = Tail(values) /\ want' = want
      /\ tpc' = "measure" \/ (tpc' = "reply" /\ height' = height)
  BY ReplyMoves
<1>2. gone' = gone /\ bn' = bn /\ crossed' = crossed
  BY DEF Reply, rootVars
<1>3. /\ 1 \in 1 .. Len(batch) /\ r = batch[1]
      /\ \A i \in 1 .. Len(Tail(batch)) : /\ i + 1 \in 1 .. Len(batch)
                                          /\ Tail(batch)[i] = batch[i + 1]
      /\ Len(Tail(batch)) \in Nat /\ Len(Tail(batch)) = Len(batch) - 1
  BY <1>1, HeadTail
<1>4. /\ Head(values) = values[1]
      /\ \A i \in 1 .. Len(Tail(values)) : Tail(values)[i] = values[i + 1]
      /\ Len(Tail(values)) = Len(batch) - 1
  BY <1>1, HeadTail
<1>5. Answered = Len(batch)
  BY <1>1 DEF Answered
<1>6. \A i \in 1 .. Len(batch) :
        batch[i] \notin crossed => values[i] = <<want[batch[i]], bn>> \/ bn \in gone
  BY <1>5 DEF Timely, Current
<1>7. \A i \in 1 .. Len(batch) : batch[i] \notin crossed => height = bn
  BY <1>1 DEF Timely
<1>. HIDE DEF r
<1>8. /\ rpc \in [Readers -> {"idle", "push", "offer", "wait", "store"}]
      /\ got \in [Readers -> Entries \cup {None}]
  BY DEF Travel, ReaderTypes
<1>9. /\ got'[r] = values[1]
      /\ \A s \in Readers \ {r} : rpc'[s] = rpc[s] /\ got'[s] = got[s]
  BY <1>1, <1>4, <1>8
<1>10. ReadersTimely'
  <2>. SUFFICES ASSUME NEW s \in Readers, rpc'[s] = "store", s \notin crossed
                PROVE  got'[s] = <<want[s], bn>> \/ bn \in gone
    BY <1>1, <1>2, Zenon DEF ReadersTimely, Current
  <2>1. CASE s = r
    BY <1>3, <1>6, <1>9, <2>1, Zenon
  <2>2. CASE s # r
    BY <1>9, <2>2, Zenon DEF Timely, Current
  <2>. QED
    BY <2>1, <2>2
<1>11. Answered' = 0 \/ Answered' = Len(Tail(batch))
  BY <1>1 DEF Answered
<1>12. ASSUME NEW i \in 1 .. Len(Tail(batch)), Tail(batch)[i] \notin crossed
       PROVE  /\ height = bn
              /\ Tail(values)[i] = <<want[Tail(batch)[i]], bn>> \/ bn \in gone
  <2>1. i \in 1 .. Len(Tail(values))
    BY <1>3, <1>4
  <2>2. i + 1 \in 1 .. Len(batch) /\ Tail(batch)[i] = batch[i + 1] /\ Tail(values)[i] = values[i + 1]
    BY <1>3, <1>4, <2>1, Zenon
  <2>. QED
    BY <1>6, <1>7, <1>12, <2>2, Zenon
<1>13. \A i \in 1 .. Answered' : i \in 1 .. Len(Tail(batch))
  BY <1>3, <1>11
<1>14. BatchTimely'
  <2>1. tpc' \in {"mark", "call", "reply"} => height' = height
    BY <1>1
  <2>. QED
    BY <1>1, <1>2, <1>12, <1>13, <2>1, Zenon DEF BatchTimely, Current
<1>. QED
  BY <1>10, <1>14, TimelyParts, PTL

LEMMA TimeSlotTimely ==
    ASSUME Travel, Timely, TimeSlot
    PROVE  Timely'
<1>1. CASE Measure \/ (\E kind \in Kinds : Tick(kind)) \/ Drain \/ Load \/ Mark
  <2>1. gone' = gone /\ bn' = bn /\ want' = want /\ got' = got /\ crossed' = crossed
    BY <1>1 DEF Measure, Tick, Drain, Load, Mark, rootVars, readVars
  <2>2. rpc \in [Readers -> {"idle", "push", "offer", "wait", "store"}]
    BY DEF Travel, ReaderTypes
  <2>3. \A r \in Readers : rpc'[r] = "store" => rpc[r] = "store"
    BY <1>1, <2>2 DEF Measure, Tick, Drain, Load, Mark, readVars
  <2>4. Answered' = 0
    <3>1. CASE Mark
      <4>1. tpc' = "call" /\ sent' = sent /\ sent = 0
        BY <3>1 DEF Mark, Travel, Staged
      <4>. QED
        BY <4>1 DEF Answered
    <3>2. CASE Load
      BY <3>2 DEF Load, Answered
    <3>3. CASE Measure \/ Drain
      BY <3>3 DEF Measure, Drain, Answered
    <3>4. CASE \E kind \in Kinds : Tick(kind)
      BY <3>4 DEF Tick, Answered
    <3>. QED
      BY <1>1, <3>1, <3>2, <3>3, <3>4
  <2>5. tpc' \in {"mark", "call", "reply"} =>
          \A i \in 1 .. Len(batch') : batch'[i] \notin crossed => height' = bn
    <3>1. CASE Mark
      <4>1. tpc = "mark" /\ batch' = batch /\ height' = height
        BY <3>1 DEF Mark
      <4>. QED
        BY <4>1 DEF Timely
    <3>2. CASE Load
      BY <3>2 DEF Load
    <3>3. CASE Measure \/ Drain
      BY <3>3 DEF Measure, Drain
    <3>4. CASE \E kind \in Kinds : Tick(kind)
      BY <3>4 DEF Tick
    <3>. QED
      BY <1>1, <3>1, <3>2, <3>3, <3>4
  <2>. QED
    BY <2>1, <2>3, <2>4, <2>5, TimelyNone
<1>2. CASE CallFails
  <2>1. /\ gone' = gone /\ rpc' = rpc /\ want' = want /\ got' = got /\ batch' = batch
        /\ values' = values /\ sent' = sent /\ tpc' \in {tpc, "load"} /\ height' = height
        /\ bn' = bn /\ crossed' = crossed
    BY <1>2 DEF CallFails, rootVars, readVars
  <2>2. CASE tpc' = "load"
    <3>1. Answered' = 0
      BY <2>2 DEF Answered
    <3>. QED
      BY <2>1, <2>2, <3>1, TimelyNone
  <2>3. CASE tpc' = tpc
    <3>1. Answered' = Answered
      BY <2>1, <2>3 DEF Answered
    <3>2. ReadersTimely'
      BY <2>1, Zenon DEF Timely, ReadersTimely, Current
    <3>3. BatchTimely'
      BY <2>1, <2>3, <3>1, Zenon DEF Timely, BatchTimely, Current
    <3>. QED
      BY <3>2, <3>3, TimelyParts, PTL
  <2>. QED
    BY <2>1, <2>2, <2>3
<1>. QED
  BY <1>1, <1>2, CallReturnsTimely, ReplyTimely DEF TimeSlot

-----------------------------------------------------------------------------
(* Which accounts a re-fork knows. *)

ReadersRecorded ==
    \A r \in Readers : rpc[r] = "store" /\ want[r] \in Accounts =>
        want[r] \in accessed \/ Forgotten(r \in crossed)

BatchRecorded ==
    tpc \in {"call", "reply"} /\ job = "account" =>
        \A i \in 1 .. Len(batch) : want[batch[i]] \in accessed \/ Forgotten(batch[i] \in crossed)

CacheRecorded ==
    \A k \in Accounts : cache[k] # Absent => k \in accessed \/ Forgotten(k \in late)

LEMMA RecordedParts == Recorded <=> ReadersRecorded /\ BatchRecorded /\ CacheRecorded
BY Zenon DEF Recorded, ReadersRecorded, BatchRecorded, CacheRecorded

\* Requests stay put and no account is forgotten.
LEMMA RecordedFrame ==
    ASSUME Recorded, UNCHANGED <<readVars, slotVars>>, accessed \subseteq accessed',
           crossed \subseteq crossed'
    PROVE  ReadersRecorded' /\ BatchRecorded'
<1>1. rpc' = rpc /\ want' = want /\ tpc' = tpc /\ batch' = batch /\ job' = job
  BY DEF readVars, slotVars
<1>2. ReadersRecorded'
  BY <1>1 DEF Recorded, ReadersRecorded, Forgotten
<1>3. BatchRecorded'
  BY <1>1 DEF Recorded, BatchRecorded, Forgotten
<1>. QED
  BY <1>2, <1>3

\* Everything on its way is crossed, by a re-fork, which forgets nothing,
\* or by a clearing.
LEMMA RecordedCrossed ==
    ASSUME Travel, Recorded, UNCHANGED <<readVars, slotVars>>, crossed' = InFlight,
           accessed' = accessed \/ "clear" \in ResetKinds
    PROVE  ReadersRecorded' /\ BatchRecorded'
<1>1. rpc' = rpc /\ want' = want /\ tpc' = tpc /\ batch' = batch /\ job' = job
  BY DEF readVars, slotVars
<1>2. \A i \in 1 .. Len(batch) : rpc[batch[i]] = "wait" /\ batch[i] \in Readers
  BY DEF Travel, Batched, SlotTypes
<1>3. \A i \in 1 .. Len(batch) : batch[i] \in crossed'
  BY <1>2 DEF InFlight
<1>4. ReadersRecorded'
  BY <1>1 DEF Recorded, ReadersRecorded, Forgotten, InFlight
<1>5. BatchRecorded'
  BY <1>1, <1>3 DEF Recorded, BatchRecorded, Forgotten
<1>. QED
  BY <1>4, <1>5

\* A reader outside the batch moves, not into "store".
LEMMA RecordedOutside ==
    ASSUME Travel, Recorded, NEW r \in Readers, rpc[r] # "wait", rpc'[r] # "store",
           UNCHANGED slotVars, accessed' = accessed, crossed' \in {crossed, crossed \ {r}},
           \A s \in Readers \ {r} : rpc'[s] = rpc[s] /\ want'[s] = want[s]
    PROVE  ReadersRecorded' /\ BatchRecorded'
<1>1. tpc' = tpc /\ batch' = batch /\ job' = job
  BY DEF slotVars
<1>2. \A i \in 1 .. Len(batch) : rpc[batch[i]] = "wait" /\ batch[i] \in Readers
  BY DEF Travel, Batched, SlotTypes
<1>3. \A i \in 1 .. Len(batch) : want'[batch[i]] = want[batch[i]] /\ batch[i] \in Readers \ {r}
  BY <1>2, Zenon
<1>4. \A s \in Readers \ {r} : s \in crossed => s \in crossed'
  OBVIOUS
<1>5. ReadersRecorded'
  <2>. SUFFICES ASSUME NEW s \in Readers, rpc'[s] = "store", want'[s] \in Accounts
                PROVE  want'[s] \in accessed \/ ("clear" \in ResetKinds /\ s \in crossed')
    BY Zenon DEF ReadersRecorded, Forgotten
  <2>1. s \in Readers \ {r} /\ rpc[s] = "store" /\ want'[s] = want[s]
    OBVIOUS
  <2>2. want[s] \in accessed \/ ("clear" \in ResetKinds /\ s \in crossed)
    BY <2>1, Zenon DEF Recorded, Forgotten
  <2>. QED
    BY <1>4, <2>1, <2>2
<1>6. BatchRecorded'
  <2>. SUFFICES ASSUME tpc \in {"call", "reply"}, job = "account", NEW i \in 1 .. Len(batch)
                PROVE  want'[batch[i]] \in accessed \/ ("clear" \in ResetKinds /\ batch[i] \in crossed')
    BY <1>1, Zenon DEF BatchRecorded, Forgotten
  <2>1. want[batch[i]] \in accessed \/ ("clear" \in ResetKinds /\ batch[i] \in crossed)
    BY DEF Recorded, Forgotten
  <2>. QED
    BY <1>3, <1>4, <2>1
<1>. QED
  BY <1>5, <1>6

LEMMA ReadRecorded ==
    ASSUME Travel, Holding, Recorded, NEW r \in Readers, Read(r)
    PROVE  Recorded'
<1>1. /\ rpc \in [Readers -> {"idle", "push", "offer", "wait", "store"}]
      /\ want \in [Readers -> Keys \cup {None}] /\ cache \in [Keys -> Entries \cup {Absent}]
  BY DEF Travel, ReaderTypes, Holding, RootTypes
<1>2. /\ rpc[r] # "wait" /\ rpc'[r] # "store" /\ UNCHANGED slotVars /\ accessed' = accessed
      /\ crossed' \in {crossed, crossed \ {r}}
      /\ \A s \in Readers \ {r} : rpc'[s] = rpc[s] /\ want'[s] = want[s]
  BY <1>1 DEF Read, Miss, Push, Store, rootVars
<1>3. ReadersRecorded' /\ BatchRecorded'
  BY <1>2, RecordedOutside
<1>4. CacheRecorded'
  <2>1. CASE ~Store(r)
    <3>1. cache' = cache /\ late' = late /\ accessed' = accessed
      BY <2>1 DEF Read, Miss, Push, rootVars
    <3>. QED
      BY <3>1 DEF Recorded, CacheRecorded, Forgotten
  <2>2. CASE Store(r)
    <3>. DEFINE w == want[r]
    <3>1. /\ rpc[r] = "store" /\ cache' = [cache EXCEPT ![w] = Stored(w, got[r])]
          /\ late' = (IF r \in crossed /\ (w \in Slots \/ cache[w] = Absent)
                      THEN late \cup {w} ELSE late)
      BY <2>2 DEF Store
    <3>2. w \in Keys
      BY <3>1 DEF Travel, Wanting
    <3>3. w \in Accounts => w \in accessed \/ Forgotten(r \in crossed)
      BY <3>1 DEF Recorded
    <3>. HIDE DEF w
    <3>4. /\ \A k \in Keys \ {w} : cache'[k] = cache[k]
          /\ w \in Accounts /\ cache[w] # Absent => cache'[w] = cache[w]
          /\ late \subseteq late'
          /\ r \in crossed /\ cache[w] = Absent => w \in late'
      BY <1>1, <3>1, <3>2 DEF Stored
    <3>5. ASSUME NEW k \in Accounts, cache'[k] # Absent
          PROVE  k \in accessed \/ ("clear" \in ResetKinds /\ k \in late')
      <4>1. k \in Keys
        BY DEF Keys
      <4>2. cache[k] # Absent => k \in accessed \/ ("clear" \in ResetKinds /\ k \in late)
        BY DEF Recorded, Forgotten
      <4>3. CASE k # w
        BY <3>4, <3>5, <4>1, <4>2, <4>3
      <4>4. CASE k = w /\ cache[w] # Absent
        BY <3>4, <4>2, <4>4
      <4>5. CASE k = w /\ cache[w] = Absent
        BY <3>3, <3>4, <4>5 DEF Forgotten
      <4>. QED
        BY <4>3, <4>4, <4>5
    <3>. QED
      BY <1>2, <3>5, Zenon DEF CacheRecorded, Forgotten
  <2>. QED
    BY <2>1, <2>2
<1>. QED
  BY <1>3, <1>4, RecordedParts, PTL

LEMMA TimeSlotRecorded ==
    ASSUME Travel, Holding, Recorded, TimeSlot
    PROVE  Recorded'
<1>1. cache' = cache /\ late' = late /\ accessed \subseteq accessed' /\ crossed' = crossed
  BY DEF TimeSlot, Measure, Tick, Drain, Load, Mark, CallReturns, CallFails, Reply, rootVars
<1>2. CacheRecorded'
  BY <1>1 DEF Recorded, CacheRecorded, Forgotten
<1>3. want' = want
  BY DEF TimeSlot, Measure, Tick, Drain, Load, Mark, CallReturns, CallFails, Reply, readVars
<1>4. CASE Reply
  <2>. DEFINE r == Head(batch)
  <2>1. /\ tpc = "reply" /\ batch # <<>> /\ batch \in Seq(Readers) /\ r \in Readers
        /\ rpc' = [rpc EXCEPT ![r] = "store"] /\ batch' = Tail(batch)
        /\ tpc' = "measure" \/ (tpc' = "reply" /\ job' = job)
    BY <1>4, ReplyMoves
  <2>2. /\ 1 \in 1 .. Len(batch) /\ r = batch[1]
        /\ \A i \in 1 .. Len(Tail(batch)) : /\ i + 1 \in 1 .. Len(batch)
                                            /\ Tail(batch)[i] = batch[i + 1]
    BY <2>1, HeadTail
  <2>3. rpc[r] = "wait" /\ KindOf(want[r]) = job
    BY <2>2 DEF Travel, Batched
  <2>4. want[r] \in Accounts => job = "account"
    BY <2>3, KeysAssumption DEF KindOf
  <2>5. job = "account" =>
          \A i \in 1 .. Len(batch) : want[batch[i]] \in accessed \/ Forgotten(batch[i] \in crossed)
    BY <2>1 DEF Recorded
  <2>6. want[r] \in Accounts => want[r] \in accessed \/ Forgotten(r \in crossed)
    BY <2>2, <2>4, <2>5, Zenon
  <2>. HIDE DEF r
  <2>7. rpc \in [Readers -> {"idle", "push", "offer", "wait", "store"}]
    BY DEF Travel, ReaderTypes
  <2>8. \A s \in Readers \ {r} : rpc'[s] = rpc[s]
    BY <2>1, <2>7
  <2>9. ReadersRecorded'
    <3>. SUFFICES ASSUME NEW s \in Readers, rpc'[s] = "store", want[s] \in Accounts
                  PROVE  want[s] \in accessed' \/ ("clear" \in ResetKinds /\ s \in crossed)
      BY <1>1, <1>3, Zenon DEF ReadersRecorded, Forgotten
    <3>1. CASE s = r
      BY <1>1, <2>6, <3>1 DEF Forgotten
    <3>2. CASE s # r
      BY <1>1, <2>8, <3>2 DEF Recorded, Forgotten
    <3>. QED
      BY <3>1, <3>2
  <2>10. BatchRecorded'
    <3>. SUFFICES ASSUME tpc' \in {"call", "reply"}, job' = "account", NEW i \in 1 .. Len(Tail(batch))
                  PROVE  \/ want[Tail(batch)[i]] \in accessed'
                         \/ "clear" \in ResetKinds /\ Tail(batch)[i] \in crossed
      BY <1>1, <1>3, <2>1, Zenon DEF BatchRecorded, Forgotten
    <3>1. job = "account" /\ Tail(batch)[i] = batch[i + 1] /\ i + 1 \in 1 .. Len(batch)
      BY <2>1, <2>2
    <3>. QED
      BY <1>1, <2>5, <3>1 DEF Forgotten
  <2>. QED
    BY <1>2, <2>9, <2>10, RecordedParts, PTL
<1>5. CASE ~Reply
  <2>1. rpc \in [Readers -> {"idle", "push", "offer", "wait", "store"}]
    BY DEF Travel, ReaderTypes
  <2>2. \A r \in Readers : rpc'[r] = "store" => rpc[r] = "store"
    BY <1>5, <2>1 DEF TimeSlot, Measure, Tick, Drain, Load, Mark, CallReturns, CallFails, readVars
  <2>3. ReadersRecorded'
    BY <1>1, <1>3, <2>2 DEF Recorded, ReadersRecorded, Forgotten
  <2>4. BatchRecorded'
    <3>1. CASE Mark
      <4>1. /\ \A i \in 1 .. Len(batch) : want[batch[i]] \in accessed'
            /\ batch' = batch
        BY <3>1, MarkHolding DEF Mark
      <4>. QED
        BY <1>3, <4>1 DEF BatchRecorded
    <3>2. CASE CallReturns \/ CallFails
      <4>1. tpc = "call" /\ batch' = batch /\ job' = job
        BY <3>2 DEF CallReturns, CallFails
      <4>. QED
        BY <1>1, <1>3, <4>1 DEF Recorded, BatchRecorded, Forgotten
    <3>3. CASE Load
      BY <3>3 DEF Load, BatchRecorded
    <3>4. CASE Measure \/ Drain
      BY <3>4 DEF Measure, Drain, BatchRecorded
    <3>5. CASE \E kind \in Kinds : Tick(kind)
      BY <3>5 DEF Tick, BatchRecorded
    <3>. QED
      BY <1>5, <3>1, <3>2, <3>3, <3>4, <3>5 DEF TimeSlot
  <2>. QED
    BY <1>2, <2>3, <2>4, RecordedParts, PTL
<1>. QED
  BY <1>4, <1>5

\* What a re-fork or a clearing does to the pad and to the record of it.
LEMMA ResetRecorded ==
    ASSUME Travel, Holding, Recorded, Refetched, NEW x \in Resetters, Reset(x)
    PROVE  Recorded'
<1>0. cache \in [Keys -> Entries \cup {Absent}] /\ Accounts \subseteq Keys
      /\ Slots \cap Accounts = {} /\ keyFile \subseteq Slots
  BY KeysAssumption DEF Holding, RootTypes, Keys
<1>1. CacheRecorded
  BY DEF Recorded, CacheRecorded
<1>2. ASSUME NEW n \in Heights, SetBN(x, n) PROVE Recorded'
  <2>1. /\ UNCHANGED <<readVars, slotVars>> /\ crossed' = InFlight /\ accessed' = accessed
        /\ cache' = cache /\ late' = late
    BY <1>2 DEF SetBN
  <2>2. ReadersRecorded' /\ BatchRecorded'
    BY <2>1, RecordedCrossed
  <2>3. CacheRecorded'
    BY <1>1, <2>1 DEF CacheRecorded, Forgotten
  <2>. QED
    BY <2>2, <2>3, RecordedParts, PTL
<1>3. CASE Clear(x)
  <2>1. /\ UNCHANGED <<readVars, slotVars>> /\ crossed' = InFlight /\ "clear" \in ResetKinds
        /\ cache' = [k \in Keys |-> Absent]
    BY <1>3 DEF Clear
  <2>2. ReadersRecorded' /\ BatchRecorded'
    BY <2>1, RecordedCrossed
  <2>3. CacheRecorded'
    BY <1>0, <2>1 DEF CacheRecorded
  <2>. QED
    BY <2>2, <2>3, RecordedParts, PTL
<1>4. CASE LockPad(x) \/ SlotsFetched(x)
  <2>1. /\ UNCHANGED <<readVars, slotVars>> /\ accessed \subseteq accessed' /\ late' = late
        /\ crossed' = crossed
    BY <1>4 DEF LockPad, SlotsFetched
  <2>2. \A k \in Accounts : cache'[k] = cache[k]
    BY <1>0, <1>4 DEF LockPad, SlotsFetched, Refreshed, SlotsIn
  <2>3. ReadersRecorded' /\ BatchRecorded'
    BY <2>1, RecordedFrame
  <2>4. CacheRecorded'
    BY <1>1, <2>1, <2>2 DEF CacheRecorded, Forgotten
  <2>. QED
    BY <2>3, <2>4, RecordedParts, PTL
<1>5. CASE SlotsFail(x) \/ AccountsFail(x)
  <2>1. /\ UNCHANGED <<readVars, slotVars>> /\ accessed \subseteq accessed' /\ late' = late
        /\ crossed' = crossed /\ cache' = cache
    BY <1>5 DEF SlotsFail, AccountsFail
  <2>2. ReadersRecorded' /\ BatchRecorded'
    BY <2>1, RecordedFrame
  <2>3. CacheRecorded'
    BY <1>1, <2>1 DEF CacheRecorded, Forgotten
  <2>. QED
    BY <2>2, <2>3, RecordedParts, PTL
<1>6. CASE AccountsFetched(x)
  <2>1. /\ UNCHANGED <<readVars, slotVars>> /\ accessed' = accessed \cup xaccounts[x]
        /\ crossed' = crossed /\ late' = late \ (Slots \cup xaccounts[x])
        /\ cache' = [k \in Keys |-> IF k \in xaccounts[x] THEN Answer(k, xheight[x]) ELSE cache[k]]
    BY <1>6 DEF AccountsFetched
  <2>2. ReadersRecorded' /\ BatchRecorded'
    BY <2>1, RecordedFrame
  <2>3. ASSUME NEW k \in Accounts, cache'[k] # Absent
        PROVE  k \in accessed' \/ ("clear" \in ResetKinds /\ k \in late')
    <3>1. CASE k \in xaccounts[x]
      BY <2>1, <3>1
    <3>2. CASE k \notin xaccounts[x]
      <4>1. cache[k] # Absent /\ k \notin Slots
        BY <1>0, <2>1, <2>3, <3>2
      <4>2. k \in accessed \/ ("clear" \in ResetKinds /\ k \in late)
        BY <1>1, <4>1 DEF CacheRecorded, Forgotten
      <4>. QED
        BY <2>1, <3>2, <4>1, <4>2
    <3>. QED
      BY <3>1, <3>2
  <2>4. CacheRecorded'
    BY <2>3, Zenon DEF CacheRecorded, Forgotten
  <2>. QED
    BY <2>2, <2>4, RecordedParts, PTL
<1>. QED
  BY <1>2, <1>3, <1>4, <1>5, <1>6 DEF Reset

-----------------------------------------------------------------------------
(* What a re-fork leaves behind. *)

\* The same, for one re-fork.
RefetchedBy(x) ==
    /\ xpc[x] \in {"slots", "accounts"} /\ Alone(x) => xheight[x] = bn
    /\ xpc[x] = "accounts" =>
         \A k \in Accounts : cache[k] # Absent => k \in xaccounts[x] \/ Forgotten(k \in late)
    /\ xpc[x] = "accounts" /\ Alone(x) /\ bn \notin gone =>
         \A k \in Slots : cache[k] = Absent \/ cache[k] = <<k, bn>>

LEMMA RefetchedParts == Refetched <=> \A x \in Resetters : RefetchedBy(x)
BY Zenon DEF Refetched, RefetchedBy

\* While somebody holds the mutex nobody stores, so only the one re-fork
\* inside it changes the pad.
LEMMA ReadRefetched ==
    ASSUME Holding, Refetched, NEW r \in Readers, Read(r)
    PROVE  Refetched'
<1>1. /\ xpc' = xpc /\ xheight' = xheight /\ xaccounts' = xaccounts /\ bn' = bn /\ gone' = gone
  BY DEF Read, Miss, Push, Store, rootVars, resetVars
<1>2. CASE mutex = None /\ Store(r)
  <2>1. \A x \in Resetters : xpc[x] \notin {"slots", "accounts"}
    BY <1>2, NoneOutside DEF Holding, Fetching
  <2>. QED
    BY <1>1, <2>1 DEF Refetched
<1>3. CASE ~Store(r)
  <2>1. cache' = cache /\ late' = late
    BY <1>3 DEF Read, Miss, Push, rootVars
  <2>2. \A x \in Resetters : Alone(x)' <=> Alone(x)
    BY <1>1 DEF Alone
  <2>3. \A x \in Resetters : RefetchedBy(x)'
    BY <1>1, <2>1, <2>2, RefetchedParts, Zenon DEF RefetchedBy, Forgotten
  <2>. QED
    BY <2>3, RefetchedParts, Zenon DEF Refetched, RefetchedBy
<1>. QED
  BY <1>2, <1>3 DEF Store

LEMMA TimeSlotRefetched ==
    ASSUME Refetched, TimeSlot \/ (\E n \in Heights : Prune(n)) \/ UNCHANGED vars
    PROVE  Refetched'
<1>1. /\ xpc' = xpc /\ xheight' = xheight /\ xaccounts' = xaccounts /\ bn' = bn
      /\ cache' = cache /\ late' = late /\ gone \subseteq gone'
  <2>1. CASE TimeSlot
    BY <2>1 DEF TimeSlot, Measure, Tick, Drain, Load, Mark, CallReturns, CallFails, Reply,
                rootVars, resetVars
  <2>2. CASE \E n \in Heights : Prune(n)
    BY <2>2 DEF Prune, resetVars
  <2>3. CASE UNCHANGED vars
    BY <2>3 DEF vars, rootVars, resetVars
  <2>. QED
    BY <2>1, <2>2, <2>3
<1>2. \A x \in Resetters : Alone(x)' <=> Alone(x)
  BY <1>1 DEF Alone
<1>3. bn \notin gone' => bn \notin gone
  BY <1>1
<1>. QED
  BY <1>1, <1>2, <1>3, Zenon DEF Refetched, Forgotten

LEMMA ResetRefetched ==
    ASSUME Holding, Recorded, Refetched, NEW x \in Resetters, Reset(x)
    PROVE  Refetched'
<1>0. /\ cache \in [Keys -> Entries \cup {Absent}] /\ Accounts \subseteq Keys /\ Slots \subseteq Keys
      /\ Slots \cap Accounts = {}
      /\ xpc \in [Resetters -> {"idle", "lock", "slots", "accounts"}]
      /\ xheight \in [Resetters -> Heights \cup {None}]
      /\ xaccounts \in [Resetters -> SUBSET Accounts]
  BY KeysAssumption DEF Holding, RootTypes, ResetTypes, Keys
<1>1. ASSUME NEW n \in Heights, SetBN(x, n) PROVE Refetched'
  <2>1. /\ xpc' = [xpc EXCEPT ![x] = "lock"] /\ cache' = cache /\ late' = late
        /\ xaccounts' = xaccounts /\ xheight' = xheight
    BY <1>1 DEF SetBN
  <2>2. ASSUME NEW y \in Resetters
        PROVE  RefetchedBy(y)'
    <3>1. CASE y = x
      <4>1. xpc'[y] = "lock"
        BY <1>0, <2>1, <3>1
      <4>. QED
        BY <4>1 DEF RefetchedBy
    <3>2. CASE y # x
      <4>1. xpc'[y] = xpc[y] /\ xpc'[x] = "lock"
        BY <1>0, <2>1, <3>2
      <4>2. ~Alone(y)'
        BY <3>2, <4>1 DEF Alone
      <4>. QED
        BY <2>1, <4>1, <4>2, Zenon DEF RefetchedBy, Refetched, Forgotten
    <3>. QED
      BY <3>1, <3>2
  <2>. QED
    BY <2>2, Zenon DEF Refetched, RefetchedBy
<1>2. CASE Clear(x)
  <2>1. mutex = None /\ xpc' = xpc
    BY <1>2 DEF Clear
  <2>2. \A y \in Resetters : xpc[y] \notin {"slots", "accounts"}
    BY <2>1, NoneOutside DEF Holding, Fetching
  <2>. QED
    BY <2>1, <2>2 DEF Refetched
<1>3. CASE LockPad(x)
  <2>1. mutex = None /\ xpc' = [xpc EXCEPT ![x] = "slots"] /\ xheight' = [xheight EXCEPT ![x] = bn]
        /\ bn' = bn
    BY <1>3 DEF LockPad
  <2>2. \A y \in Resetters : xpc[y] \notin {"slots", "accounts"}
    BY <2>1, NoneOutside DEF Holding, Fetching
  <2>3. /\ xpc'[x] = "slots" /\ xheight'[x] = bn
        /\ \A y \in Resetters \ {x} : xpc'[y] \notin {"slots", "accounts"}
    BY <1>0, <2>1, <2>2
  <2>4. \A y \in Resetters : xpc'[y] # "accounts"
    BY <2>3
  <2>. QED
    BY <2>1, <2>3, <2>4 DEF Refetched
<1>4. CASE SlotsFetched(x)
  <2>1. /\ xpc[x] = "slots"
        /\ cache' = [k \in Keys |-> IF k \in SlotsIn(cache) THEN Answer(k, xheight[x]) ELSE cache[k]]
        /\ xaccounts' = [xaccounts EXCEPT ![x] = accessed]
        /\ xheight' = [xheight EXCEPT ![x] = bn] /\ xpc' = [xpc EXCEPT ![x] = "accounts"]
        /\ bn' = bn /\ gone' = gone /\ late' = late
    BY <1>4 DEF SlotsFetched, Refreshed
  <2>2. mutex = x
    BY <2>1 DEF Holding, Fetching
  <2>3. \A y \in Resetters \ {x} : xpc'[y] = xpc[y] /\ xpc[y] \notin {"slots", "accounts"}
    BY <1>0, <2>1, <2>2 DEF Holding, Fetching
  <2>4. Alone(x)' <=> Alone(x)
    BY <2>3 DEF Alone
  <2>5. xheight'[x] = bn /\ xaccounts'[x] = accessed
    BY <1>0, <2>1
  <2>6. ASSUME NEW k \in Accounts, cache'[k] # Absent
        PROVE  k \in accessed \/ Forgotten(k \in late)
    <3>1. cache'[k] = cache[k]
      BY <1>0, <2>1 DEF SlotsIn
    <3>. QED
      BY <2>6, <3>1, Zenon DEF Recorded
  <2>7. ASSUME Alone(x), bn \notin gone, NEW k \in Slots
        PROVE  cache'[k] = Absent \/ cache'[k] = <<k, bn>>
    <3>1. xheight[x] = bn
      BY <2>1, <2>7 DEF Refetched
    <3>2. CASE cache[k] = Absent
      BY <1>0, <2>1, <3>2 DEF SlotsIn
    <3>3. CASE cache[k] # Absent
      <4>1. cache'[k] = Answer(k, bn)
        BY <1>0, <2>1, <3>1, <3>3 DEF SlotsIn
      <4>. QED
        BY <2>7, <4>1 DEF Answer
    <3>. QED
      BY <3>2, <3>3
  <2>8. RefetchedBy(x)'
    BY <2>1, <2>4, <2>5, <2>6, <2>7, Zenon DEF RefetchedBy, Forgotten
  <2>9. \A y \in Resetters \ {x} : RefetchedBy(y)'
    BY <2>3 DEF RefetchedBy
  <2>. QED
    BY <2>8, <2>9, Zenon DEF Refetched, RefetchedBy
<1>5. CASE SlotsFail(x) \/ AccountsFail(x) \/ AccountsFetched(x)
  <2>1. xpc[x] \in {"slots", "accounts"} /\ xpc' = [xpc EXCEPT ![x] = "idle"]
    BY <1>5 DEF SlotsFail, AccountsFail, AccountsFetched, Unlock
  <2>2. mutex = x
    BY <2>1 DEF Holding, Fetching
  <2>3. \A y \in Resetters : xpc'[y] \notin {"slots", "accounts"}
    BY <1>0, <2>1, <2>2 DEF Holding, Fetching
  <2>. QED
    BY <2>3 DEF Refetched
<1>. QED
  BY <1>1, <1>2, <1>3, <1>4, <1>5 DEF Reset

-----------------------------------------------------------------------------
(* Nothing else is stale. *)

\* A re-fork that was alone to the end leaves entries of its own height,
\* except for accounts that a clearing made the node forget.
LEMMA AloneRefreshes ==
    ASSUME Holding, Refetched, NEW x \in Resetters, AccountsFetched(x), Alone(x), bn \notin gone,
           NEW k \in Keys
    PROVE  cache'[k] \in {Absent, <<k, bn>>} \/ Forgotten(k \in late')
<1>1. /\ xpc[x] = "accounts" /\ late' = late \ (Slots \cup xaccounts[x])
      /\ cache' = [j \in Keys |-> IF j \in xaccounts[x] THEN Answer(j, xheight[x]) ELSE cache[j]]
  BY DEF AccountsFetched
<1>2. xaccounts[x] \subseteq Accounts /\ Slots \cap Accounts = {}
  BY KeysAssumption DEF Holding, ResetTypes
<1>3. xheight[x] = bn
  BY <1>1 DEF Refetched
<1>4. CASE k \in xaccounts[x]
  <2>1. cache'[k] = Answer(k, bn)
    BY <1>1, <1>3, <1>4
  <2>. QED
    BY <2>1 DEF Answer
<1>5. CASE k \in Slots
  <2>1. cache'[k] = cache[k]
    BY <1>1, <1>2, <1>5
  <2>2. cache[k] = Absent \/ cache[k] = <<k, bn>>
    BY <1>1, <1>5 DEF Refetched
  <2>. QED
    BY <2>1, <2>2
<1>6. CASE k \in Accounts /\ k \notin xaccounts[x]
  <2>1. cache'[k] = cache[k]
    BY <1>1, <1>6
  <2>2. cache[k] = Absent \/ Forgotten(k \in late)
    BY <1>1, <1>6 DEF Refetched
  <2>3. k \in late => k \in late'
    BY <1>1, <1>2, <1>6
  <2>. QED
    BY <2>1, <2>2, <2>3 DEF Forgotten
<1>. QED
  BY <1>4, <1>5, <1>6 DEF Keys

\* Where nothing of it changes but that upstream loses a height.
LEMMA StaleFrame ==
    ASSUME OnlyLateIsStale, cache' = cache, late' = late, xpc' = xpc, lastReset' = lastReset,
           bn' = bn, gone \subseteq gone'
    PROVE  OnlyLateIsStale'
<1>1. Resting' <=> Resting
  BY DEF Resting
<1>2. bn \notin gone' => bn \notin gone
  OBVIOUS
<1>. QED
  BY <1>1, <1>2, Zenon DEF OnlyLateIsStale

LEMMA ReadStale ==
    ASSUME Travel, Holding, Timely, OnlyLateIsStale, NEW r \in Readers, Read(r)
    PROVE  OnlyLateIsStale'
<1>1. /\ xpc' = xpc /\ lastReset' = lastReset /\ bn' = bn /\ gone' = gone
  BY DEF Read, Miss, Push, Store, rootVars, resetVars
<1>2. CASE ~Store(r)
  <2>1. cache' = cache /\ late' = late
    BY <1>2 DEF Read, Miss, Push, rootVars
  <2>. QED
    BY <1>1, <2>1, StaleFrame
<1>3. CASE Store(r)
  <2>. DEFINE w == want[r]
  <2>1. /\ rpc[r] = "store" /\ cache' = [cache EXCEPT ![w] = Stored(w, got[r])]
        /\ late' = (IF r \in crossed /\ (w \in Slots \/ cache[w] = Absent)
                    THEN late \cup {w} ELSE late)
    BY <1>3 DEF Store
  <2>2. w \in Keys /\ cache \in [Keys -> Entries \cup {Absent}]
    BY <2>1 DEF Travel, Wanting, Holding, RootTypes
  <2>3. r \notin crossed => got[r] = <<w, bn>> \/ bn \in gone
    BY <2>1 DEF Timely, Current
  <2>. HIDE DEF w
  <2>4. /\ \A k \in Keys \ {w} : cache'[k] = cache[k]
        /\ late \subseteq late'
        /\ cache'[w] = cache[w] \/ cache'[w] = got[r]
        /\ r \in crossed => w \in late' \/ cache'[w] = cache[w]
    BY <2>1, <2>2 DEF Stored, Keys
  <2>. SUFFICES ASSUME Resting, lastReset = "ok", bn \notin gone, NEW k \in Keys
                PROVE  cache'[k] \in {Absent, <<k, bn>>} \/ k \in late'
    <3>1. Resting' <=> Resting
      BY <1>1 DEF Resting
    <3>. QED
      BY <1>1, <3>1, Zenon DEF OnlyLateIsStale
  <2>5. cache[k] \in {Absent, <<k, bn>>} \/ k \in late
    BY DEF OnlyLateIsStale
  <2>6. CASE k # w
    BY <2>4, <2>5, <2>6
  <2>7. CASE k = w
    <3>1. CASE r \in crossed
      BY <2>4, <2>5, <2>7, <3>1
    <3>2. CASE r \notin crossed
      BY <2>3, <2>4, <2>5, <2>7, <3>2
    <3>. QED
      BY <3>1, <3>2
  <2>. QED
    BY <2>6, <2>7
<1>. QED
  BY <1>2, <1>3

LEMMA TimeSlotStale ==
    ASSUME OnlyLateIsStale, TimeSlot \/ (\E n \in Heights : Prune(n)) \/ UNCHANGED vars
    PROVE  OnlyLateIsStale'
<1>1. /\ xpc' = xpc /\ lastReset' = lastReset /\ bn' = bn
      /\ cache' = cache /\ late' = late /\ gone \subseteq gone'
  <2>1. CASE TimeSlot
    BY <2>1 DEF TimeSlot, Measure, Tick, Drain, Load, Mark, CallReturns, CallFails, Reply,
                rootVars, resetVars
  <2>2. CASE \E n \in Heights : Prune(n)
    BY <2>2 DEF Prune, resetVars
  <2>3. CASE UNCHANGED vars
    BY <2>3 DEF vars, rootVars, resetVars
  <2>. QED
    BY <2>1, <2>2, <2>3
<1>. QED
  BY <1>1, StaleFrame

LEMMA ResetStale ==
    ASSUME Holding, Refetched, OnlyLateIsStale, NEW x \in Resetters, Reset(x)
    PROVE  OnlyLateIsStale'
<1>0. xpc \in [Resetters -> {"idle", "lock", "slots", "accounts"}]
  BY DEF Holding, ResetTypes
<1>1. CASE (\E n \in Heights : SetBN(x, n)) \/ LockPad(x) \/ SlotsFetched(x)
  <2>1. xpc'[x] # "idle"
    BY <1>0, <1>1 DEF SetBN, LockPad, SlotsFetched
  <2>. QED
    BY <2>1 DEF OnlyLateIsStale, Resting
<1>2. CASE SlotsFail(x) \/ AccountsFail(x)
  <2>1. lastReset' # "ok"
    BY <1>2 DEF SlotsFail, AccountsFail
  <2>. QED
    BY <2>1 DEF OnlyLateIsStale
<1>3. CASE Clear(x)
  <2>1. cache' = [k \in Keys |-> Absent]
    BY <1>3 DEF Clear
  <2>. QED
    BY <2>1 DEF OnlyLateIsStale
<1>4. CASE AccountsFetched(x)
  <2>1. /\ bn' = bn /\ gone' = gone /\ xpc' = [xpc EXCEPT ![x] = "idle"]
    BY <1>4 DEF AccountsFetched, Unlock
  <2>2. Resting' => Alone(x)
    BY <1>0, <2>1 DEF Resting, Alone
  <2>3. ASSUME Alone(x), bn \notin gone, NEW k \in Keys
        PROVE  cache'[k] \in {Absent, <<k, bn>>} \/ k \in late'
    BY <1>4, <2>3, AloneRefreshes DEF Forgotten
  <2>. QED
    BY <2>1, <2>2, <2>3, Zenon DEF OnlyLateIsStale
<1>. QED
  BY <1>1, <1>2, <1>3, <1>4 DEF Reset

LEMMA FreshInit == Init => Freshness
<1>. SUFFICES ASSUME Init PROVE Freshness
  OBVIOUS
<1>1. Answered = 0
  BY DEF Init, Answered
<1>2. Timely
  BY <1>1 DEF Init, Timely
<1>3. Recorded
  BY DEF Init, Recorded, Keys
<1>4. Refetched
  BY DEF Init, Refetched
<1>5. OnlyLateIsStale
  BY DEF Init, OnlyLateIsStale
<1>. QED
  BY <1>2, <1>3, <1>4, <1>5 DEF Freshness

LEMMA FreshAlways == Spec => [](MatchInv /\ Freshness)
<1>1. MatchInv /\ Freshness /\ [Next]_vars => Freshness'
  <2>. SUFFICES ASSUME MatchInv, Freshness, [Next]_vars PROVE Freshness'
    OBVIOUS
  <2>0. Travel /\ Holding /\ Timely /\ Recorded /\ Refetched /\ OnlyLateIsStale
    BY DEF MatchInv, Freshness
  <2>1. ASSUME NEW r \in Readers, Read(r) PROVE Freshness'
    BY <2>0, <2>1, ReadTimely, ReadRecorded, ReadRefetched, ReadStale DEF Freshness
  <2>2. CASE TimeSlot
    BY <2>0, <2>2, TimeSlotTimely, TimeSlotRecorded, TimeSlotRefetched, TimeSlotStale DEF Freshness
  <2>3. ASSUME NEW x \in Resetters, Reset(x) PROVE Freshness'
    <3>1. Timely'
      <4>1. UNCHANGED <<readVars, slotVars>> /\ gone \subseteq gone'
        BY <2>3 DEF Reset, SetBN, LockPad, SlotsFetched, SlotsFail, AccountsFetched, AccountsFail,
                    Clear
      <4>2. CASE crossed' = InFlight
        BY <2>0, <4>1, <4>2, TimelyCrossed
      <4>3. CASE bn' = bn /\ crossed' = crossed
        BY <2>0, <4>1, <4>3, TimelyFrame
      <4>. QED
        BY <2>3, <4>2, <4>3 DEF Reset, SetBN, LockPad, SlotsFetched, SlotsFail, AccountsFetched,
                                AccountsFail, Clear
    <3>. QED
      BY <2>0, <2>3, <3>1, ResetRecorded, ResetRefetched, ResetStale DEF Freshness
  <2>4. CASE (\E n \in Heights : Prune(n)) \/ UNCHANGED vars
    <3>1. /\ UNCHANGED <<readVars, slotVars>> /\ bn' = bn /\ gone \subseteq gone'
          /\ crossed' = crossed /\ accessed' = accessed /\ cache' = cache /\ late' = late
      BY <2>4 DEF Prune, vars, rootVars
    <3>2. Timely'
      BY <2>0, <3>1, TimelyFrame
    <3>3. CacheRecorded'
      BY <2>0, <3>1 DEF Recorded, CacheRecorded, Forgotten
    <3>4. ReadersRecorded' /\ BatchRecorded'
      BY <2>0, <3>1, RecordedFrame
    <3>5. Recorded'
      BY <3>3, <3>4, RecordedParts, PTL
    <3>. QED
      BY <2>0, <2>4, <3>2, <3>5, TimeSlotRefetched, TimeSlotStale DEF Freshness
  <2>. QED
    BY <2>1, <2>2, <2>3, <2>4 DEF Next
<1>. QED
  BY <1>1, FreshInit, MatchAlways, PTL DEF Spec

\* Between re-forks, after one that succeeded at a height upstream still
\* has, every entry was fetched at the forked height, except the keys that
\* a reader overtaken by the re-fork or by a clearing stored: for any mix of
\* re-forks and clearings, however many overlap, and whatever fetches failed
\* and were retried in between.
THEOREM StaleOnlyLate == Spec => []OnlyLateIsStale
<1>1. Freshness => OnlyLateIsStale
  BY DEF Freshness
<1>. QED
  BY <1>1, FreshAlways, PTL

\* On a node nobody clears the cache of, a re-fork that fetches everything
\* it asked for and is alone leaves no value of an older height, not even
\* one stored by a reader it overtook: it knows every account of the pad.
\* (Clearing forgets accounts that are still on their way, so with it a
\* later re-fork misses them.)
THEOREM ReforkComplete ==
    ASSUME "clear" \notin ResetKinds
    PROVE  Spec => ReforkRefreshesAll
<1>. DEFINE Step == \A x \in Resetters :
                      /\ AccountsFetched(x)
                      /\ \A y \in Resetters \ {x} : xpc[y] = "idle"
                      /\ bn \notin gone
                      => \A k \in Keys : cache'[k] \in {Absent, <<k, bn>>}
<1>1. MatchInv /\ Freshness => Step
  <2>. SUFFICES ASSUME MatchInv, Freshness, NEW x \in Resetters, AccountsFetched(x),
                       \A y \in Resetters \ {x} : xpc[y] = "idle", bn \notin gone, NEW k \in Keys
                PROVE  cache'[k] \in {Absent, <<k, bn>>}
    OBVIOUS
  <2>1. Alone(x)
    BY DEF Alone
  <2>2. Holding /\ Refetched
    BY DEF MatchInv, Freshness
  <2>. QED
    BY <2>1, <2>2, AloneRefreshes DEF Forgotten
<1>2. Spec => [][Step]_vars
  <2>. HIDE DEF Step
  <2>. QED
    BY <1>1, FreshAlways, PTL
<1>. QED
  BY <1>2 DEF ReforkRefreshesAll
=============================================================================
